\* Careless clients and the journal: an id used in two books, replacements that
\* fail, an unknown symbol; three receive times around a window of one, in which
\* two messages are let through.  Prices times quantities wrap at 4: the largest
\* order of the ladder, three at 1, does not, and two at 2 are worth nothing.  The
\* tool takes a price more and larger values than the exchange, and fewer open
\* orders: either may refuse what the other took.
CONSTANTS
  OrderIds = {1, 2}
  kInvalidOrderId = 0
  Accounts = {1}
  Prices = {0, 1, 2}
  Quantities = {0, 1, 2, 3}
  TimesInForce = {"Gtc"}
  MinPrice = 1
  MaxPrice = 1
  Symbols = {1, 2}
  max_order_qty = 3
  max_order_notional = 2
  max_open_orders_per_account = 2
  max_msgs_per_window = 2
  rate_window_ns = 1
  NotionalModulus = 4
  Times = {0, 1, 2}
  Journaling = TRUE
  Disciplined = FALSE
  MaxSeq = 4
  Commands <- CarelessCommands
  tool_MinPrice = 1
  tool_MaxPrice = 2
  tool_max_order_qty = 3
  tool_max_order_notional = 3
  tool_max_open_orders_per_account = 1
  tool_max_msgs_per_window = 2
  tool_rate_window_ns = 2
SPECIFICATION CheckSpec
INVARIANTS IndexNeverDangles OrderLimitsHold ReplayRebuilds ToolAgreesUnlessLimited
PROPERTIES RateLimitExact RefusalsTakeOneOrder
\* MaxSeq stops the exchange.
CHECK_DEADLOCK FALSE
