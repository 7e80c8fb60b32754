\* Two accounts, a book of two levels, four calls: enough for one aggressor to
\* meet two orders of two accounts, and for a replacement that trades.  Two at
\* price 2 is over the notional limit.
CONSTANTS
  OrderIds = {o1, o2, o3}
  kInvalidOrderId = none
  Accounts = {1, 2}
  Prices = {1, 2}
  Quantities = {0, 1, 2}
  TimesInForce = {"Gtc", "Ioc"}
  MinPrice = 1
  MaxPrice = 2
  Symbols = {1, 2}
  max_order_qty = 2
  max_order_notional = 3
  max_open_orders_per_account = 2
  max_msgs_per_window = 4
  rate_window_ns = 1
  NotionalModulus = 100
  Times = {0}
  Journaling = FALSE
  Disciplined = TRUE
  MaxSeq = 4
  Commands <- TradingCommands
SPECIFICATION Spec
INVARIANTS TypeOK IndexAgrees RiskTracksBooks
PROPERTIES OpenOrdersCapped
SYMMETRY IdSymmetry
\* MaxSeq stops the exchange.
CHECK_DEADLOCK FALSE
