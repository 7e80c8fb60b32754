\* Two messages in a window of two, at times that go back by one of seven: both
\* windows that the properties speak of lie between the first and the last time.
CONSTANTS
  Accounts = {1, 2}
  Times = {0, 1, 2, 3, 4, 5, 6}
  Slack = 1
  MaxPassed = 5
  max_order_qty = 1
  max_order_notional = 1
  max_open_orders_per_account = 1
  max_msgs_per_window = 2
  rate_window_ns = 2
  NotionalModulus = 100
SPECIFICATION RateSpec
INVARIANTS QueueIsTail
PROPERTIES RefusedOnlyOverLimit PassedOnlyUnderLimit
\* Times and MaxPassed stop the accounts.
CHECK_DEADLOCK FALSE
