\* Records of three parts, two commands, two records in a file, two starts of the
\* exchange: a replay that has returned the first record of one run may go on with
\* the second of the next.
CONSTANTS
  OrderIds = {1}
  kInvalidOrderId = 0
  Accounts = {1}
  Prices = {1}
  Quantities = {0, 2}
  TimesInForce = {"Gtc"}
  MinPrice = 1
  MaxPrice = 1
  Symbols = {1}
  max_order_qty = 2
  max_order_notional = 2
  max_open_orders_per_account = 2
  max_msgs_per_window = 2
  rate_window_ns = 1
  NotionalModulus = 100
  Times = {0}
  Journaling = TRUE
  Disciplined = FALSE
  MaxSeq = 2
  Commands <- DayCommands
  Records <- SequencedCommands
  NoRecord = torn
  MagicBytes = 1
  PrefixBytes = 2
  RecordBytes = 3
  MaxRecords = 2
  MaxRuns = 2
SPECIFICATION RecoverySpec
INVARIANTS
  JournalTypeOK ReadsWhatWasAppended FlushedReadsBack RecoversAPast FlushedIsNow
PROPERTIES CleanEndIsTheEnd
\* MaxSeq and MaxRuns stop the exchange.
CHECK_DEADLOCK FALSE
