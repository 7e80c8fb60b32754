----------------------------- MODULE ReplayCheck -----------------------------
(***************************************************************************)
(* tools/replay_check.cpp: the journal of an exchange replayed by a        *)
(* program that is told the number of symbols and nothing else: its ladder *)
(* and its limits are the defaults, whatever the exchange ran with.        *)
(***************************************************************************)
EXTENDS Exchange

LOCAL INSTANCE SequencesExt   \* FoldLeft

CONSTANTS       \* the configuration of the tool
  tool_MinPrice,
  tool_MaxPrice,
  tool_max_order_qty,
  tool_max_order_notional,
  tool_max_open_orders_per_account,
  tool_max_msgs_per_window,
  tool_rate_window_ns

Tool == INSTANCE Exchange WITH
  MinPrice <- tool_MinPrice,
  MaxPrice <- tool_MaxPrice,
  max_order_qty <- tool_max_order_qty,
  max_order_notional <- tool_max_order_notional,
  max_open_orders_per_account <- tool_max_open_orders_per_account,
  max_msgs_per_window <- tool_max_msgs_per_window,
  rate_window_ns <- tool_rate_window_ns

VARIABLE limited   \* a command was refused by a limit or the ladder (history)

checkVars == <<vars, limited>>

(* Reasons that depend on the configuration. *)
LimitReasons ==
  {"RiskMaxQty", "RiskMaxNotional", "RiskOpenOrders", "RiskRateLimit", "InvalidPrice"}

CheckInit == Init /\ limited = FALSE

CheckNext ==
  /\ Next
  /\ limited' = (limited \/ (journal' # journal /\ last'.reason \in LimitReasons))

CheckSpec == CheckInit /\ [][CheckNext]_checkVars

(* Mutant: the numbers of the events start again with every record. *)
AppliedRenumbered(r, step) ==
  [exchange |-> [step.exchange EXCEPT !.next_md_seq = 1], md |-> r.md \o step.md,
   thrown |-> step.thrown, limited |-> r.limited \/ step.reason \in LimitReasons]

(* One record of the replay, remembering in `limited' what CheckNext does. *)
Applied(r, step) ==
  [exchange |-> step.exchange, md |-> r.md \o step.md, thrown |-> step.thrown,
   limited |-> r.limited \/ step.reason \in LimitReasons]

ToolReplay ==
  FoldLeft(LAMBDA r, sc :
             IF r.thrown THEN r ELSE Applied(r, Tool!ApplySequenced(r.exchange, sc)),
           [exchange |-> Tool!NewExchange, md |-> <<>>, thrown |-> FALSE,
            limited |-> FALSE],
           journal)

(* What a book holds, without the ladder it is laid out on. *)
Held(q) ==
  {<<side, p, q[side][p]>> : side \in Sides, p \in DOMAIN q["Buy"]} \
    {<<side, p, <<>>>> : side \in Sides, p \in DOMAIN q["Buy"]}

-----------------------------------------------------------------------------
(***************************************************************************)
(* The tool finds the books, the open orders and the events of the         *)
(* exchange, in spite of its own configuration, as long as neither of the  *)
(* two refused a command for a limit or a price: what replay_check prints  *)
(* can only be compared with an exchange of which that is known.           *)
(***************************************************************************)
ToolAgreesUnlessLimited ==
  LET r == ToolReplay
  IN  ~ limited /\ ~ r.limited /\ ~ r.thrown =>
        /\ \A s \in Symbols : Held(r.exchange.manager.books[s]) = Held(books[s])
        /\ \A a \in Accounts :
             r.exchange.accounts[a].open_orders = exchange.accounts[a].open_orders
        /\ Len(journal) = exchange.next_seq - 1 => r.md = md_checksum
=============================================================================
