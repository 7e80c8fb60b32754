------------------------------ MODULE Exchange ------------------------------
(***************************************************************************)
(* core::Exchange (src/exchange.cpp): a command is sequenced, journaled,   *)
(* checked by the risk engine, executed by the book manager, and answered  *)
(* with an acknowledgement and market data events, which also update the   *)
(* risk engine.  One call at a time: the object has no lock and no thread. *)
(*                                                                         *)
(* `exchange' holds what a replay of the journal rebuilds; `last' is the   *)
(* last call with its ProcessResult.                                       *)
(***************************************************************************)
EXTENDS BookManager, RiskEngine, FiniteSetsExt

CONSTANTS
  Commands,     \* the commands clients send
  Times,        \* the receive timestamps
  Journaling,   \* ExchangeConfig::journal_path is set
  Disciplined,  \* clients keep to Obeys; otherwise they send any command
  MaxSeq        \* bound: calls in a behaviour

Command ==
  [type : {"New", "Cancel", "Replace"},
   order_id : OrderIds \cup {kInvalidOrderId},
   cancel_order_id : OrderIds \cup {kInvalidOrderId},
   account_id : Accounts \cup {kNoAccount}, symbol_id : Nat, side : Sides,
   price : Prices, qty : Quantities, tif : TimesInForce]

RejectReasons ==
  BookRejects \cup {"Malformed", "RiskMaxQty", "RiskMaxNotional", "RiskOpenOrders",
                   "RiskRateLimit", "InvalidSymbol"}

ASSUME CallAssumption ==
  /\ Commands \subseteq Command
  /\ Times \subseteq Nat
  /\ Journaling \in BOOLEAN /\ Disciplined \in BOOLEAN
  /\ MaxSeq \in Nat

VARIABLES
  exchange,     \* [next_seq, next_md_seq, manager, accounts]
  journal,      \* the records appended, <<>> without Journaling
  md_checksum,  \* what was hashed into it, <<>> without Journaling
  clock,        \* the last receive timestamp
  last          \* [cmd, accepted, reason, md, thrown] of the last call

vars == <<exchange, journal, md_checksum, clock, last>>

-----------------------------------------------------------------------------
(* protocol::validate_client_command, on the fields Command leaves open. *)
Validate(cmd) ==
  LET noTarget == cmd.cancel_order_id = kInvalidOrderId
      noId == cmd.order_id = kInvalidOrderId
      terms == IF cmd.qty = 0 THEN "InvalidQty"
               ELSE IF cmd.price <= 0 THEN "InvalidPrice" ELSE "None"
  IN  IF cmd.account_id = kNoAccount THEN "Malformed"
      ELSE IF cmd.symbol_id = kNoSymbol THEN "InvalidSymbol"
      ELSE CASE cmd.type = "New" -> IF noId THEN "Malformed" ELSE terms
             [] cmd.type = "Cancel" -> IF noTarget THEN "UnknownOrder" ELSE "None"
             [] cmd.type = "Replace" -> IF noTarget \/ noId THEN "UnknownOrder"
                                        ELSE terms

(* What process_frame answers for a frame it cannot decode. *)
Dummy ==
  [order_id |-> kInvalidOrderId, account_id |-> kNoAccount, symbol_id |-> 1,
   side |-> "Buy", price |-> 0, qty |-> 0]

NewExchange ==
  [next_seq |-> 1, next_md_seq |-> 1, manager |-> EmptyManager,
   accounts |-> [a \in Accounts |-> NewAccount]]

(* md with the sequence numbers from first on. *)
Numbered(md, first) == [k \in DOMAIN md |-> [seq |-> first + k - 1, ev |-> md[k]]]

RejectEvent(cmd, reason) ==
  [type |-> "Reject", symbol_id |-> cmd.symbol_id, order_id |-> cmd.order_id,
   account_id |-> cmd.account_id, side |-> cmd.side, price |-> cmd.price,
   qty |-> cmd.qty, reason |-> reason]

Reject(e, cmd, reason) ==
  [exchange |-> [e EXCEPT !.next_md_seq = @ + 1], accepted |-> FALSE,
   reason |-> reason, thrown |-> FALSE,
   md |-> Numbered(<<RejectEvent(cmd, reason)>>, e.next_md_seq)]

(* Every event goes to the risk engine with the books as the command left them. *)
AccountForMd(accounts, md, m) ==
  LET after[k \in 0 .. Len(md)] ==
        IF k = 0 THEN accounts
        ELSE OnMarketData(after[k - 1], md[k], ContainsOrder(m, md[k].order_id))
  IN  after[Len(md)]

(* Mutant: one sequence number for all the events of a command. *)
AcceptUnderOneNumber(e, md) ==
  [exchange |-> [e EXCEPT !.next_md_seq = @ + 1,
                          !.accounts = AccountForMd(@, md, e.manager)],
   accepted |-> TRUE, reason |-> "None", thrown |-> FALSE,
   md |-> Numbered(md, e.next_md_seq)]

Accept(e, md) ==
  [exchange |-> [e EXCEPT !.next_md_seq = @ + Len(md),
                          !.accounts = AccountForMd(e.accounts, md, e.manager)],
   accepted |-> TRUE, reason |-> "None", thrown |-> FALSE,
   md |-> Numbered(md, e.next_md_seq)]

(* std::out_of_range leaves the call where it is. *)
Throw(e) ==
  [exchange |-> e, accepted |-> FALSE, reason |-> "None", thrown |-> TRUE, md |-> <<>>]

Execute(m, cmd) ==
  CASE cmd.type = "New" -> AddOrder(m, cmd)
    [] cmd.type = "Cancel" -> CancelOrder(m, cmd.cancel_order_id)
    [] cmd.type = "Replace" -> ReplaceOrder(m, cmd)

(* What the exchange makes of the books' answer to cmd. *)
Executed(e, cmd, call) ==
  LET executed == [e EXCEPT !.manager = call.manager]
  IN  IF call.reject # "None" THEN Reject(executed, cmd, call.reject)
      ELSE Accept(executed, call.md)

(* Mutant: a command the risk engine refuses is executed and then rejected. *)
CheckedTooLate(e, cmd, reason) ==
  IF reason # "None"
  THEN Reject([e EXCEPT !.manager = Execute(@, cmd).manager], cmd, reason)
  ELSE IF cmd.type = "New" /\ ~ HasBook(cmd) THEN Throw(e)
  ELSE Executed(e, cmd, Execute(e.manager, cmd))

(***************************************************************************)
(* After the risk check.  A command the books refuse leaves them as the    *)
(* call left them, and the events of the call are dropped.                 *)
(***************************************************************************)
Checked(e, cmd, reason) ==
  IF reason # "None" THEN Reject(e, cmd, reason)
  ELSE IF cmd.type = "New" /\ ~ HasBook(cmd) THEN Throw(e)
  ELSE Executed(e, cmd, Execute(e.manager, cmd))

ApplySequenced(e, sc) ==
  LET cmd == sc.cmd
      ahead == sc.seq # e.next_seq - 1 /\ sc.seq >= e.next_seq
      risk == Check(e.accounts, cmd, ContainsOrder(e.manager, cmd.cancel_order_id),
                    sc.recv_ts_ns)
      seq == IF ahead THEN sc.seq + 1 ELSE e.next_seq
  IN  Checked([e EXCEPT !.next_seq = seq, !.accounts = risk.accounts],
              cmd, risk.reason)

(* replay_journal: a second exchange applies the records, until one throws. *)
Republished(r, step) ==
  [exchange |-> step.exchange, md |-> r.md \o step.md, thrown |-> step.thrown]

ReplayOne(r, sc) ==
  IF r.thrown THEN r ELSE Republished(r, ApplySequenced(r.exchange, sc))

Replayed(records) ==
  LET after[k \in 0 .. Len(records)] ==
        IF k = 0 THEN [exchange |-> NewExchange, md |-> <<>>, thrown |-> FALSE]
                 ELSE ReplayOne(after[k - 1], records[k])
  IN  after[Len(records)]

-----------------------------------------------------------------------------
NoCall ==
  [cmd |-> Dummy, accepted |-> FALSE, reason |-> "None", md |-> <<>>, thrown |-> FALSE]

Init ==
  /\ exchange = NewExchange
  /\ journal = <<>>
  /\ md_checksum = <<>>
  /\ clock = 0
  /\ last = NoCall

(* The call of cmd ends with r, a record of what ApplySequenced answers. *)
Answer(cmd, r) ==
  /\ exchange' = r.exchange
  /\ md_checksum' = IF Journaling THEN md_checksum \o r.md ELSE md_checksum
  /\ last' = [cmd |-> cmd, accepted |-> r.accepted, reason |-> r.reason,
              md |-> r.md, thrown |-> r.thrown]

NextSeq == [exchange EXCEPT !.next_seq = @ + 1]

(* Ids no resting order has, replacements inside the ladder, known symbols. *)
Obeys(cmd) ==
  /\ cmd.type \in {"New", "Replace"} =>
       \/ ~ ContainsOrder(exchange.manager, cmd.order_id)
       \/ cmd.type = "Replace" /\ cmd.order_id = cmd.cancel_order_id
  /\ cmd.type = "Replace" => PriceInBand(cmd.price)
  /\ cmd.type = "New" => HasBook(cmd)

Called(cmd, now) ==
  /\ exchange.next_seq <= MaxSeq
  /\ now >= clock
  /\ clock' = now
  /\ Disciplined => Obeys(cmd)

(* Mutant: a command is journaled once the risk engine has let it through. *)
JournaledOnceChecked(sc) ==
  IF /\ Journaling
     /\ Check(exchange.accounts, sc.cmd,
              ContainsOrder(exchange.manager, sc.cmd.cancel_order_id),
              sc.recv_ts_ns).reason = "None"
  THEN Append(journal, sc) ELSE journal

Journaled(sc) == IF Journaling THEN Append(journal, sc) ELSE journal

(* process_command, which takes a command as it is. *)
ProcessCommand(cmd, now) ==
  LET sc == [seq |-> exchange.next_seq, recv_ts_ns |-> now, cmd |-> cmd]
  IN  /\ Called(cmd, now)
      /\ Disciplined => Validate(cmd) = "None"
      /\ cmd.account_id \in Accounts
      /\ cmd.type # "Cancel" => cmd.order_id \in OrderIds
      /\ journal' = Journaled(sc)
      /\ Answer(cmd, ApplySequenced(NextSeq, sc))

(* process_frame with a frame that decodes into cmd, which must then be valid. *)
ProcessFrame(cmd, now) ==
  IF Validate(cmd) = "None" THEN ProcessCommand(cmd, now)
  ELSE /\ Called(cmd, now)
       /\ Answer(cmd, Reject(NextSeq, Dummy, Validate(cmd)))
       /\ UNCHANGED journal

(* process_frame with bytes that are no frame. *)
ProcessBytes(now) ==
  /\ exchange.next_seq <= MaxSeq
  /\ now >= clock
  /\ clock' = now
  /\ Answer(Dummy, Reject(NextSeq, Dummy, "Malformed"))
  /\ UNCHANGED journal

Next ==
  \/ \E cmd \in Commands, now \in Times :
        ProcessFrame(cmd, now) \/ ProcessCommand(cmd, now)
  \/ \E now \in Times : ProcessBytes(now)

Spec == Init /\ [][Next]_vars

-----------------------------------------------------------------------------
books == exchange.manager.books

BookOf(id) == exchange.manager.order_to_symbol[id]

(* The orders that rest, each with the symbol of its book. *)
LiveOrders ==
  UNION {{[symbol |-> s, order |-> OrderOf(books[s], id)] : id \in LiveIds(books[s])} :
         s \in Symbols}

PublishedEvents ==
  [type : {"Add", "Cancel", "Execute", "Reject"}, symbol_id : Nat,
   order_id : OrderIds \cup {kInvalidOrderId},
   account_id : Accounts \cup {kNoAccount}, side : Sides, price : Int, qty : Nat,
   reason : RejectReasons]

(***************************************************************************)
(* Every part of the exchange keeps its type, and the sequence numbers of  *)
(* the last call's events end where the next call's will begin.            *)
(***************************************************************************)
TypeOK ==
  /\ exchange.next_seq \in 1 .. MaxSeq + 1
  /\ exchange.next_md_seq \in Nat \ {0}
  /\ exchange.manager.order_to_symbol \in [OrderIds -> Symbols \cup {kNoSymbol}]
  /\ books \in [Symbols -> QueueBooks]
  /\ \A a \in Accounts :
       /\ exchange.accounts[a].open_orders \in Nat
       /\ exchange.accounts[a].open_notional \in Nat
       /\ Len(exchange.accounts[a].recent_msgs) <= max_msgs_per_window
  /\ last.reason \in RejectReasons
  /\ \A k \in DOMAIN last.md :
       /\ last.md[k].ev \in PublishedEvents
       /\ last.md[k].seq = exchange.next_md_seq - Len(last.md) + k - 1

(***************************************************************************)
(* order_to_symbol_ has exactly the resting orders, each with the book it  *)
(* rests in: an order can be cancelled and replaced for as long as it      *)
(* rests (order_symbol, contains_order), if clients keep to Obeys.         *)
(***************************************************************************)
IndexAgrees ==
  \A id \in OrderIds, s \in Symbols : BookOf(id) = s <=> id \in LiveIds(books[s])

(***************************************************************************)
(* Whatever clients send, an id in order_to_symbol_ rests in the book it   *)
(* is said to: cancel_order and replace_order never look in a wrong book.  *)
(***************************************************************************)
IndexNeverDangles ==
  \A id \in OrderIds : BookOf(id) # kNoSymbol => id \in LiveIds(books[BookOf(id)])

(***************************************************************************)
(* What the risk engine holds against an account, built from events alone, *)
(* is what the account has in the books: its resting orders and their      *)
(* value, through partial fills, replacements and trades of several orders *)
(* by one command (on_market_data).                                        *)
(***************************************************************************)
RiskTracksBooks ==
  \A a \in Accounts :
    LET mine == {l \in LiveOrders : l.order.account_id = a}
    IN  /\ exchange.accounts[a].open_orders = Cardinality(mine)
        /\ exchange.accounts[a].open_notional =
             MapThenSumSet(LAMBDA l : Value(l.order.price, l.order.qty), mine)

(***************************************************************************)
(* No order rests that is over the limits of one order, though the product *)
(* the risk engine compares may wrap: the ladder, checked afterwards and   *)
(* by another component, refuses the prices at which it does.              *)
(***************************************************************************)
OrderLimitsHold ==
  \A l \in LiveOrders : /\ l.order.qty <= max_order_qty
                        /\ Value(l.order.price, l.order.qty) <= max_order_notional

(***************************************************************************)
(* An account at its limit of open orders gets one more only by replacing  *)
(* an order of another account (risk.cpp:43 lets every Replace through).   *)
(***************************************************************************)
OpenOrdersCapped ==
  [][\A a \in Accounts :
       /\ exchange.accounts[a].open_orders >= max_open_orders_per_account
       /\ exchange'.accounts[a].open_orders > exchange.accounts[a].open_orders
       => /\ last'.cmd.type = "Replace"
          /\ \E l \in LiveOrders : /\ l.order.order_id = last'.cmd.cancel_order_id
                                   /\ l.order.account_id # a]_vars

(* What a refused cmd may make of manager m. *)
RefusedLeaves(m, n, cmd) ==
  /\ \A s \in Symbols : n.books[s] # m.books[s] =>
       /\ cmd.type = "Replace" /\ PriceInBand(cmd.price)
       /\ s = m.order_to_symbol[cmd.cancel_order_id]
       /\ n.books[s] = Without(m.books[s], cmd.cancel_order_id)
       /\ cmd.qty = 0 \/ cmd.order_id \in LiveIds(n.books[s])
  /\ \A id \in OrderIds : n.order_to_symbol[id] # m.order_to_symbol[id] =>
       \/ /\ n.order_to_symbol[id] = kNoSymbol
          /\ cmd.type = "Replace" /\ id = cmd.cancel_order_id
       \/ id = cmd.order_id

(***************************************************************************)
(* Whatever clients send, a refused command takes at most one order out of *)
(* the books: that of a Replace inside the ladder whose new order has no   *)
(* quantity or the id of an order of that book (order_book.cpp:298 cancels *)
(* first).  Nothing trades, no other order moves; only the two ids of the  *)
(* command change in the index; and neither the risk engine nor the feed   *)
(* is told: the account goes on being charged, and a Reject is published.  *)
(***************************************************************************)
RefusalsTakeOneOrder ==
  [][~ last'.accepted =>
       /\ RefusedLeaves(exchange.manager, exchange'.manager, last'.cmd)
       /\ \A a \in Accounts :
            /\ exchange'.accounts[a].open_orders = exchange.accounts[a].open_orders
            /\ exchange'.accounts[a].open_notional = exchange.accounts[a].open_notional
       /\ \A k \in DOMAIN last'.md : last'.md[k].ev.type = "Reject"]_vars

(***************************************************************************)
(* A replay that ends rebuilds the books, the index and the risk engine of *)
(* the exchange that wrote the journal, whatever frames were refused in    *)
(* between; and if none was, it publishes the same events under the same   *)
(* sequence numbers (replay_journal).                                      *)
(***************************************************************************)
ReplayRebuilds ==
  LET r == Replayed(journal)
  IN  ~ r.thrown =>
        /\ r.exchange.manager = exchange.manager
        /\ r.exchange.accounts = exchange.accounts
        /\ Len(journal) = exchange.next_seq - 1 => r.md = md_checksum

(***************************************************************************)
(* The same of any run: what a replay hashes is what the exchange hashed   *)
(* (tests/exsim_tests.cpp:115 requires it of a run without bad frames).    *)
(***************************************************************************)
ReplayRepublishes == Replayed(journal).md = md_checksum

(* Message k of the journal was over the limit of its account. *)
OverLimit ==
  LET limited[k \in DOMAIN journal] ==
        LET counted == {j \in 1 .. k - 1 :
                          /\ journal[j].cmd.account_id = journal[k].cmd.account_id
                          /\ journal[k].recv_ts_ns - journal[j].recv_ts_ns <= rate_window_ns
                          /\ ~ limited[j]}
        IN  Cardinality(counted) >= max_msgs_per_window
  IN  limited

(***************************************************************************)
(* The queue of recent_msgs is a sliding window: a message is refused      *)
(* exactly when max_msgs_per_window messages of its account were let       *)
(* through in the rate_window_ns before it, as the journal tells.          *)
(***************************************************************************)
RateLimitExact ==
  [][journal' # journal =>
       (last'.reason = "RiskRateLimit" <=> OverLimit'[Len(journal')])]_vars
=============================================================================
