----------------------------- MODULE RiskEngine -----------------------------
(***************************************************************************)
(* core::RiskEngine: what an account has open and when its last messages   *)
(* came, checked before a command reaches the books and updated from the   *)
(* events it caused (src/risk.cpp).                                        *)
(***************************************************************************)
EXTENDS Integers, Sequences

CONSTANTS       \* RiskLimits
  max_order_qty,
  max_order_notional,
  max_open_orders_per_account,
  max_msgs_per_window,
  rate_window_ns,
  NotionalModulus   \* 2^64, the range of a notional, small enough to be reached

ASSUME LimitAssumption ==
  /\ max_order_qty \in Nat
  /\ max_order_notional \in Nat
  /\ max_open_orders_per_account \in Nat
  /\ max_msgs_per_window \in Nat
  /\ rate_window_ns \in Nat
  /\ NotionalModulus \in Nat \ {0}

NewAccount == [open_orders |-> 0, open_notional |-> 0, recent_msgs |-> <<>>]

Value(price, qty) == (IF price < 0 THEN - price ELSE price) * qty

(* The product as the program has it. *)
Notional(price, qty) == Value(price, qty) % NotionalModulus

(* Mutant: a message just as old as the window is dropped. *)
StillRecentStrictly(msgs, now) ==
  LET kept == {k \in DOMAIN msgs : now - msgs[k] < rate_window_ns}
  IN  IF kept = {} THEN <<>>
      ELSE SubSeq(msgs, CHOOSE k \in kept : \A j \in kept : k <= j, Len(msgs))

(* The messages left once the loop has dropped the old ones at the front. *)
StillRecent(msgs, now) ==
  LET recent(t) == now < t \/ now - t <= rate_window_ns
      kept == {k \in DOMAIN msgs : recent(msgs[k])}
  IN  IF kept = {} THEN <<>>
      ELSE SubSeq(msgs, CHOOSE k \in kept : \A j \in kept : k <= j, Len(msgs))

(* Mutant: an account may have one order more than its limit. *)
OrderRefusalPastLimit(a, cmd, known) ==
  CASE cmd.type \in {"Cancel", "Replace"} /\ ~ known -> "UnknownOrder"
    [] cmd.type = "Cancel" /\ known -> "None"
    [] OTHER ->
         IF cmd.qty > max_order_qty THEN "RiskMaxQty"
         ELSE IF Notional(cmd.price, cmd.qty) > max_order_notional THEN "RiskMaxNotional"
         ELSE IF cmd.type = "New" /\ a.open_orders > max_open_orders_per_account
              THEN "RiskOpenOrders"
         ELSE "None"

(* Mutant: the value of an order is not looked at. *)
OrderRefusalAnyNotional(a, cmd, known) ==
  CASE cmd.type \in {"Cancel", "Replace"} /\ ~ known -> "UnknownOrder"
    [] cmd.type = "Cancel" /\ known -> "None"
    [] OTHER ->
         IF cmd.qty > max_order_qty THEN "RiskMaxQty"
         ELSE IF cmd.type = "New" /\ a.open_orders >= max_open_orders_per_account
              THEN "RiskOpenOrders"
         ELSE "None"

(* The checks after the rate limit; known: contains_order(cancel_order_id). *)
OrderRefusal(a, cmd, known) ==
  CASE cmd.type \in {"Cancel", "Replace"} /\ ~ known -> "UnknownOrder"
    [] cmd.type = "Cancel" /\ known -> "None"
    [] OTHER ->
         IF cmd.qty > max_order_qty THEN "RiskMaxQty"
         ELSE IF Notional(cmd.price, cmd.qty) > max_order_notional THEN "RiskMaxNotional"
         ELSE IF cmd.type = "New" /\ a.open_orders >= max_open_orders_per_account
              THEN "RiskOpenOrders"
         ELSE "None"

(* Mutant: a message over the rate limit counts as recent too. *)
CheckCountingRefused(accounts, cmd, known, now) ==
  LET a == accounts[cmd.account_id]
      recent == StillRecent(a.recent_msgs, now)
  IN  [accounts |-> [accounts EXCEPT ![cmd.account_id].recent_msgs = Append(recent, now)],
       reason |-> IF Len(recent) >= max_msgs_per_window THEN "RiskRateLimit"
                  ELSE OrderRefusal(a, cmd, known)]

(* A message over the rate limit does not count as recent, any other does. *)
Check(accounts, cmd, known, now) ==
  LET a == accounts[cmd.account_id]
      recent == StillRecent(a.recent_msgs, now)
      limited == Len(recent) >= max_msgs_per_window
  IN  [accounts |->
         [accounts EXCEPT ![cmd.account_id].recent_msgs =
            IF limited THEN recent ELSE Append(recent, now)],
       reason |-> IF limited THEN "RiskRateLimit" ELSE OrderRefusal(a, cmd, known)]

AtLeast0(n) == IF n > 0 THEN n ELSE 0

(* Mutant: every fill, partial ones too, closes an order. *)
OnMarketDataAnyFill(accounts, ev, live) ==
  LET n == Notional(ev.price, ev.qty)
      left(k) == IF ev.type = "Add" THEN k + 1 ELSE AtLeast0(k - 1)
  IN  [accounts EXCEPT ![ev.account_id] =
         [@ EXCEPT !.open_orders = left(@),
                   !.open_notional = IF ev.type = "Add" THEN @ + n ELSE AtLeast0(@ - n)]]

(* live: the order of the event is in the index after the whole command. *)
OnMarketData(accounts, ev, live) ==
  LET n == Notional(ev.price, ev.qty)
      a == accounts[ev.account_id]
      left == CASE ev.type = "Add" -> a.open_orders + 1
                [] ev.type = "Cancel" \/ (ev.type = "Execute" /\ ~ live) ->
                     AtLeast0(a.open_orders - 1)
                [] OTHER -> a.open_orders
  IN  [accounts EXCEPT ![ev.account_id] =
         [a EXCEPT !.open_orders = left,
                   !.open_notional = IF ev.type = "Add"
                                     THEN (a.open_notional + n) % NotionalModulus
                                     ELSE AtLeast0(a.open_notional - n)]]
=============================================================================
