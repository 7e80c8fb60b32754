-------------------------- MODULE MCExchangeRecovery --------------------------
(***************************************************************************)
(* ExchangeRecovery for TLC.                                               *)
(***************************************************************************)
EXTENDS ExchangeRecovery

(* A bid and its cancellation, which the risk engine refuses if it comes first. *)
DayCommands ==
  LET order == [type |-> "New", order_id |-> 1, cancel_order_id |-> 0, account_id |-> 1,
                symbol_id |-> 1, side |-> "Buy", price |-> 1, qty |-> 2, tif |-> "Gtc"]
  IN  {order, [order EXCEPT !.type = "Cancel", !.order_id = 0, !.cancel_order_id = 1]}

SequencedCommands == [seq : 1 .. MaxSeq, recv_ts_ns : Times, cmd : Commands]
=============================================================================
