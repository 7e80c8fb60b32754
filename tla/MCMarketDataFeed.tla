-------------------------- MODULE MCMarketDataFeed --------------------------
(***************************************************************************)
(* MarketDataFeed for TLC.                                                 *)
(***************************************************************************)
EXTENDS MarketDataFeed

(* A bid, an ask that takes half of it, a cancel, and a replacement that     *)
(* names another symbol than the one it will go to.                          *)
QuotingCommands ==
  LET bid == [type |-> "New", order_id |-> 1, cancel_order_id |-> kInvalidOrderId,
              account_id |-> 1, symbol_id |-> 1, side |-> "Buy", price |-> 1,
              qty |-> 2, tif |-> "Gtc"]
      ask == [bid EXCEPT !.order_id = 2, !.side = "Sell", !.qty = 1]
  IN  {bid, ask, [bid EXCEPT !.order_id = 2], [ask EXCEPT !.order_id = 1],
       [ask EXCEPT !.type = "Replace", !.cancel_order_id = 1, !.symbol_id = 2],
       [bid EXCEPT !.type = "Cancel", !.order_id = kInvalidOrderId, !.cancel_order_id = 1,
                   !.qty = 0]}

(* Enough to replace an order by one whose id is taken. *)
CollidingCommands ==
  [type : {"New", "Replace"}, order_id : OrderIds, cancel_order_id : OrderIds,
   account_id : Accounts, symbol_id : {1}, side : {"Buy"}, price : Prices,
   qty : {1}, tif : {"Gtc"}]
=============================================================================
