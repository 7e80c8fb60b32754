---------------------------- MODULE MCReplayCheck ----------------------------
(***************************************************************************)
(* ReplayCheck for TLC.                                                    *)
(***************************************************************************)
EXTENDS ReplayCheck

(* Ids used again in the other book, replacements that fail half way, a     *)
(* symbol no book has, a command no frame carries, prices and sizes the     *)
(* exchange and the tool take differently, two at the price 2 of which the  *)
(* value wraps.                                                             *)
CarelessCommands ==
  LET order == [type |-> "New", order_id |-> 1, cancel_order_id |-> 0, account_id |-> 1,
                symbol_id |-> 1, side |-> "Buy", price |-> 1, qty |-> 1, tif |-> "Gtc"]
      second == [order EXCEPT !.order_id = 2]
      replacement == [second EXCEPT !.type = "Replace", !.cancel_order_id = 1]
  IN  {[order EXCEPT !.symbol_id = s] : s \in {1, 2, 3}}
        \cup {[second EXCEPT !.qty = 3], [second EXCEPT !.side = "Sell", !.qty = 2],
              [order EXCEPT !.type = "Cancel", !.order_id = 0, !.cancel_order_id = 1,
                            !.qty = 0]}
        \cup {replacement, [replacement EXCEPT !.qty = 0],
              [replacement EXCEPT !.price = 2, !.qty = 2]}
=============================================================================
