--------------------------- MODULE MCBenchWorkload ---------------------------
(***************************************************************************)
(* BenchWorkload for TLC.                                                  *)
(***************************************************************************)
EXTENDS BenchWorkload

(* New orders on the ladder and off it; cancels say so little of their order *)
(* that account, symbol and side are those of a default.                     *)
GeneratedCommands ==
  {c \in [type : {"New"}, order_id : OrderIds, cancel_order_id : {kInvalidOrderId},
          account_id : {1}, symbol_id : Symbols, side : Sides, price : Prices,
          qty : Quantities \ {0}, tif : {"Gtc"}] :
     PriceInBand(c.price) \/ (c.side = "Buy" /\ c.qty = 1)}
    \cup
  [type : {"Cancel"}, order_id : {kInvalidOrderId}, cancel_order_id : OrderIds,
   account_id : {2}, symbol_id : {1}, side : {"Buy"}, price : {MinPrice},
   qty : {0}, tif : {"Gtc"}]
=============================================================================
