----------------------------- MODULE MCExchange -----------------------------
(***************************************************************************)
(* Exchange for TLC: the sets of commands.  Cancels and replacements name  *)
(* their target alone where the rest of a command is not looked at.        *)
(***************************************************************************)
EXTENDS Exchange, TLC

New(ids, accts, syms, prices, qtys, tifs) ==
  [type : {"New"}, order_id : ids, cancel_order_id : {kInvalidOrderId},
   account_id : accts, symbol_id : syms, side : Sides, price : prices,
   qty : qtys, tif : tifs]

Cancel(ids, accts) ==
  [type : {"Cancel"}, order_id : {kInvalidOrderId}, cancel_order_id : ids,
   account_id : accts, symbol_id : {1}, side : {"Buy"}, price : {1},
   qty : {0}, tif : {"Gtc"}]

Replace(ids, olds, accts, syms, sides, prices, qtys) ==
  [type : {"Replace"}, order_id : ids, cancel_order_id : olds,
   account_id : accts, symbol_id : syms, side : sides, price : prices,
   qty : qtys, tif : {"Gtc"}]

(* Nothing in the exchange tells one order id from another. *)
IdSymmetry == Permutations(OrderIds)

(* Orders of two accounts on one book that trade, leave and are replaced. *)
TradingCommands ==
  New(OrderIds, Accounts, {1}, Prices, Quantities, {"Gtc"})
    \cup Cancel(OrderIds, {1})
    \cup Replace(OrderIds, OrderIds, {1}, {2}, {"Buy"}, Prices, Quantities)

(* Ids used again in the other book, replacements that fail half way, a     *)
(* symbol no book has, a command no frame carries.                          *)
CarelessCommands ==
  [type : {"New"}, order_id : {1}, cancel_order_id : {0}, account_id : {1},
   symbol_id : {1, 2, 3}, side : {"Buy"}, price : {1}, qty : {1}, tif : {"Gtc"}]
    \cup New({2}, {1}, {1}, {1}, {2}, {"Gtc"})
    \cup Cancel({1}, {1})
    \cup Replace({2}, {1}, {1}, {1}, {"Buy"}, {1, 2}, {0, 1})
=============================================================================
