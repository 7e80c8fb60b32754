----------------------------- MODULE ExsimTypes -----------------------------
(***************************************************************************)
(* The vocabulary every module of the exchange shares: identifiers, sides, *)
(* prices and the price ladder (include/exsim/types.hpp and                *)
(* PriceLadderConfig).  Only what some module tells apart is kept.         *)
(***************************************************************************)
EXTENDS Integers

CONSTANTS
  OrderIds,      \* ids a client may give an order
  kInvalidOrderId, \* the id of an empty record, which no order has
  Accounts,      \* account ids; 0 is the default of an empty record
  Prices,        \* prices a command may carry, in or out of the ladder
  Quantities,    \* quantities a command may carry, 0 included if wanted
  TimesInForce,  \* "Gtc", "Ioc" or both
  MinPrice,      \* the ladder: PriceLadderConfig::min_price ...
  MaxPrice       \* ... and max_price

kNoAccount == 0

(***************************************************************************)
(* The OrderBook constructor throws on any other ladder                    *)
(* (src/order_book.cpp:16).                                                *)
(***************************************************************************)
ASSUME LadderAssumption ==
  /\ MinPrice \in Nat \ {0}
  /\ MaxPrice \in Nat
  /\ MinPrice <= MaxPrice

ASSUME InputAssumption ==
  /\ kInvalidOrderId \notin OrderIds
  /\ Accounts \subseteq Nat \ {kNoAccount}
  /\ Prices \subseteq Int
  /\ Quantities \subseteq Nat
  /\ TimesInForce \subseteq {"Gtc", "Ioc"}

Sides == {"Buy", "Sell"}

Opposite(side) == IF side = "Buy" THEN "Sell" ELSE "Buy"

BookRejects ==
  {"None", "UnknownOrder", "DuplicateOrder", "InvalidQty", "InvalidPrice"}

Band == MinPrice .. MaxPrice

PriceInBand(price) == price \in Band

(***************************************************************************)
(* What add_order is called with.                                          *)
(***************************************************************************)
Orders ==
  [order_id : OrderIds, account_id : Accounts, side : Sides,
   price : Prices, qty : Quantities, tif : TimesInForce]

(***************************************************************************)
(* A market data event, without its sequence number.                       *)
(***************************************************************************)
MdEvents ==
  [type : {"Add", "Cancel", "Execute"}, order_id : OrderIds,
   account_id : Accounts \cup {kNoAccount}, side : Sides, price : Band, qty : Nat]

MinOf(a, b) == IF a < b THEN a ELSE b
=============================================================================
