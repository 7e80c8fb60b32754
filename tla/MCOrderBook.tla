---------------------------- MODULE MCOrderBook ----------------------------
(***************************************************************************)
(* OrderBook for TLC, with the copy a subscriber has of it.                *)
(***************************************************************************)
EXTENDS OrderBookRefinement, BookMirror, TLC

(* Nothing in the book tells one order id from another. *)
IdSymmetry == Permutations(OrderIds)
=============================================================================
