----------------------------- MODULE BookManager -----------------------------
(***************************************************************************)
(* core::BookManager: one book per symbol and order_to_symbol_, the index  *)
(* that finds the book of an order (src/order_book.cpp).  A manager is a   *)
(* value [books, order_to_symbol]; the methods are operators from a        *)
(* manager to [manager, md, reject].                                       *)
(***************************************************************************)
EXTENDS BookCalls

CONSTANT Symbols    \* 1 .. max_symbol_

ASSUME SymbolAssumption == Symbols \subseteq Nat \ {0}

kNoSymbol == 0      \* order_symbol of an order the index does not have

EmptyManager ==
  [books |-> [s \in Symbols |-> EmptyQueues],
   order_to_symbol |-> [id \in OrderIds |-> kNoSymbol]]

ContainsOrder(m, id) == id \in OrderIds /\ m.order_to_symbol[id] # kNoSymbol

OrderFrom(cmd) ==
  [order_id |-> cmd.order_id, account_id |-> cmd.account_id, side |-> cmd.side,
   price |-> cmd.price, qty |-> cmd.qty, tif |-> cmd.tif]

(* The events of book s, with the symbol a book stamps on them. *)
Stamped(s, md) ==
  [k \in DOMAIN md |->
     [type |-> md[k].type, symbol_id |-> s, order_id |-> md[k].order_id,
      account_id |-> md[k].account_id, side |-> md[k].side,
      price |-> md[k].price, qty |-> md[k].qty, reason |-> "None"]]

Outcome(m, md, reason) == [manager |-> m, md |-> md, reject |-> reason]

(* Mutant: an order filled by another stays in the index. *)
GoneCancelled(q, md) ==
  {md[k].order_id : k \in {j \in DOMAIN md : md[j].type = "Cancel"}} \ LiveIds(q)

(* The ids md reports executed or cancelled that are no longer in q. *)
Gone(q, md) ==
  {md[k].order_id : k \in {j \in DOMAIN md : md[j].type \in {"Execute", "Cancel"}}}
    \ LiveIds(q)

(* remove_index for every id in ids, then refresh_index_after_add for added. *)
Reindexed(index, ids, q, s, added) ==
  [id \in OrderIds |->
     CASE id = added /\ id \in LiveIds(q) -> s
       [] ~ (id = added /\ id \in LiveIds(q)) /\ id \in ids -> kNoSymbol
       [] OTHER -> index[id]]

(* book(): the call throws for any other symbol. *)
HasBook(cmd) == cmd.symbol_id \in Symbols

(* Book s answered call: erased and the ids gone leave the index, added may enter. *)
Booked(m, s, call, erased, added) ==
  Outcome([books |-> [m.books EXCEPT ![s] = call.queues],
           order_to_symbol |->
             Reindexed(m.order_to_symbol, erased \cup Gone(call.queues, call.md),
                       call.queues, s, added)],
          Stamped(s, call.md), call.reject)

AddOrder(m, cmd) ==
  LET s == cmd.symbol_id
  IN  Booked(m, s, AddCall(m.books[s], OrderFrom(cmd)), {}, cmd.order_id)

CancelFrom(m, s, id, call) ==
  IF call.reject # "None" THEN Outcome(m, <<>>, call.reject)
  ELSE Outcome([books |-> [m.books EXCEPT ![s] = call.queues],
                order_to_symbol |-> [m.order_to_symbol EXCEPT ![id] = kNoSymbol]],
               Stamped(s, call.md), "None")

CancelOrder(m, id) ==
  LET s == m.order_to_symbol[id]
  IN  IF s = kNoSymbol THEN Outcome(m, <<>>, "UnknownOrder")
      ELSE CancelFrom(m, s, id, CancelCall(m.books[s], id))

(***************************************************************************)
(* The new order goes to the book of the old one, whatever symbol the      *)
(* command names; the old id leaves the index whatever the book answers.   *)
(***************************************************************************)
ReplaceOrder(m, cmd) ==
  LET old == cmd.cancel_order_id
      s == m.order_to_symbol[old]
  IN  IF s = kNoSymbol THEN Outcome(m, <<>>, "UnknownOrder")
      ELSE Booked(m, s, ReplaceCall(m.books[s], old, OrderFrom(cmd)), {old}, cmd.order_id)

(* The subscriber's calls; ok is what they return. *)
FeedBooked(m, s, call, id) ==
  [ok |-> call.ok,
   manager |-> IF ~ call.ok THEN m
               ELSE [books |-> [m.books EXCEPT ![s] = call.queues],
                     order_to_symbol |->
                       [m.order_to_symbol EXCEPT ![id] =
                          IF id \in LiveIds(call.queues) THEN s ELSE kNoSymbol]]]

FeedAdd(m, ev) ==
  LET s == ev.symbol_id
  IN  IF s \notin Symbols THEN [ok |-> FALSE, manager |-> m]
      ELSE FeedBooked(m, s, FeedAddCall(m.books[s], ev), ev.order_id)

FeedExecute(m, ev) ==
  LET s == m.order_to_symbol[ev.order_id]
  IN  IF s = kNoSymbol THEN [ok |-> FALSE, manager |-> m]
      ELSE FeedBooked(m, s, FeedExecuteCall(m.books[s], ev.order_id, ev.qty), ev.order_id)
=============================================================================
