------------------------- MODULE OrderBookRefinement -------------------------
(***************************************************************************)
(* The lists of OrderBook read as queues, and the book seen as an          *)
(* implementation of PriceTimeBook.                                        *)
(***************************************************************************)
EXTENDS OrderBook, FiniteSetsExt

(* The slots of a level, from its head along next. *)
Walk(b, s, l) ==
  LET lv == b.levels[s][l]
      at[k \in 1 .. lv.count] ==
        IF k = 1 THEN lv.head ELSE b.nodes[at[k - 1]].next
  IN  at

QueueOf(b, s, l) ==
  LET at == Walk(b, s, l)
  IN  [k \in DOMAIN at |->
         LET n == b.nodes[at[k]]
         IN  [order_id |-> n.order_id, account_id |-> n.account_id,
              qty |-> n.qty]]

QueuesOf(b) ==
  [s \in Sides |-> [p \in Band |-> QueueOf(b, s, PriceToIndex(p))]]

Abstract == INSTANCE PriceTimeBook WITH queues <- QueuesOf(book)

(***************************************************************************)
(* Matching, cancelling and replacing through the pool, the lists, the     *)
(* bitmap and the cached best levels is price-time priority: every call    *)
(* of the book is a step of PriceTimeBook with the same events.            *)
(***************************************************************************)
ImplementsPriceTime == Abstract!Spec

Calls == INSTANCE BookCalls

(* What an add_order in progress will leave and emit from now on. *)
OutcomeFor(b, o) ==
  IF o = NoTaker THEN Calls!MatchOutput(QueuesOf(b), <<>>, "None")
  ELSE Calls!Admitted(QueuesOf(b), o)

(***************************************************************************)
(* No iteration of the loop changes the outcome of its call: the books the *)
(* call ends with and the events it emits are those BookCalls computes at  *)
(* once from the book and the order it began with, which is what lets      *)
(* BookManager and Exchange take a call as one step.                       *)
(***************************************************************************)
LoopKeepsOutcome ==
  [][taker # NoTaker =>
       LET before == OutcomeFor(book, taker)
           after == OutcomeFor(book', taker')
       IN  /\ after.queues = before.queues
           /\ out'.md \o after.md = before.md]_vars

(***************************************************************************)
(* As long as the quantities of a level fit in Qty, total_qty is their sum *)
(* and following next from head passes every order of the level once and   *)
(* ends at tail: what checksum() hashes is the level.                      *)
(***************************************************************************)
LevelTotalsExact ==
  \A s \in Sides, l \in Levels :
    LET at == Walk(book, s, l)
        list == Members(book, s, l)
        sum == MapThenSumSet(LAMBDA h : book.nodes[h].qty, list)
    IN  /\ {at[k] : k \in DOMAIN at} = list
        /\ list # {} => at[Cardinality(list)] = book.levels[s][l].tail
        /\ sum < QtyModulus => book.levels[s][l].total_qty = sum
=============================================================================
