------------------------------ MODULE OrderBook ------------------------------
(***************************************************************************)
(* core::OrderBook, one symbol's book as it is laid out in memory          *)
(* (include/exsim/core/order_book.hpp, src/order_book.cpp): a pool of      *)
(* nodes with a stack of freed slots, an index from order id to slot, one  *)
(* intrusive doubly linked list per side and price level, a bitmap of the  *)
(* occupied levels of each side and the cached best level.                 *)
(*                                                                         *)
(* The private methods are operators from a book to a book, so that they   *)
(* compose the way the calls do; the public methods are actions.  The      *)
(* while loop of add_order is one Match step per iteration, with the       *)
(* aggressing order in `taker' until the call returns: the steps below     *)
(* cannot interleave with another call because every call waits for        *)
(* taker = NoTaker.                                                        *)
(***************************************************************************)
EXTENDS ExsimTypes, Sequences, FiniteSets

CONSTANT QtyModulus    \* 2^32 in the code: the width of Qty

ASSUME QtyAssumption ==
  /\ QtyModulus \in Nat \ {0}
  /\ \A q \in Quantities : q < QtyModulus

VARIABLES
  book,     \* the object's fields, see Books
  taker,    \* the order add_order is matching, NoTaker between calls
  out       \* what the last call or loop iteration emitted

vars == <<book, taker, out>>

-----------------------------------------------------------------------------
(* The object.  A slot of nodes_ is named by its position in the sequence, *)
(* from 1, so that 0 can stand for the kNull of the code.                  *)

kNull == 0
NoLevel == -1     \* std::nullopt in best_bid_idx_ and best_ask_idx_

Qty == 0 .. (QtyModulus - 1)
Levels == 0 .. (MaxPrice - MinPrice)

EmptyNode ==
  [order_id |-> kInvalidOrderId, account_id |-> kNoAccount, side |-> "Buy",
   price |-> 0, qty |-> 0, level_idx |-> 0, prev |-> kNull, next |-> kNull,
   active |-> FALSE]

EmptyLevel == [head |-> kNull, tail |-> kNull, total_qty |-> 0, count |-> 0]

EmptyBook ==
  [nodes |-> <<>>,
   free |-> <<>>,
   index |-> [id \in OrderIds |-> kNull],
   levels |-> [s \in Sides |-> [l \in Levels |-> EmptyLevel]],
   occupied |-> [s \in Sides |-> {}],
   best |-> [s \in Sides |-> NoLevel],
   level_count |-> [s \in Sides |-> 0]]

PriceToIndex(price) == price - MinPrice
IndexToPrice(idx) == MinPrice + idx

Contains(b, id) == b.index[id] # kNull

-----------------------------------------------------------------------------
(* Bitmap and best level. *)

FindLowest(bits) ==
  IF bits = {} THEN NoLevel ELSE CHOOSE i \in bits : \A j \in bits : i <= j

FindHighest(bits) ==
  IF bits = {} THEN NoLevel ELSE CHOOSE i \in bits : \A j \in bits : i >= j

Better(side, i, j) == IF side = "Buy" THEN i > j ELSE i < j

SetOccupied(b, side, idx) ==
  [b EXCEPT !.occupied[side] = @ \cup {idx},
            !.best[side] =
              IF @ = NoLevel \/ Better(side, idx, @) THEN idx ELSE @]

RecomputeBestAfterClear(best, side, idx, bits) ==
  IF best # idx THEN best
  ELSE IF side = "Buy" THEN FindHighest(bits) ELSE FindLowest(bits)

ClearOccupied(b, side, idx) ==
  LET bits == b.occupied[side] \ {idx}
  IN  [b EXCEPT !.occupied[side] = bits,
                !.best[side] = RecomputeBestAfterClear(@, side, idx, bits)]

-----------------------------------------------------------------------------
(* The node pool. *)

NextHandle(b) ==
  IF b.free # <<>> THEN b.free[Len(b.free)] ELSE Len(b.nodes) + 1

NewNode(o) ==
  [order_id |-> o.order_id, account_id |-> o.account_id, side |-> o.side,
   price |-> o.price, qty |-> o.qty, level_idx |-> PriceToIndex(o.price),
   prev |-> kNull, next |-> kNull, active |-> TRUE]

AllocNode(b, o) ==
  LET i == NextHandle(b)
  IN  [b EXCEPT
         !.nodes = IF b.free # <<>> THEN [@ EXCEPT ![i] = NewNode(o)]
                                    ELSE Append(@, NewNode(o)),
         !.free = IF @ # <<>> THEN SubSeq(@, 1, Len(@) - 1) ELSE @,
         !.index[o.order_id] = i]

(* Mutation: the id stays in index_. *)
FreeNodeKeepsIndex(b, i) ==
  [b EXCEPT !.nodes[i] = EmptyNode, !.free = Append(@, i)]

FreeNode(b, i) ==
  [b EXCEPT !.index[b.nodes[i].order_id] = kNull,
            !.nodes[i] = EmptyNode,
            !.free = Append(@, i)]

-----------------------------------------------------------------------------
(* The level lists. *)

LinkLast(nodes, i, tail) ==
  [h \in DOMAIN nodes |->
     [nodes[h] EXCEPT !.prev = IF h = i THEN tail ELSE @,
                      !.next = IF h = i THEN kNull ELSE IF h = tail THEN i ELSE @]]

Unlink(nodes, prev, next) ==
  [h \in DOMAIN nodes |->
     [nodes[h] EXCEPT !.next = IF h = prev THEN next ELSE @,
                      !.prev = IF h = next THEN prev ELSE @]]

LevelWith(lv, i, qty) ==
  [head |-> IF lv.tail = kNull THEN i ELSE lv.head,
   tail |-> i,
   total_qty |-> (lv.total_qty + qty) % QtyModulus,
   count |-> lv.count + 1]

LevelWithout(lv, prev, next, removed_qty) ==
  IF lv.count <= 1 THEN EmptyLevel
  ELSE [head |-> IF prev = kNull THEN next ELSE lv.head,
        tail |-> IF next = kNull THEN prev ELSE lv.tail,
        total_qty |-> lv.total_qty - MinOf(lv.total_qty, removed_qty),
        count |-> lv.count - 1]

AppendToLevel(b, i) ==
  LET n == b.nodes[i]
      lv == b.levels[n.side][n.level_idx]
      linked == [b EXCEPT !.nodes = LinkLast(@, i, lv.tail),
                          !.levels[n.side][n.level_idx] = LevelWith(lv, i, n.qty)]
  IN  IF lv.count = 0
      THEN SetOccupied([linked EXCEPT !.level_count[n.side] = @ + 1], n.side, n.level_idx)
      ELSE linked

RemoveNode(b, i, removed_qty) ==
  LET n == b.nodes[i]
      lv == b.levels[n.side][n.level_idx]
      unlinked == [b EXCEPT !.nodes = Unlink(@, n.prev, n.next),
                            !.levels[n.side][n.level_idx] =
                               LevelWithout(@, n.prev, n.next, removed_qty)]
  IN  IF lv.count <= 1
      THEN FreeNode(ClearOccupied([unlinked EXCEPT !.level_count[n.side] = @ - 1],
                                  n.side, n.level_idx), i)
      ELSE FreeNode(unlinked, i)

RestOrder(b, o) == AppendToLevel(AllocNode(b, o), NextHandle(b))

(* Mutation: an order at the touch does not trade. *)
CrossesStrictly(b, side, price) ==
  LET best == b.best[Opposite(side)]
  IN  /\ best # NoLevel
      /\ IF side = "Buy" THEN price > IndexToPrice(best)
                         ELSE price < IndexToPrice(best)

Crosses(b, side, price) ==
  LET best == b.best[Opposite(side)]
  IN  /\ best # NoLevel
      /\ IF side = "Buy" THEN price >= IndexToPrice(best)
                         ELSE price <= IndexToPrice(best)

(* Mutation: the last to arrive trades first. *)
LastInLine(b, side) == b.levels[side][b.best[side]].tail

(***************************************************************************)
(* One iteration of the loop: the head of the best opposite level trades   *)
(* with an aggressor that still wants qty.                                 *)
(***************************************************************************)
BestHead(b, side) == b.levels[side][b.best[side]].head

(* Mutation: off by one. *)
ExecutedQtyLessOne(b, i, qty) == MinOf(b.nodes[i].qty - 1, qty)

ExecutedQty(b, i, qty) == MinOf(b.nodes[i].qty, qty)

(* Mutation: the traded quantity leaves the level's total twice. *)
ExecuteHeadTwice(b, i, qty) ==
  LET n == b.nodes[i]
      done == ExecutedQty(b, i, qty)
      reduced == [b EXCEPT !.nodes[i].qty = @ - done,
                           !.levels[n.side][n.level_idx].total_qty =
                              (@ - done) % QtyModulus]
  IN  IF n.qty = done THEN RemoveNode(reduced, i, done) ELSE reduced

ExecuteHead(b, i, qty) ==
  LET n == b.nodes[i]
      done == ExecutedQty(b, i, qty)
      reduced == [b EXCEPT !.nodes[i].qty = @ - done,
                           !.levels[n.side][n.level_idx].total_qty =
                              (@ - done) % QtyModulus]
  IN  IF n.qty = done THEN RemoveNode(reduced, i, 0) ELSE reduced

-----------------------------------------------------------------------------
(* The feed handler's way in: no matching, executions come by order id. *)

FeedAddOk(b, o) ==
  /\ ~ Contains(b, o.order_id)
  /\ o.qty # 0
  /\ PriceInBand(o.price)

FeedExecuteOk(b, id, qty) == Contains(b, id) /\ qty # 0

(* Mutation: a partial fill does not reach the level's total. *)
FeedExecuteNodeOnly(b, i, qty) ==
  IF qty >= b.nodes[i].qty THEN RemoveNode(b, i, b.nodes[i].qty)
  ELSE [b EXCEPT !.nodes[i].qty = @ - qty]

FeedExecuteNode(b, i, qty) ==
  LET n == b.nodes[i]
  IN  IF qty >= n.qty THEN RemoveNode(b, i, n.qty)
      ELSE [b EXCEPT !.nodes[i].qty = @ - qty,
                     !.levels[n.side][n.level_idx].total_qty =
                        (@ - qty) % QtyModulus]

-----------------------------------------------------------------------------
(* What a call emits. *)

MdEvent(type, n, qty) ==
  [type |-> type, order_id |-> n.order_id, account_id |-> n.account_id,
   side |-> n.side, price |-> n.price, qty |-> qty]

Emit(md) == [md |-> md, reject |-> "None"]
Refuse(reason) == [md |-> <<>>, reject |-> reason]

NoTaker ==
  [order_id |-> kInvalidOrderId, account_id |-> kNoAccount, side |-> "Buy",
   price |-> 0, qty |-> 0, tif |-> "Gtc"]

AddReject(b, o) ==
  CASE o.qty = 0 -> "InvalidQty"
    [] o.qty # 0 /\ ~ PriceInBand(o.price) -> "InvalidPrice"
    [] o.qty # 0 /\ PriceInBand(o.price) /\ Contains(b, o.order_id) -> "DuplicateOrder"
    [] OTHER -> "None"

(***************************************************************************)
(* add_order up to its loop, on the book b a caller left and after the     *)
(* events md it emitted.                                                   *)
(***************************************************************************)
EnterAdd(b, md, o) ==
  /\ book' = b
  /\ out' = [md |-> md, reject |-> AddReject(b, o)]
  /\ taker' = IF AddReject(b, o) = "None" THEN o ELSE NoTaker

-----------------------------------------------------------------------------
Init ==
  /\ book = EmptyBook
  /\ taker = NoTaker
  /\ out = Emit(<<>>)

AddOrder(o) ==
  /\ taker = NoTaker
  /\ EnterAdd(book, <<>>, o)

(* The loop's condition. *)
Matching ==
  /\ taker.qty > 0
  /\ Crosses(book, taker.side, taker.price)

(* Mutation: the aggressor pays for the whole resting order. *)
MatchOvercharging ==
  /\ taker # NoTaker
  /\ Matching
  /\ LET i == BestHead(book, Opposite(taker.side))
         done == ExecutedQty(book, i, taker.qty)
     IN  /\ book' = ExecuteHead(book, i, taker.qty)
         /\ taker' = [taker EXCEPT !.qty = @ - book.nodes[i].qty]
         /\ out' = Emit(<<MdEvent("Execute", book.nodes[i], done)>>)

Match ==
  /\ taker # NoTaker
  /\ Matching
  /\ LET i == BestHead(book, Opposite(taker.side))
         done == ExecutedQty(book, i, taker.qty)
     IN  /\ book' = ExecuteHead(book, i, taker.qty)
         /\ taker' = [taker EXCEPT !.qty = @ - done]
         /\ out' = Emit(<<MdEvent("Execute", book.nodes[i], done)>>)

(* After the loop: a Gtc remainder rests, ... *)
Rest ==
  /\ taker # NoTaker
  /\ ~ Matching
  /\ taker.qty > 0 /\ taker.tif = "Gtc"
  /\ book' = RestOrder(book, taker)
  /\ taker' = NoTaker
  /\ out' = Emit(<<MdEvent("Add", taker, taker.qty)>>)

(* ... an Ioc remainder, or nothing, is dropped without an event. *)
Finish ==
  /\ taker # NoTaker
  /\ ~ Matching
  /\ ~ (taker.qty > 0 /\ taker.tif = "Gtc")
  /\ taker' = NoTaker
  /\ out' = Emit(<<>>)
  /\ UNCHANGED book

CancelEvent(b, id) ==
  LET n == b.nodes[b.index[id]] IN MdEvent("Cancel", n, n.qty)

Cancelled(b, id) == RemoveNode(b, b.index[id], b.nodes[b.index[id]].qty)

CancelOrder(id) ==
  /\ taker = NoTaker
  /\ Contains(book, id)
  /\ book' = Cancelled(book, id)
  /\ out' = Emit(<<CancelEvent(book, id)>>)
  /\ UNCHANGED taker

CancelUnknown(id) ==
  /\ taker = NoTaker
  /\ ~ Contains(book, id)
  /\ out' = Refuse("UnknownOrder")
  /\ UNCHANGED <<book, taker>>

(* Mutation: the events lack the cancel of the old order. *)
ReplaceOrderSilently(old, o) ==
  /\ taker = NoTaker
  /\ PriceInBand(o.price)
  /\ Contains(book, old)
  /\ EnterAdd(Cancelled(book, old), <<>>, o)

(***************************************************************************)
(* replace_order: the cancel is done before add_order looks at the new     *)
(* order, so a refusal of the new order leaves the old one cancelled.      *)
(***************************************************************************)
ReplaceOrder(old, o) ==
  /\ taker = NoTaker
  /\ PriceInBand(o.price)
  /\ Contains(book, old)
  /\ EnterAdd(Cancelled(book, old), <<CancelEvent(book, old)>>, o)

(* Mutation: the old order is cancelled before the price is checked. *)
ReplaceRefusedTooLate(old, o) ==
  /\ taker = NoTaker
  /\ \/ /\ ~ Contains(book, old)
        /\ out' = Refuse("UnknownOrder")
        /\ UNCHANGED book
     \/ /\ ~ PriceInBand(o.price)
        /\ Contains(book, old)
        /\ book' = Cancelled(book, old)
        /\ out' = Refuse("InvalidPrice")
  /\ UNCHANGED taker

ReplaceRefused(old, o) ==
  /\ taker = NoTaker
  /\ \/ /\ ~ PriceInBand(o.price)
        /\ out' = Refuse("InvalidPrice")
     \/ /\ PriceInBand(o.price)
        /\ ~ Contains(book, old)
        /\ out' = Refuse("UnknownOrder")
  /\ UNCHANGED <<book, taker>>

FeedAdd(o) ==
  /\ taker = NoTaker
  /\ FeedAddOk(book, o)
  /\ book' = RestOrder(book, o)
  /\ out' = Emit(<<MdEvent("Add", o, o.qty)>>)
  /\ UNCHANGED taker

FeedExecute(id, qty) ==
  /\ taker = NoTaker
  /\ FeedExecuteOk(book, id, qty)
  /\ LET i == book.index[id]
     IN  /\ book' = FeedExecuteNode(book, i, qty)
         /\ out' = Emit(<<MdEvent("Execute", book.nodes[i],
                                  ExecutedQty(book, i, qty))>>)
  /\ UNCHANGED taker

-----------------------------------------------------------------------------
(* An exchange's book takes commands, a subscriber's book takes the feed.  *)

Next ==
  \/ \E o \in Orders : AddOrder(o)
  \/ Match
  \/ Rest
  \/ Finish
  \/ \E id \in OrderIds : CancelOrder(id) \/ CancelUnknown(id)
  \/ \E old \in OrderIds, o \in Orders :
        ReplaceOrder(old, o) \/ ReplaceRefused(old, o)

FeedNext ==
  \/ \E o \in Orders : FeedAdd(o)
  \/ \E id \in OrderIds, qty \in Quantities : FeedExecute(id, qty)
  \/ \E id \in OrderIds : CancelOrder(id)

(* The loop runs to its end once entered: one thread, nothing to wait for. *)
Fairness == WF_vars(Match \/ Rest \/ Finish)

Spec == Init /\ [][Next]_vars /\ Fairness

FeedSpec == Init /\ [][FeedNext]_vars

-----------------------------------------------------------------------------
(* Types. *)

Nodes ==
  [order_id : OrderIds \cup {kInvalidOrderId},
   account_id : Accounts \cup {kNoAccount},
   side : Sides, price : Band \cup {0}, qty : Qty, level_idx : Levels,
   prev : Nat, next : Nat, active : BOOLEAN]

LevelRecords == [head : Nat, tail : Nat, total_qty : Qty, count : Nat]

Books ==
  [nodes : Seq(Nodes),
   free : Seq(Nat),
   index : [OrderIds -> Nat],
   levels : [Sides -> [Levels -> LevelRecords]],
   occupied : [Sides -> SUBSET Levels],
   best : [Sides -> Levels \cup {NoLevel}],
   level_count : [Sides -> Int]]

(* An order add_order has let in is of the right type and in the ladder. *)
Takers == {o \in Orders : PriceInBand(o.price)}

(***************************************************************************)
(* The fields keep the widths and ranges of their C++ types; a taker       *)
(* between two iterations is the admitted order with less left to fill.    *)
(***************************************************************************)
TypeOK ==
  /\ book \in Books
  /\ \/ taker = NoTaker
     \/ \E o \in Takers : \E q \in 0 .. o.qty : taker = [o EXCEPT !.qty = q]
  /\ out.md \in Seq(MdEvents)
  /\ out.reject \in BookRejects

-----------------------------------------------------------------------------
(* The representation invariant, in the parts its proof needs. *)

Active(b) == {h \in DOMAIN b.nodes : b.nodes[h].active}

Members(b, s, l) ==
  {h \in Active(b) : b.nodes[h].side = s /\ b.nodes[h].level_idx = l}

(* Every slot is either in use or on the free stack, once. *)
PoolOK(b) ==
  /\ \A k \in DOMAIN b.free : b.free[k] \in DOMAIN b.nodes
  /\ \A j, k \in DOMAIN b.free : b.free[j] = b.free[k] => j = k
  /\ \A h \in DOMAIN b.nodes : h \in Active(b) <=> \A k \in DOMAIN b.free : b.free[k] # h

(* index_ and the used slots name each other. *)
IndexOK(b) ==
  /\ \A id \in OrderIds : Contains(b, id) =>
       /\ b.index[id] \in Active(b)
       /\ b.nodes[b.index[id]].order_id = id
  /\ \A h \in Active(b) :
       /\ b.nodes[h].order_id \in OrderIds
       /\ b.index[b.nodes[h].order_id] = h

(* A resting order is in the ladder, on the level of its price, ... *)
PlacedOK(b) ==
  \A h \in Active(b) :
    /\ b.nodes[h].price \in Band
    /\ b.nodes[h].level_idx = PriceToIndex(b.nodes[h].price)

(* ... and has something left to fill. *)
OpenOK(b) == \A h \in Active(b) : b.nodes[h].qty > 0

(***************************************************************************)
(* line is the level in the order of its list: every member once, the ends *)
(* where head and tail say, each next to its neighbours.                   *)
(***************************************************************************)
IsLine(b, s, l, line) ==
  LET lv == b.levels[s][l]
  IN  /\ \A h \in Members(b, s, l) : \E k \in 1 .. lv.count : line[k] = h
      /\ \A j, k \in 1 .. lv.count : line[j] = line[k] => j = k
      /\ lv.head = (IF lv.count = 0 THEN kNull ELSE line[1])
      /\ lv.tail = (IF lv.count = 0 THEN kNull ELSE line[lv.count])
      /\ \A k \in 1 .. lv.count :
           /\ b.nodes[line[k]].prev = (IF k = 1 THEN kNull ELSE line[k - 1])
           /\ b.nodes[line[k]].next = (IF k = lv.count THEN kNull ELSE line[k + 1])

LinesOK(b) ==
  \A s \in Sides, l \in Levels :
    \E line \in [1 .. b.levels[s][l].count -> Members(b, s, l)] : IsLine(b, s, l, line)

(* The bitmap shows the levels in use, the cached best is the best of them. *)
BestOK(b) ==
  \A s \in Sides :
    /\ \A l \in Levels : l \in b.occupied[s] <=> b.levels[s][l].count > 0
    /\ b.level_count[s] = Cardinality(b.occupied[s])
    /\ b.best[s] = NoLevel => b.occupied[s] = {}
    /\ b.best[s] # NoLevel =>
         /\ b.best[s] \in b.occupied[s]
         /\ \A l \in b.occupied[s] : l = b.best[s] \/ Better(s, b.best[s], l)

BookInv(b) ==
  /\ PoolOK(b)
  /\ IndexOK(b)
  /\ PlacedOK(b)
  /\ OpenOK(b)
  /\ LinesOK(b)
  /\ BestOK(b)

(* The order being matched has no slot yet. *)
TakerNotResting == taker # NoTaker => ~ Contains(book, taker.order_id)

(***************************************************************************)
(* After any sequence of calls, and between any two loop iterations, the   *)
(* pool, the index, the lists, the bitmap, the cached best levels and the  *)
(* counters describe the same set of resting orders, and the order being   *)
(* matched is none of them: what remove_node, append_to_level, alloc_node  *)
(* and free_node leave behind.                                             *)
(***************************************************************************)
RepOK == BookInv(book) /\ TakerNotResting

(***************************************************************************)
(* The best bid is below the best ask, also while an order is matching:    *)
(* add_order rests a remainder only once it no longer crosses.             *)
(***************************************************************************)
Uncrossed ==
  book.best["Buy"] # NoLevel /\ book.best["Sell"] # NoLevel
    => book.best["Buy"] < book.best["Sell"]

OpenQty(b, id) == IF Contains(b, id) THEN b.nodes[b.index[id]].qty ELSE 0

EventDelta(md, id) ==
  IF md = <<>> THEN 0
  ELSE IF md[1].order_id # id THEN 0
  ELSE IF md[1].type = "Add" THEN md[1].qty ELSE - md[1].qty

(***************************************************************************)
(* Each step changes the open quantity of each order by exactly what the   *)
(* market data event of that step says of it, so that a reader of the      *)
(* events alone can keep the same book.  Holds of every call, replace_order *)
(* and its refusals included.                                              *)
(***************************************************************************)
EventsExplainBook ==
  [][\A id \in OrderIds :
       OpenQty(book', id) = OpenQty(book, id) + EventDelta(out'.md, id)]_vars

(***************************************************************************)
(* The loop of add_order ends: every iteration uses up a resting order or  *)
(* the aggressor.                                                          *)
(***************************************************************************)
CallReturns == taker # NoTaker ~> taker = NoTaker
=============================================================================
