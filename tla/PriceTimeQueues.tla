--------------------------- MODULE PriceTimeQueues ---------------------------
(***************************************************************************)
(* What a book is to its users: per side and price the resting orders in   *)
(* the order they arrived.  OrderBook implements it with lists over a      *)
(* node pool (OrderBookRefinement); BookManager and the modules above it   *)
(* use it as the value of a book.  Only operators here, from a book to a   *)
(* book.                                                                   *)
(***************************************************************************)
EXTENDS ExsimTypes, Sequences

Resting == [order_id : OrderIds, account_id : Accounts, qty : Nat \ {0}]

QueueBooks == [Sides -> [Band -> Seq(Resting)]]

EmptyQueues == [s \in Sides |-> [p \in Band |-> <<>>]]

RestsAt(q, id, s, p) == \E k \in DOMAIN q[s][p] : q[s][p][k].order_id = id

LiveIds(q) == {id \in OrderIds : \E s \in Sides, p \in Band : RestsAt(q, id, s, p)}

(* A resting order with the place it rests at. *)
RestingAs(r, s, p) ==
  [order_id |-> r.order_id, account_id |-> r.account_id, side |-> s,
   price |-> p, qty |-> r.qty]

(* How far down the line of s and p the order rests. *)
PlaceOf(q, id, s, p) == CHOOSE k \in DOMAIN q[s][p] : q[s][p][k].order_id = id

OrderOf(q, id) ==
  LET s == CHOOSE s \in Sides : \E p \in Band : RestsAt(q, id, s, p)
      p == CHOOSE p \in Band : RestsAt(q, id, s, p)
  IN  RestingAs(q[s][p][PlaceOf(q, id, s, p)], s, p)

Offered(q, side) == {p \in Band : q[side][p] # <<>>}

(* The lowest ask or the highest bid. *)
BestPrice(q, side) ==
  CHOOSE p \in Offered(q, side) :
    \A r \in Offered(q, side) : IF side = "Buy" THEN p >= r ELSE p <= r

(* Some order on the other side would trade with this limit. *)
Marketable(q, side, price) ==
  LET other == Opposite(side)
  IN  /\ Offered(q, other) # {}
      /\ IF side = "Buy" THEN price >= BestPrice(q, other)
                         ELSE price <= BestPrice(q, other)

(* First in time at the best price. *)
FirstInLine(q, side) ==
  LET p == BestPrice(q, side) IN RestingAs(Head(q[side][p]), side, p)

Joined(q, o) ==
  [q EXCEPT ![o.side][o.price] =
     Append(@, [order_id |-> o.order_id, account_id |-> o.account_id,
                qty |-> o.qty])]

(* The orders behind the k-th move up. *)
LeavingOut(line, k) == SubSeq(line, 1, k - 1) \o SubSeq(line, k + 1, Len(line))

Without(q, id) ==
  [s \in Sides |-> [p \in Band |->
     IF RestsAt(q, id, s, p) THEN LeavingOut(q[s][p], PlaceOf(q, id, s, p))
                             ELSE q[s][p]]]

(* id keeps its place with qty less to fill, or leaves with nothing left. *)
Reduced(q, id, qty) ==
  IF OrderOf(q, id).qty <= qty THEN Without(q, id)
  ELSE LET o == OrderOf(q, id)
           line == q[o.side][o.price]
       IN  [q EXCEPT ![o.side][o.price] =
              [k \in DOMAIN line |->
                 IF line[k].order_id = id THEN [line[k] EXCEPT !.qty = @ - qty]
                                          ELSE line[k]]]

(* The answer to an order while the orders of `live' rest. *)
AddRefusal(live, o) ==
  CASE o.qty = 0 -> "InvalidQty"
    [] o.qty # 0 /\ ~ PriceInBand(o.price) -> "InvalidPrice"
    [] o.qty # 0 /\ PriceInBand(o.price) /\ o.order_id \in live -> "DuplicateOrder"
    [] OTHER -> "None"

MdEventFor(type, o, qty) ==
  [type |-> type, order_id |-> o.order_id, account_id |-> o.account_id,
   side |-> o.side, price |-> o.price, qty |-> qty]
=============================================================================
