---------------------------- MODULE PriceTimeBook ----------------------------
(***************************************************************************)
(* What core::OrderBook promises: price-time priority over the queues of   *)
(* PriceTimeQueues.  An aggressor trades, one resting order at a time,     *)
(* with the first order in line at the best opposite price; what is left   *)
(* of a Gtc order goes to the end of the line at its own price.            *)
(***************************************************************************)
EXTENDS PriceTimeQueues

VARIABLES
  queues,   \* the resting orders
  taker,    \* the order being matched, NoTaker between calls
  out       \* the event and the refusal of the last step

vars == <<queues, taker, out>>

NoTaker ==
  [order_id |-> kInvalidOrderId, account_id |-> kNoAccount, side |-> "Buy",
   price |-> 0, qty |-> 0, tif |-> "Gtc"]

Answer(md, reason) == [md |-> md, reject |-> reason]

Init ==
  /\ queues = EmptyQueues
  /\ taker = NoTaker
  /\ out = Answer(<<>>, "None")

(* The events md are out and the book is q when add_order sees an order. *)
Enter(q, md, orders) ==
  LET live == LiveIds(q)
  IN  \E o \in orders :
        /\ \/ /\ taker' = o
              /\ out'.reject = "None"
           \/ /\ taker' = NoTaker
              /\ out'.reject # "None"
        /\ out' = Answer(md, AddRefusal(live, o))
        /\ queues' = q

Add ==
  /\ taker = NoTaker
  /\ out'.md = <<>>
  /\ Enter(queues, <<>>, Orders)

WantsMore ==
  /\ taker.qty > 0
  /\ Marketable(queues, taker.side, taker.price)

Trade ==
  /\ taker # NoTaker
  /\ WantsMore
  /\ LET resting == FirstInLine(queues, Opposite(taker.side))
         done == MinOf(resting.qty, taker.qty)
     IN  /\ queues' = Reduced(queues, resting.order_id, done)
         /\ taker' = [taker EXCEPT !.qty = @ - done]
         /\ out' = Answer(<<MdEventFor("Execute", resting, done)>>, "None")

Settle ==
  /\ taker # NoTaker
  /\ ~ WantsMore
  /\ taker' = NoTaker
  /\ LET rests == taker.qty > 0 /\ taker.tif = "Gtc"
     IN  /\ queues' = IF rests THEN Joined(queues, taker) ELSE queues
         /\ out' = Answer(IF rests THEN <<MdEventFor("Add", taker, taker.qty)>>
                                   ELSE <<>>, "None")

CancelOf(q, id) == MdEventFor("Cancel", OrderOf(q, id), OrderOf(q, id).qty)

Cancel(id) ==
  /\ taker = NoTaker
  /\ UNCHANGED taker
  /\ \/ /\ out'.reject = "None"
        /\ id \in LiveIds(queues)
        /\ out' = Answer(<<CancelOf(queues, id)>>, "None")
        /\ queues' = Without(queues, id)
     \/ /\ out' = Answer(<<>>, "UnknownOrder")
        /\ id \notin LiveIds(queues)
        /\ UNCHANGED queues

(***************************************************************************)
(* Cancel the old order, then add the new one: refused outright when the   *)
(* price is off the ladder or the old order unknown, but only half done    *)
(* when the new order is refused for another reason.                       *)
(***************************************************************************)
Replace(old) ==
  /\ taker = NoTaker
  /\ out'.md # <<>> /\ out'.md[1].order_id = old
  /\ old \in LiveIds(queues)
  /\ Enter(Without(queues, old), <<CancelOf(queues, old)>>,
           {o \in Orders : PriceInBand(o.price)})

ReplaceNothing(old) ==
  /\ taker = NoTaker
  /\ \/ /\ out' = Answer(<<>>, "InvalidPrice")
        /\ \E o \in Orders : ~ PriceInBand(o.price)
     \/ /\ out' = Answer(<<>>, "UnknownOrder")
        /\ \E o \in Orders : PriceInBand(o.price)
        /\ old \notin LiveIds(queues)
  /\ UNCHANGED <<queues, taker>>

Next ==
  \/ Trade
  \/ Settle
  \/ \E id \in OrderIds : Cancel(id)
  \/ Add
  \/ \E old \in OrderIds : Replace(old) \/ ReplaceNothing(old)

Spec == Init /\ [][Next]_vars
=============================================================================
