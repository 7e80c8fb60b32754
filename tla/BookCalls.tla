------------------------------ MODULE BookCalls ------------------------------
(***************************************************************************)
(* The calls of a book run to their end, as functions from a book of       *)
(* PriceTimeQueues to the book left behind, the events and the refusal     *)
(* (MatchOutput).  What PriceTimeBook does in one step per trade is one    *)
(* value here: the exchange above a book never sees the steps.             *)
(***************************************************************************)
EXTENDS PriceTimeQueues, FiniteSets

MatchOutput(q, md, reason) == [queues |-> q, md |-> md, reject |-> reason]

(***************************************************************************)
(* The loop of add_order: every iteration uses up a resting order or the   *)
(* aggressor, so there are at most as many as orders rest.                 *)
(***************************************************************************)
Trade(r, resting, done) ==
  [queues |-> Reduced(r.queues, resting.order_id, done),
   left |-> r.left - done,
   md |-> Append(r.md, MdEventFor("Execute", resting, done))]

TradeWith(r, resting) == Trade(r, resting, MinOf(resting.qty, r.left))

Iteration(r, o) ==
  IF r.left > 0 /\ Marketable(r.queues, o.side, o.price)
  THEN TradeWith(r, FirstInLine(r.queues, Opposite(o.side)))
  ELSE r

Matched(q, o) ==
  LET most == Cardinality(LiveIds(q))
      after[n \in 0 .. most] ==
        IF n = 0 THEN [queues |-> q, left |-> o.qty, md |-> <<>>]
                 ELSE Iteration(after[n - 1], o)
  IN  after[most]

(* After the loop, which left m: a Gtc remainder rests. *)
Settled(m, o) ==
  IF m.left > 0 /\ o.tif = "Gtc"
  THEN MatchOutput(Joined(m.queues, [o EXCEPT !.qty = m.left]),
                   Append(m.md, MdEventFor("Add", o, m.left)), "None")
  ELSE MatchOutput(m.queues, m.md, "None")

(* What add_order does with an order it has let in. *)
Admitted(q, o) == Settled(Matched(q, o), o)

AddCall(q, o) ==
  LET reason == AddRefusal(LiveIds(q), o)
  IN  IF reason # "None" THEN MatchOutput(q, <<>>, reason) ELSE Admitted(q, o)

CancelCall(q, id) ==
  IF id \notin LiveIds(q) THEN MatchOutput(q, <<>>, "UnknownOrder")
  ELSE MatchOutput(Without(q, id),
                   <<MdEventFor("Cancel", OrderOf(q, id), OrderOf(q, id).qty)>>, "None")

(* The cancel stands whether or not the new order is let in. *)
AddAfter(cancelled, o) ==
  IF cancelled.reject # "None" THEN cancelled
  ELSE [AddCall(cancelled.queues, o) EXCEPT !.md = cancelled.md \o @]

ReplaceCall(q, old, o) ==
  IF ~ PriceInBand(o.price) THEN MatchOutput(q, <<>>, "InvalidPrice")
  ELSE AddAfter(CancelCall(q, old), o)

(* The subscriber's two calls; FALSE is the failure they report. *)
FeedAddCall(q, o) ==
  LET ok == o.order_id \notin LiveIds(q) /\ o.qty # 0 /\ PriceInBand(o.price)
  IN  [ok |-> ok, queues |-> IF ok THEN Joined(q, o) ELSE q]

FeedExecuteCall(q, id, qty) ==
  LET ok == id \in LiveIds(q) /\ qty # 0
  IN  [ok |-> ok, queues |-> IF ok THEN Reduced(q, id, qty) ELSE q]
=============================================================================
