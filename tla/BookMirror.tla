----------------------------- MODULE BookMirror -----------------------------
(***************************************************************************)
(* A book of the exchange and the subscriber's copy of it, both as they    *)
(* are in memory: every event of the one goes at once through feed_add,    *)
(* feed_execute or cancel_order of the other (SubscriberBook::apply_event),*)
(* which remove and reduce orders by other paths than matching does; and   *)
(* OrderBook::checksum, by which the two are compared.                     *)
(***************************************************************************)
EXTENDS OrderBook

LOCAL Seqs == INSTANCE SequencesExt

VARIABLE mirror   \* the copy

mirrorVars == <<vars, mirror>>

-----------------------------------------------------------------------------
(* checksum: what is hashed, one after another. *)

(* The orders of a list from its head, along next. *)
OrdersFrom(b, head) ==
  LET walk[h \in 0 .. Len(b.nodes)] ==
        IF h = kNull THEN <<>>
        ELSE <<b.nodes[h].order_id, b.nodes[h].account_id, b.nodes[h].qty>>
               \o walk[b.nodes[h].next]
  IN  walk[head]

LevelChecksum(b, side, idx) ==
  <<IndexToPrice(idx), b.levels[side][idx].total_qty>>
    \o OrdersFrom(b, b.levels[side][idx].head)

(* Bids from the best down, then asks from the best up. *)
SideChecksum(b, side) ==
  Seqs!FoldLeft(LAMBDA h, idx : h \o LevelChecksum(b, side, idx), <<>>,
           Seqs!SetToSortSeq(b.occupied[side], LAMBDA i, j : Better(side, i, j)))

Checksum(b) == SideChecksum(b, "Buy") \o SideChecksum(b, "Sell")

(* stats. *)
Stats(b) ==
  [live_orders |-> Cardinality({id \in OrderIds : Contains(b, id)}),
   levels |-> b.level_count, best |-> b.best]

-----------------------------------------------------------------------------
(* apply_event on a book; an event that fails changes nothing. *)
Mirrored(b, ev) ==
  CASE ev.type = "Add" /\ FeedAddOk(b, ev) -> RestOrder(b, ev)
    [] ev.type = "Execute" /\ FeedExecuteOk(b, ev.order_id, ev.qty) ->
         FeedExecuteNode(b, b.index[ev.order_id], ev.qty)
    [] ev.type = "Cancel" /\ Contains(b, ev.order_id) -> Cancelled(b, ev.order_id)
    [] OTHER -> b

MirrorInit == Init /\ mirror = EmptyBook

(* The events of every step of the book, those of a replacement whose new  *)
(* order is refused among them; Exchange would drop these.                 *)
MirrorNext == Next /\ mirror' = Seqs!FoldLeft(Mirrored, mirror, out'.md)

MirrorSpec == MirrorInit /\ [][MirrorNext]_mirrorVars

-----------------------------------------------------------------------------
(***************************************************************************)
(* After every step the copy has the checksum and the stats of the book,   *)
(* though it removes and reduces orders by other code                      *)
(* (tests/exsim_tests.cpp:79 requires it of the checksums).                *)
(***************************************************************************)
MirrorAgrees ==
  /\ Checksum(mirror) = Checksum(book)
  /\ Stats(mirror) = Stats(book)
=============================================================================
