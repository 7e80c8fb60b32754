---------------------------- MODULE BenchWorkload ----------------------------
(***************************************************************************)
(* bench_exchange_replay: random new orders and cancels go as frames       *)
(* through an exchange, its events go at once through a subscriber, and    *)
(* the events tell the load generator which orders it can still cancel.    *)
(* Any iteration may be the last one, after which the journal is replayed  *)
(* and the three books are compared.                                       *)
(***************************************************************************)
EXTENDS MarketDataFeed

VARIABLES
  live_ids,  \* the orders it may cancel
  live_pos,  \* where each of them is in live_ids
  next_id    \* the id of the next new order

benchVars == <<feedVars, live_ids, live_pos, next_id>>

-----------------------------------------------------------------------------
(* What it tracks: [ids, pos]. *)
TrackAdd(t, id) ==
  IF id \in DOMAIN t.pos THEN t
  ELSE [ids |-> Append(t.ids, id),
        pos |-> [i \in DOMAIN t.pos \cup {id} |->
                   IF i = id THEN Len(t.ids) + 1 ELSE t.pos[i]]]

(* Mutant: the id that takes the place of the removed one keeps its old place. *)
TrackRemoveStale(t, id) ==
  IF id \notin DOMAIN t.pos THEN t
  ELSE LET final == t.ids[Len(t.ids)]
       IN  [ids |-> SubSeq([t.ids EXCEPT ![t.pos[id]] = final], 1, Len(t.ids) - 1),
            pos |-> [i \in DOMAIN t.pos \ {id} |-> t.pos[i]]]

(* The last id takes the place of the one removed. *)
TrackRemove(t, id) ==
  IF id \notin DOMAIN t.pos THEN t
  ELSE LET final == t.ids[Len(t.ids)]
           moved == [t.pos EXCEPT ![final] = t.pos[id]]
       IN  [ids |-> SubSeq([t.ids EXCEPT ![t.pos[id]] = final], 1, Len(t.ids) - 1),
            pos |-> [i \in DOMAIN t.pos \ {id} |-> moved[i]]]

(* An event of a command, with the manager as the whole command left it. *)
Track(t, ev, m) ==
  CASE ev.type = "Add" -> TrackAdd(t, ev.order_id)
    [] ev.type = "Cancel" \/ (ev.type = "Execute" /\ ~ ContainsOrder(m, ev.order_id)) ->
         TrackRemove(t, ev.order_id)
    [] OTHER -> t

(* What it tracks once it has looked at all the events of a command. *)
TrackedAfter(t, frames, m) ==
  LET after[k \in 0 .. Len(frames)] ==
        IF k = 0 THEN t ELSE Track(after[k - 1], frames[k].ev, m)
  IN  after[Len(frames)]

(* The subscriber once it has got the frames of a command. *)
SubscriberAfter(sub, frames) ==
  LET after[k \in 0 .. Len(frames)] ==
        IF k = 0 THEN sub ELSE ApplyFrame(after[k - 1], frames[k])
  IN  after[Len(frames)]

-----------------------------------------------------------------------------
BenchInit ==
  /\ FeedInit
  /\ live_ids = <<>>
  /\ live_pos = <<>>
  /\ next_id = 1

(* A new order: any symbol, side, quantity, account, and a price that may be *)
(* off the ladder.                                                           *)
NewOrder(cmd) ==
  /\ cmd.type = "New"
  /\ cmd.order_id = next_id
  /\ next_id' = next_id + 1

CancelLive(cmd) ==
  /\ cmd.type = "Cancel"
  /\ \E k \in DOMAIN live_ids : cmd.cancel_order_id = live_ids[k]
  /\ UNCHANGED next_id

(* The subscriber takes every frame; an error ends the program.  A command is *)
(* received at the number of its iteration.                                   *)
Iterate(cmd) ==
  /\ NewOrder(cmd) \/ CancelLive(cmd)
  /\ ~ subscriber.failed
  /\ clock + 1 \in Times
  /\ ProcessFrame(cmd, clock + 1)
  /\ subscriber' = SubscriberAfter(subscriber, last'.md)
  /\ LET tracked == TrackedAfter([ids |-> live_ids, pos |-> live_pos], last'.md,
                                 exchange'.manager)
     IN  live_ids' = tracked.ids /\ live_pos' = tracked.pos
  /\ UNCHANGED <<faults, wire, era, followed, behind>>

BenchNext == \E cmd \in Commands : Iterate(cmd)

BenchSpec == BenchInit /\ [][BenchNext]_benchVars

-----------------------------------------------------------------------------
(***************************************************************************)
(* The load generator knows, from the events alone, exactly the orders     *)
(* that rest, each once and at the place it has noted: a cancel never      *)
(* names an order that is gone (track_add, track_remove).                  *)
(***************************************************************************)
TracksLive ==
  /\ DOMAIN live_pos = {id \in OrderIds : ContainsOrder(exchange.manager, id)}
  /\ DOMAIN live_ids = {live_pos[id] : id \in DOMAIN live_pos}
  /\ \A id \in DOMAIN live_pos : live_ids[live_pos[id]] = id

(***************************************************************************)
(* Wherever the run ends, the subscriber has answered no error and missed  *)
(* no frame, and its books, those of a replay of the journal and the       *)
(* events the replay republishes are those of the exchange: the benchmark  *)
(* prints PASS.                                                            *)
(***************************************************************************)
VerificationPasses ==
  LET replay == Replayed(journal)
  IN  /\ ~ subscriber.failed
      /\ subscriber.expected = exchange.next_md_seq
      /\ subscriber.manager = exchange.manager
      /\ ~ replay.thrown
      /\ replay.exchange.manager = exchange.manager
      /\ replay.md = md_checksum
=============================================================================
