--------------------------- MODULE MarketDataFeed ---------------------------
(***************************************************************************)
(* The exchange, the transport of its market data and a subscriber: every  *)
(* event of a call goes out as a frame, and SubscriberBook::apply_frame    *)
(* (src/subscriber.cpp) takes what arrives through its FeedDecoder         *)
(* (src/market_data.cpp) into a book manager of its own.  The transport is *)
(* not in the repository; the sequence numbers are there because it may    *)
(* lose, repeat and reorder frames.  The exchange may start again, with    *)
(* empty books and both sequences at 1, while frames of its old run are    *)
(* still on their way and the subscriber expects the number after the last *)
(* it took.                                                                *)
(***************************************************************************)
EXTENDS Exchange

CONSTANT FaultSets   \* sets of "lose", "duplicate", "reorder" and "restart"

ASSUME FaultAssumption ==
  FaultSets \subseteq SUBSET {"lose", "duplicate", "reorder", "restart"}

VARIABLES
  faults,      \* what may go wrong in this behaviour: one of FaultSets
  wire,        \* the frames on their way
  subscriber,  \* [manager, expected, failed]: books_, decoder_.expected_, and
               \* whether apply_event ever answered an error
  era,         \* "first", "restarted", and "overtaken" once the new run has
               \* published a number the subscriber expected (history)
  followed,    \* [manager, next_seq, next_md_seq] as the first run has it or
               \* left it (history)
  behind       \* its events from number `expected' on (history)

feedVars == <<vars, faults, wire, subscriber, era, followed, behind>>

NewSubscriber == [manager |-> EmptyManager, expected |-> 1, failed |-> FALSE]

(* cancel_order as apply_event sees it. *)
FeedCancelled(call) == [ok |-> call.reject = "None", manager |-> call.manager]

(* apply_event: what the call returns, and the manager it leaves. *)
ApplyEvent(m, ev) ==
  CASE ev.type = "Add" -> FeedAdd(m, ev)
    [] ev.type = "Execute" -> FeedExecute(m, ev)
    [] ev.type = "Cancel" -> FeedCancelled(CancelOrder(m, ev.order_id))
    [] OTHER -> [ok |-> TRUE, manager |-> m]

(* Frame number seq is counted, applied or not. *)
Counted(sub, seq, applied) ==
  [manager |-> applied.manager, expected |-> seq + 1,
   failed |-> sub.failed \/ ~ applied.ok]

(* Mutant: a gap is skipped over. *)
ApplyFrameAfterGap(sub, f) ==
  IF f.seq < sub.expected THEN sub
  ELSE Counted(sub, f.seq, ApplyEvent(sub.manager, f.ev))

(* Mutant: events that change no book are not counted. *)
ApplyFrameUncounted(sub, f) ==
  IF f.seq # sub.expected \/ f.ev.type = "Reject" THEN sub
  ELSE Counted(sub, f.seq, ApplyEvent(sub.manager, f.ev))

(* The decoder takes the frame it expects and no other. *)
ApplyFrame(sub, f) ==
  IF f.seq # sub.expected THEN sub
  ELSE Counted(sub, f.seq, ApplyEvent(sub.manager, f.ev))

-----------------------------------------------------------------------------
Moment(e) ==
  [manager |-> e.manager, next_seq |-> e.next_seq, next_md_seq |-> e.next_md_seq]

FeedInit ==
  /\ Init
  /\ faults \in FaultSets
  /\ wire = {}
  /\ subscriber = NewSubscriber
  /\ era = "first"
  /\ followed = Moment(NewExchange)
  /\ behind = <<>>

(* The numbers of the new run have come to the one the subscriber expects. *)
Overtakes ==
  era = "restarted" /\ exchange'.next_md_seq > subscriber.expected

(* Bound: MaxSeq calls in both runs together. *)
CallsLeft ==
  era = "restarted" => exchange.next_seq + followed.next_seq - 1 <= MaxSeq

Publish ==
  /\ CallsLeft
  /\ Next
  /\ wire' = wire \cup {last'.md[k] : k \in DOMAIN last'.md}
  /\ IF era = "first"
     THEN /\ followed' = Moment(exchange')
          /\ behind' = behind \o last'.md
     ELSE UNCHANGED <<followed, behind>>
  /\ era' = IF Overtakes THEN "overtaken" ELSE era
  /\ UNCHANGED <<faults, subscriber>>

(* The exchange ends, and starts with nothing. *)
Restart ==
  /\ "restart" \in faults /\ era = "first"
  /\ exchange' = NewExchange
  /\ journal' = <<>>
  /\ md_checksum' = <<>>
  /\ last' = NoCall
  /\ era' = "restarted"
  /\ UNCHANGED <<clock, faults, wire, subscriber, followed, behind>>

(* Without "reorder" the first frame sent is the first to arrive. *)
Arrives(f) ==
  /\ f \in wire
  /\ "reorder" \in faults \/ \A g \in wire : f.seq <= g.seq

Receive(f) ==
  /\ Arrives(f)
  /\ subscriber' = ApplyFrame(subscriber, f)
  /\ behind' = SubSeq(behind, subscriber'.expected - subscriber.expected + 1, Len(behind))
  /\ UNCHANGED <<vars, faults, era, followed>>

Deliver == \E f \in wire : Receive(f) /\ wire' = wire \ {f}

(* The frame arrives and will arrive again. *)
Duplicate == "duplicate" \in faults /\ \E f \in wire : Receive(f) /\ UNCHANGED wire

Lose ==
  /\ "lose" \in faults
  /\ \E f \in wire : wire' = wire \ {f}
  /\ UNCHANGED <<vars, faults, subscriber, era, followed, behind>>

(* Bound: nothing is looked at once the subscriber is overtaken. *)
FeedNext ==
  /\ era # "overtaken"
  /\ Publish \/ Restart \/ Deliver \/ Duplicate \/ Lose

(* Over a transport that only repeats frames, each of them arrives in the end. *)
Reliable == faults \subseteq {"duplicate"}

FeedFairness == WF_feedVars(Reliable /\ Deliver)

MdSpec == FeedInit /\ [][FeedNext]_feedVars /\ FeedFairness

-----------------------------------------------------------------------------
(* The manager m once it has taken the events of all frames. *)
CaughtUp(m, frames) ==
  LET after[k \in 0 .. Len(frames)] ==
        IF k = 0 THEN m ELSE ApplyEvent(after[k - 1], frames[k].ev).manager
  IN  after[Len(frames)]

(***************************************************************************)
(* Whatever the transport does, the subscriber is a moment of the past of  *)
(* the exchange: every event it took succeeded, and the events it has not  *)
(* taken would bring its books and its index to those of the exchange.     *)
(* After a restart it goes on in the past of the old run, and notices      *)
(* nothing, until the new run has published a number it expects.           *)
(***************************************************************************)
SubscriberIsPrefix ==
  era # "overtaken" =>
    /\ ~ subscriber.failed
    /\ subscriber.expected + Len(behind) = followed.next_md_seq
    /\ CaughtUp(subscriber.manager, behind) = followed.manager

(***************************************************************************)
(* A subscriber that has every event has the books of the exchange, orders *)
(* in their places (tests/exsim_tests.cpp:79 requires it of the checksums).*)
(***************************************************************************)
SubscriberAgrees ==
  era = "first" /\ subscriber.expected = exchange.next_md_seq =>
    subscriber.manager.books = exchange.manager.books

(***************************************************************************)
(* If no frame is lost or overtaken and the exchange does not restart, the *)
(* subscriber gets again and again to every event that was published,      *)
(* duplicates or not: for good, once the exchange is quiet.                *)
(***************************************************************************)
SubscriberCatchesUp ==
  []<>(Reliable => subscriber.expected = exchange.next_md_seq)
=============================================================================
