# TLA+ models of the exchange simulator

The repository is a single-threaded matching engine (`src/`, C++20): clients send
order-entry frames, an exchange sequences and journals them, checks risk limits,
matches orders in price-time priority and publishes market data; a subscriber
rebuilds the books from the market data; a journal can be replayed. This
directory holds TLA+ models of it, TLC configurations, and proofs checked by
TLAPS. File names below are relative to the repository.

## The system

| Component | State | Operations | Called by |
|---|---|---|---|
| `OrderBook` (`src/order_book.cpp`) | node pool and stack of free slots, id index, a doubly linked list per side and level, bitmaps, cached best levels, counts | `add_order`, `cancel_order`, `replace_order`, `feed_add`, `feed_execute` | `BookManager` |
| `BookManager` (`src/order_book.cpp:363`) | a book per symbol, `order_to_symbol_` | the same by symbol or by id | `Exchange`, `SubscriberBook`; `RiskEngine` reads `contains_order` |
| `RiskEngine` (`src/risk.cpp`) | per account open orders, open notional, recent message times | `check`, `on_market_data` | `Exchange` |
| `Exchange` (`src/exchange.cpp`) | two sequence numbers, the three above, the journal, `md_checksum_` | `process_frame`, `process_command`, `apply_sequenced` | clients, benchmark, replay |
| `replay_journal` (`src/exchange.cpp:102`) | a second exchange | applies the journal's records | `tools/replay_check.cpp` |
| order entry (`src/order_entry.cpp`) | none | encode, decode, `validate_client_command` | `process_frame` |
| market data codec, `FeedDecoder` (`src/market_data.cpp`) | `expected_` | encode, decode with a gap check | `SubscriberBook` |
| `SubscriberBook` (`src/subscriber.cpp`) | a `BookManager`, a `FeedDecoder` | `apply_frame`, `apply_event` | whoever receives the frames |
| journal (`src/journal.cpp`) | a buffered file, truncated when opened | `append`, `flush`, `next` | `Exchange`, `replay_journal` |
| benchmark (`bench/bench_exchange_replay.cpp`) | the orders it can still cancel, an exchange, a subscriber | one iteration per command, a verification at the end | users |

Within a process nothing runs concurrently: every call runs to its end before the
next. Between processes three things go on at once: an exchange writes a journal
that a replay may read, frames travel to subscribers, and either end may stop and
start again. What is hard beside that: five structures of one book that must agree after any
sequence of calls; one command that fills several orders of several accounts and
must be told to the index and to the risk engine event by event; calls that fail
half way; state rebuilt somewhere else, from events over a transport (subscriber)
or from records (replay), that must come out the same.

What makes each part correct:

* `OrderBook`: the representation is coherent, the book is never crossed
  between calls, trades respect price-time priority, the events tell exactly
  what happened, and the matching loop ends.
* `BookManager`: the index names the resting orders and their books, no others.
* `RiskEngine`: the counts are those of the books; the rate limit is a sliding
  window; nothing but a replacement of another account's order takes an account
  over the limit of open orders.
* `Exchange`: a refused command takes at most the order it was to replace out of
  the books; a replay rebuilds what was there.
* `SubscriberBook`: it is always at a past state of the exchange, and at the
  present one when it has every event; its books in memory have the same checksum.
* journal: a reader returns what was appended, in order, up to where it stops,
  and at least what was flushed, unless the file is truncated while it reads.
* frames: what is decoded was sent, field by field.
* benchmark: it knows which orders rest, and its verification passes.

`PROJECT.json` lists the hazards of the code by line, with the properties that
cover them.

## Modules

| Module | Models |
|---|---|
| `ExsimTypes` | ids, sides, prices, the ladder; the assumptions on them |
| `OrderBook` | the book in memory, one action per public operation, one step per iteration of the matching loop |
| `PriceTimeQueues` | a book as queues: operators only |
| `PriceTimeBook` | what a book promises: a specification over queues |
| `OrderBookRefinement` | `QueuesOf`, which reads the lists as queues; the refinement; the link to `BookCalls` |
| `OrderBookProofs` | theorems about the representation |
| `PriorityProofs` | theorems about the refinement, the events and the calls |
| `BookCalls`, `CallProofs` | a whole call of a book as a function of its queues; lemmas about it |
| `BookManager` | the books and the index as a value, the methods as operators |
| `RiskEngine` | the accounts as a value, `check` and `on_market_data` as operators |
| `Exchange`, `ExchangeProofs` | the exchange, its journal, replay: an action per entry point; theorems about it, its manager and accounts |
| `MarketDataFeed`, `FeedProofs` | `Exchange`, a transport and a subscriber, across a restart of the exchange; theorems about it and about the benchmark |
| `LadderBitmap` | the words and bits of the occupied levels, and the walk of `checksum()`, along with the sets of `OrderBook` |
| `BookMirror` | a book of the exchange and a subscriber's copy of it, both in memory; `checksum()`, `stats()` |
| `RateWindow`, `RateWindowProofs` | the rate limit at receive times that go back, and its theorems |
| `JournalFile`, `JournalProofs` | the writer, the stream, the file and the reader, and their theorems |
| `ExchangeRecovery`, `RecoveryProofs` | `Exchange` over `JournalFile`, with a replay as a process of its own, and its theorems |
| `ReplayCheck` | an exchange and a replay of its journal under another configuration |
| `Codec`, `Frames` | the bytes of frames and payloads; a channel that damages them |
| `BenchWorkload` | the benchmark: load generator, exchange, subscriber, verification |
| `MC...` | constants for TLC |

### OrderBook

`book` is the object field by field. A slot of `nodes_` is its position in
`nodes` from 1, so that 0 can be `kNull`; a bitmap is the set of its occupied
levels, and the two searches are its minimum and maximum. `Qty` keeps its width
(`QtyModulus`, 2^32 in the code): `total_qty` wraps when the code adds or
subtracts and saturates where the code uses `std::min`. Private methods are
operators from a book to a book and compose as the calls do; public methods are
actions. The loop of `add_order` is one `Match` step per iteration, with the
aggressor in `taker` until `Rest` or `Finish`; every action that begins a call
waits for `taker = NoTaker`, since one thread makes the calls. `Next` is a book
of an exchange. `FeedNext`, a book of a subscriber that takes any events at all,
is only proved about; the runs exercise its operations as `BookMirror` and
`MarketDataFeed` use them. Trades are left out: they repeat the `Execute` events.

`PriceTimeBook` is the promise: per side and price a queue; the first order in
line at the best opposite price trades; what remains of a Gtc order joins the
end of its line. `ImplementsPriceTime` says that `OrderBook` implements it with
`queues <- QueuesOf(book)`, event for event and refusal for refusal.

### From steps to calls

Above the book nobody sees the iterations of the loop, so `BookCalls` gives a
call's outcome at once, and `BookManager` and `Exchange` take a command as one
step. `LoopKeepsOutcome` is what justifies it: in `OrderBook`, no iteration
changes the outcome `BookCalls` computes for the call in progress, and the last
one reaches it. It is checked and proved (`CallsKeepOutcome`).

### Exchange

`exchange` is what a replay rebuilds: both sequence numbers, the book manager,
the accounts. `ApplySequenced` follows `apply_sequenced`: sequence number, risk
check (with its side effect on the recent messages), execution, reject or
numbered events, and the accounting of the events, which asks `contains_order`
after the whole command. A command the books refuse leaves the books as the call
left them and its events are dropped, as in the code; an unknown symbol throws
after the journal and the rate window have been updated. `ProcessCommand` takes
any command, `ProcessFrame` one that must pass `Validate`, `ProcessBytes` bytes
that are no frame: the last two consume sequence numbers without a record.
`md_checksum_` is the sequence of the events hashed into it; it and the journal
are kept only with `Journaling`, since without a journal nothing compares them.

`Disciplined` puts clients under `Obeys`: a new order's id is not that of a
resting order (the code's comment on `order_id`, `include/exsim/types.hpp:46`,
speaks of stable ids given by the user), a replacement's price is on the ladder,
a symbol exists. Without it clients send anything.

### MarketDataFeed

Every event of a call becomes a frame on `wire`. `Deliver`, `Duplicate` and
`Lose` are the transport, which is not in the repository; `faults`, one of
`FaultSets`, says what may go wrong in a behaviour. `ApplyFrame` is
`FeedDecoder::decode` followed by `apply_event`: the decoder counts a frame
before it is known to apply. `Restart` ends the exchange and starts it with empty
books and both sequences at 1, while frames of the old run are on their way and
the subscriber expects the number after the last it took. `era`, `followed` and
`behind` are history: how the new run stands to the subscriber, the state the
first run has or was left in, and its published events the subscriber has not
taken. A behaviour ends when the new run has published a number the subscriber
expects: from then on the decoder takes events of the new run into the books of
the old one.

### LadderBitmap and BookMirror

`LadderBitmap` keeps the words as numbers: a bit is set by adding its power of
two when it is not there; `std::countr_zero` and `std::countl_zero` are the
lowest and the highest bit. `ladder` follows the steps of a book of `OrderBook`:
when one fills or empties a level, the words and the cached bests are changed as
`set_occupied` or `clear_occupied` change them; `WordsAgree` compares them with
the sets. `NextOccupied` is the walk of `checksum()`: `NextAbove` counts up to the
end of the ladder, `NextBelow` compares its unsigned index with 0 before it counts
down. `BookMirror` runs `OrderBook` with a second book, which takes the
events of each step through the operators of the feed, those of a replacement
whose new order is refused among them (`Exchange` drops these, see
`feed_replace`), and compares the two by the sequence of what `checksum()` hashes.

### JournalFile, ExchangeRecovery and ReplayCheck

The file is a header and one unit per record; of what was appended it holds a
number of whole units and some bytes of the next. `Drain` is the stream's
buffer, which writes out what it likes; `Flush` and `Close` write all of it;
`Break` is a write that fails or a process that dies, `LosePower` takes any end
of the file away, since nothing is synced; `Damage` spoils a part of one unit of
a file that is no longer written. The reader is `ReadNext`, with the errors of
`JournalReader::next` in its order.

`Reopen` is the constructor of the next writer, which truncates the file whoever
reads it (`src/journal.cpp:67`). The reader goes on at its offset: past the end of
the new file, where it ends without an error, or, as records are of one size, with
the new run's records behind those of the old. Its buffer may hold the first bytes
of a record that was truncated (`held`), and the rest come from the file as it is
then; bytes of two records that differ fail the checksum. `overwritten` has the
records of every run truncated under the reader, and `owed`, what a flush has
promised it, is void from then on. One writer at a time is a bound.

`ExchangeRecovery` appends the records of `Exchange` to that stream and lets a
replay read them one at a time, also while the exchange writes and while it starts
again; the exchange never looks at the stream, so it serves on after a failed
write. A `Restart` that cannot open the file leaves that of an earlier run;
`owner` is the run whose file it is. `FileRots` damages a file that no exchange
writes and, as a bound, nobody reads. `JournalAssumption` says that
every command an exchange can sequence is a record of that file. The properties
of `JournalFile` are checked there too; its own `JournalSpec` is only proved about. `ReplayCheck`
instantiates `Exchange` a second time, as `Tool`, with a ladder and limits of its
own.

### Codec and Frames

A byte is the value it is part of, with its position in it: bytes in another
place, or of two values, decode into something else. `fnv1a64` is the payload it
hashes, that is, it is taken to be injective. Both encoders of each kind of
message are modelled; the `_frame` ones put each field at its offset. `Frames`
sends a message and delivers it whole, cut, with bytes of another behind it, with
one byte changed or in part replaced by another message; a payload of a record
is only cut and extended, since the journal has the checksum.

### RateWindow and BenchWorkload

`RateWindow` calls `Check` at any time not more than `Slack` behind the latest.
`BenchWorkload` is the loop of the benchmark: a new order with the next id, or a
cancel of one of the orders it tracks, goes through `ProcessFrame`; the
subscriber takes every event at once; the events are tracked, by appending and
by moving the last id into the place of the removed one.

## Runs

| Run | Shows | Bounds |
|---|---|---|
| `order_book` | the book in memory: coherent (`TypeOK`, `RepOK`), never crossed, exact totals, exact events, price-time priority (`ImplementsPriceTime`), calls as functions (`LoopKeepsOutcome`), and a copy made from its events (`MirrorAgrees`) | 3 ids, 2 levels, quantities 1-2, both times in force |
| `order_book_ladder` | the words of the bitmaps (`WordsAgree`, `WalkVisitsAll`); `ImplementsPriceTime` with refusals of every kind; `CallReturns` | 2 ids, 5 levels and a price on each side of them, quantities 0-1 |
| `exchange` | `TypeOK`, `IndexAgrees`, `RiskTracksBooks`, `OpenOrdersCapped` | 3 ids, 2 accounts, 2 levels, 4 calls, `Disciplined` |
| `exchange_replay` | `IndexNeverDangles`, `ReplayRebuilds`, `RateLimitExact`, `OrderLimitsHold`, `RefusalsTakeOneOrder`, and `ToolAgreesUnlessLimited` for a replay under other limits | 2 ids, 2 symbols, 3 times, 4 calls, any client |
| `feed` | `SubscriberIsPrefix` over a transport with every fault and across a restart; `SubscriberCatchesUp` over one that only repeats | 2 ids, 2 symbols, 4 calls in both runs together |
| `feed_replace` | expected violation of `SubscriberAgrees` | any client, perfect transport |
| `replay_bad_frame` | expected violation of `ReplayRepublishes` | any client |
| `recovery` | the journal (`JournalTypeOK`, `ReadsWhatWasAppended`, `FlushedReadsBack`, `CleanEndIsTheEnd`) and what a replay makes of it (`RecoversAPast`, `FlushedIsNow`) through failed writes, crashes, power failures, damage and restarts, while a replay reads or not | 2 starts of the exchange, 2 commands in a run, records of 3 parts |
| `frames` | `DecodesWhatWasSent`, `EncodersAgree`, `UndamagedIsDecoded` | a few messages of each kind, valid and not; every cut and every byte |
| `book_mirror_wrap` | expected violation of `MirrorAgrees` | as `order_book`, with quantities of which two exceed the width |
| `rate_window` | `QueueIsTail`, `RefusedOnlyOverLimit`, `PassedOnlyUnderLimit` | 2 accounts, 2 messages in a window of 2, times 0-6, going back by 1 |
| `bench` | `TracksLive`, `VerificationPasses` | 4 orders, 2 symbols of one level, 5 commands |

The runs of the book have no bound on the number of calls: the pool never grows
beyond the number of ids, so the state space is finite. Three orders in one level
give a head, a middle and a tail to remove; two levels give a best and a next
best. Five levels in words of two bits have two full words and one of a single
bit, and two orders move the best from any word to any other. In the exchange,
four calls let one aggressor fill orders of two accounts and be followed by a
replacement that trades; `MaxSeq` bounds the calls and is why the runs above the
book do not check for deadlock. Three receive times around a window of one, with
two messages allowed, give messages inside, at and beyond the edge. In
`exchange_replay` prices times quantities wrap at 4, so an order off the ladder
passes the notional limit; its tool has a ladder one price wider, a larger
notional limit, fewer open orders and a longer window, so that either may refuse
what the other took. In `feed` the four calls are split in every way between the
two runs, so the new run comes to the subscriber's number or does not. In
`recovery` two records and a second start give a file cut in any record, a second
journal shorter or longer than the first, and a replay that has the first record
of one run and goes on with the second of the next. Ids are symmetric in
`order_book`, `exchange` and `book_mirror_wrap`: nothing there, temporal formulas
over single steps included, tells one from another, and none of the three checks
liveness; elsewhere commands name their ids. With times from 0 to 6 and a window
of 2, both the longer and the shorter window of the properties lie inside the
times; both properties fail without the slack. Five commands let the load
generator track three orders and have the moved one removed, in both ways.

Every property has a mutant in `PROJECT.json`: a definition (its comment begins
with "Mutant" or "Mutation") that changes the model as a plausible bug would,
under which TLC finds the property violated.

### What the expected violations show

* `feed_replace`: `replace_order` cancels the old order before `add_order`
  refuses the new one (id taken). The exchange answers a reject and drops the
  `Cancel` event, so a subscriber that has applied everything still has the
  order, and the risk engine still counts it. The test at
  `tests/exsim_tests.cpp:79` requires equal checksums.
* `replay_bad_frame`: a frame that does not decode or validate is numbered and
  published as a reject, but not journaled: a replay has other sequence numbers
  and another `md_checksum` than the exchange, which
  `tests/exsim_tests.cpp:115` requires to be equal. Books and accounts are
  rebuilt all the same (`ReplayRebuilds`).

* `book_mirror_wrap`: `total_qty` is a 32-bit sum that wraps where orders are
  appended and where `execute_head` subtracts, but `remove_node` stops at 0. A
  subscriber removes a filled order by `remove_node` with its quantity, the
  exchange by `execute_head` and `remove_node` with none. Once the quantities of
  one level add up to 2^32 or more, the totals differ though the orders are the
  same, and so do the checksums the test at `tests/exsim_tests.cpp:79` requires
  to be equal. The default limits, 100,000 orders of 100,000 per account, allow
  such sums.

Another case is why `Obeys` mentions prices: a replacement refused for an
off-ladder price leaves the old order resting but `BookManager::replace_order`
removes it from `order_to_symbol_` (`src/order_book.cpp:451`), so it can no
longer be cancelled. Likewise an id used in two books (`src/order_book.cpp:407`)
leaves an order out of the index. `IndexAgrees` fails without the discipline;
`IndexNeverDangles` and `RefusalsTakeOneOrder` hold of any client. The second says
how much a refusal may do: the order that was to be replaced may be gone from the
book, as in `feed_replace`, and two ids may have changed in the index, but nothing
trades, no other order moves, and neither the risk engine nor the feed is told.

`ReadsWhatWasAppended`, `FlushedReadsBack` and `RecoversAPast` except a reader whose
file was truncated meanwhile, because it does get records of two runs, or fewer
than were flushed: a replay that runs across a restart of the exchange may rebuild
what the exchange never was, and nothing in the file tells it.

## Fairness

`OrderBook!Fairness`: the loop of a call in progress goes on; one thread, and
nothing in the loop waits. `MarketDataFeed!FeedFairness`: over a transport that
only repeats frames (`Reliable`), each arrives, which is the caller's loop over the
events of a result (`tests/exsim_tests.cpp:67`). No call is ever required to happen. There is no
liveness over a transport that loses or reorders: after a gap the decoder waits
for ever, and nothing in the code resets it.

## Proofs

What is proved holds for every value of the constants that meets the named
assumptions of the modules; a hypothesis beyond them is part of the theorem. Two
techniques recur. What a recursive function computes is shown by a least
counterexample (`LeastNumber`): the least index at which the claim fails has a
predecessor at which it holds, and one step of the function refutes it. Where a
structure is defined by a walk, the proof carries the sequence that the walk
would give, and shows afterwards that it gives it.

### The book

`OrderBookProofs`, for every ladder, set of ids, accounts, prices and quantities
and every width of `Qty` (`LadderAssumption`, `InputAssumption`, `QtyAssumption`):

* `TypeCorrect`: `Spec => []TypeOK`
* `RepresentationCorrect`: `Spec => []RepOK`
* `FeedRepresentationCorrect`: `FeedSpec => []RepOK`
* `NeverCrossed`: `Spec => []Uncrossed`

The inductive invariant is `TypeOK /\ RepOK`, where `RepOK` says that slots are
either active or free and free only once (`PoolOK`), that the index is the
inverse of the ids of the active slots (`IndexOK`), that each active slot lies
at the level of its price (`PlacedOK`) with something left (`OpenOK`), that each
level is a line of its members linked both ways (`LinesOK`), and that the
occupied levels, the counts and the cached bests are those of the lines
(`BestOK`). A line is a sequence of slots that exists, not one that is computed:
appending and removing give the new sequence explicitly. `TakerNotResting` is
needed because an order rests some steps after its id was found free. The lemmas
follow the private methods: what `AllocNode`, `AppendToLevel`, `Unlink`,
`ClearOccupied`, `FreeNode` do to each conjunct, then one lemma per action.
`NeverCrossed` strengthens `Uncrossed` to "the occupied bid levels are below the
occupied ask levels", which `Rest` keeps because the loop ended with nothing to
cross.

`PriorityProofs`, from the same assumptions:

* `PriceTimePriority`: `Spec => ImplementsPriceTime`
* `EventsExplain`: `Spec => EventsExplainBook`
* `CallsKeepOutcome`: `Spec => LoopKeepsOutcome`
* `QueuesCorrect`: `Spec => []QueuesOK`

`QueuesOf` walks the links; `WalkIsLine` shows that the walk of a level is the
line `LinesOK` has for it. From there on every operation is a statement about two
lines: `RestOrderQueues`, `RemoveNodeQueues` and `ExecuteHeadQueues` say that the
queues of the new book are `Joined`, `Without` and `Reduced` of those of the old;
`BestHeadFirst` that the head of the cached best level is the first in line. Then
each action of `OrderBook` is shown to be an action of `PriceTimeBook` with the
same events or the same refusal.

For `CallsKeepOutcome` the iteration that `OrderBook` takes is compared with the
loop of `BookCalls`, which makes one more iteration than orders rest. Begun before
a trade, that loop is one iteration ahead of the one begun after it
(`IterationAhead`, `AdmittedStep`). A trade that fills its order leaves one order
fewer, so the two end in the same iteration; one that does not leaves nothing of
the taker, and the loop stands still. `QueuesOK` is `GoodBook` of the queues of the
book: what `CallProofs` and `ExchangeProofs` take a book for, of which
`QueuesCorrect` says that `OrderBook` keeps it.

### Manager, risk engine and exchange

`CallProofs` has lemmas about the operators on queues: in a book with no id twice
(`GoodBook`), what `Joined`, `Without` and `Reduced` leave, that the matching loop
of a call is over after as many iterations as orders rest, and that everything
that rests after a call rested before, at its place and with at least as much
left (`StemsFrom`), or is the new order.

`ExchangeProofs`, for every set of symbols, accounts and commands, all limits and
any number of calls:

| Theorem | States | Hypothesis |
|---|---|---|
| `ExchangeTypeCorrect` | `Spec => []TypeOK` | |
| `IndexSafe` | `Spec => []IndexNeverDangles` | |
| `IndexCorrect` | `Spec => []IndexAgrees` | `Disciplined` |
| `RefusalsCorrect` | `Spec => RefusalsTakeOneOrder` | |
| `OrderLimitsCorrect` | `Spec => []OrderLimitsHold` | `LadderDoesNotWrap` |
| `ReplayCorrect` | `Spec => []ReplayRebuilds` | `Journaling` |
| `OpenOrdersStayCapped` | `Spec => OpenOrdersCapped` | `Disciplined` |
| `RiskCorrect` | `Spec /\ []TotalsFit => []RiskTracksBooks` | `Disciplined` |
| `RiskCorrectInRuns` | `Spec => []RiskTracksBooks` | `Disciplined`, `LadderDoesNotWrap`, `RunFits` |

`Disciplined` and `Journaling` are constants of `Exchange`, explained above; what
clients can do without the first is shown by the run `feed_replace` and the notes
on it. `LadderDoesNotWrap` is `MaxPrice * max_order_qty <
NotionalModulus`: with the default ladder of 200,000 prices
(`include/exsim/core/order_book.hpp:38`) and quantities of at most 100,000
(`include/exsim/core/risk.hpp:12`) the left side is far below 2^64. It speaks of
the ladder only: off the ladder the notional may still wrap and pass the limit,
and the proof needs that such an order is then refused by the book.

`ExchangeInv` is the inductive invariant: a manager of books with no id twice
whose index never dangles (`GoodManager`), accounts that keep their types
(`GoodAccounts`), and numbered events. With discipline `TidyInv` adds that the
index has every resting order (`Indexed`): a new id that rests nowhere keeps it
so, one that rests would leave two orders for one entry. `LimitInv` adds the
limits of every resting order, which `StemsFrom` carries through a call: what
rests is only what rested, or the order that has just passed the check.
`ReplayInv` says that a replay of the journal so far would have the books and
accounts of the exchange. It rests on `ApplyAgrees`: what `apply_sequenced` makes
of books and accounts does not depend on the two numbers, in which the replay may
lag behind by the frames that were refused.

The accounts are told of a command by its events, once it is over, so between
`check` and the last event they agree with no book. `Tells` of `CallProofs` gives
a book for each event of a call; `StepOrders` says of two such books that one
order joined, one left or one was reduced, and `TakenTracks` that the event in
between does the same to the count and the worth of its account. What is left of
an order, and whether its id still rests after the command, which is what
`on_market_data` asks, are the same at an event only because no id leaves and
comes back in one call (`Orderly`). `CountInv` and `ValueInv` carry that from
call to call. Sums over the orders of an account are `MapThenSumSet`, a recursive
function over a choice of elements: that a sum grows by the element added
(`TotalOf...`) is shown by a smallest set that fails. `TotalsFit` says that no
account's worth reaches `NotionalModulus`; past it the equality is lost for good,
for `open_notional` saturates at 0 where it is reduced. `RiskCorrectInRuns`
replaces it by constants: after n calls an account has at most n orders
(`SizeInv`), each under the limit of one order, so `RunFits`, which is `MaxSeq *
max_order_notional < NotionalModulus`, keeps the worth below the width. With the
default limit of 10,000,000,000 (`include/exsim/core/risk.hpp:13`) and 64 bits
that is true of a run of 1.8 thousand million calls. `OpenOrdersStayCapped` needs
no sums of worth: the count of an account grows by the order of the call alone,
and `check` refused it at the limit, but for the replacement of another account's
order, which it lets pass (`src/risk.cpp:43`) and which the property excepts.

`RefusalsCorrect` asks nothing of clients. A refusal of `Validate`, of the risk
check or of the ladder comes before any book is touched; the one that comes after
is that of `add_order` in `replace_order`, when the old order is cancelled
(`ReplaceRefusedLeaves`). The index changes by `Booked`, which touches the ids
added, erased or gone from the book (`BookedIndexChange`), and these are the ids
of the command.

### The feed

`FeedProofs`, for every transport of `FaultSets`, with `Disciplined` as hypothesis:

* `FeedCorrect`: `MdSpec => []SubscriberIsPrefix`
* `SubscriberCorrect`: `MdSpec => []SubscriberAgrees`

Without the hypothesis the run `feed_replace` refutes the second.

A call of the exchange changes its book as a whole; a subscriber gets the events
of the call one at a time. `Tells` of `CallProofs` says
that the events, applied one by one as `Joined`, `Reduced` and `Without`, make the
queues the call left: each iteration of the loop adds one, and a cancel and the
add after it are joined (`BothTell`). `NextTells` of `ExchangeProofs` says so of
every step of the exchange, for one book of the manager, with numbers that follow.
`EventApplied` adds the index: `ManagerWith(m, s, q)` is a manager with `q` for its
book `s` and the index that belongs to it, and `apply_event` takes it to
`ManagerWith(m, s, c)` when the event takes `q` to `c`. A manager whose index is
complete is known by its books (`KnownByBooks`), so after the last event the
subscriber's is the one of the exchange, though the exchange removes ids from its
index in another way (`Booked`) than the subscriber (`FeedBooked`).

The inductive invariant `FeedInv` has the managers between the subscriber's and
the exchange's, one per event of `behind` (`Leads`), and says of each frame on its
way that it is one of `behind` or has a number below `expected`. After a restart
this holds of the new run's frames as long as the subscriber is not overtaken. So
the one frame the decoder takes is the first of `behind`, which succeeds.
`LeadsIsCaughtUp` turns the managers into what `CaughtUp` computes.

### The benchmark

`FeedProofs`, for every set of symbols, ids and commands and any number of
iterations, with `Disciplined` as hypothesis:

* `TrackingCorrect`: `BenchSpec => []TracksLive`
* `VerificationCorrect`, with `Journaling` and `GeneratesValid`:
  `BenchSpec => []VerificationPasses`
* `GeneratorObeys`, for ids that are numbers: `BenchSpec => []DrawnObey`

`GeneratesValid` says that `validate_client_command` refuses none of the
commands, which is true of what the load generator draws
(`bench/bench_exchange_replay.cpp:143-145`, `:185-197`: accounts, symbols and
quantities are above 0, and prices too as long as the spread and the jitter on the
command line stay below 100,000 together; a replay knows nothing of a refused
frame, see `replay_bad_frame`). `GeneratorObeys` says that `Disciplined` leaves
out no command it can draw, because its ids rise (`FreshInv`).

The invariant `BenchInv` says that the subscriber is exactly where the exchange
is, and that the list has what rests in the books, each id once and at the place
noted (`Tracking`). `TrackAddDoes` and `TrackRemoveDoes` keep the second part for
one id, also when the id removed is the last one. Within a call the list follows the
books event by event (`CallTracked`), but an executed order is looked up in the
books as the call left them. That comes to the same because no event of the
call adds an order again after an `Execute` of its id (`Orderly`). The subscriber
takes the frames one after the other to where the call went (`SubscriberFollows`,
from the `Leads` of the feed). For the verification, `VerifyInv` adds to the
invariant of `ReplayCorrect` that every call is in the journal and that none
throws (`BookedNeverThrows`: a new order names a symbol that has a book).

### The journal and recovery

`JournalProofs`, for every set of records and all sizes (`SizeAssumption`,
`RecordAssumption`):

* `JournalTypeCorrect`: `JournalSpec => []JournalTypeOK`
* `ReadsBackCorrect`: `JournalSpec => []ReadsWhatWasAppended`
* `JournalCorrect`: `JournalSpec => []FlushedReadsBack`
* `CleanEndCorrect`: `JournalSpec => CleanEndIsTheEnd`

`Reopen` is a step of `JournalSpec` at any time nobody writes, also while a reader
is open. The invariant adds two facts to the type and the two properties.
`OwedIsThere`: what a reader was promised when it was opened is still in the file,
unless power was lost, in which case the reader is gone, or the file was
truncated, in which case nothing is owed. It is needed because `owed` is compared
with a reader that ends many steps later, after more of the file was written.
`HeldIsOld`: what a reader has in its buffer of a truncated file are the first
bytes of the record it comes to next, of a run that was overwritten; a record made
of them is that one, or the new run's.

`RecoveryProofs`, for any number of crashes, restarts and replays, in any order,
and of damaged files, with `Journaling` as hypothesis:

* `RecoveryCorrect`: `RecoverySpec => []RecoversAPast`
* `FlushCorrect`: `RecoverySpec => []FlushedIsNow`
* `RecoveryReadsBack`: `RecoverySpec => [](JournalTypeOK /\ ReadsWhatWasAppended
  /\ FlushedReadsBack)`

The invariant joins `ExchangeInv` and that of `JournalProofs` with three parts:
each past state leads to the next by the stream's record (`HistoryInv`); the
stream is this run's, with all records of the journal as long as no write failed,
or an earlier run's and broken (`StreamInv`); a replay that has read n records of
a file that was not truncated is the n-th past state (`RebuiltInv`). That one state `Leads` to another is said of every exchange that
looks like the first, because the replay has other sequence numbers than the
exchange had; `ApplyAgrees` is again the reason.

### The rate limit

`RateWindowProofs`, for every window, limit, `Slack` and set of times
(`LimitAssumption`, `RateAssumption`):

* `QueueCorrect`: `RateSpec => []QueueIsTail`
* `LimitCorrect`: `RateSpec => RefusedOnlyOverLimit /\ PassedOnlyUnderLimit`

The invariant is `QueueIsTail` with `TimesFollow`: no message let through is
ahead of the latest time, nor behind an earlier one by more than `Slack`. A
refused message finds a queue whose first entry is recent; the others are at most
`Slack` older, so all of them count in the longer window. What was dropped was
too old at some time at most `Slack` ahead, so none of it counts in the shorter.

### Only model-checked

* `RateLimitExact`: `RateWindowProofs` has the window of one account on its own.
* `LevelTotalsExact`, `MirrorAgrees`: equalities modulo the width of `Qty`, which
  are not inductive once a total has wrapped (`book_mirror_wrap`).
* `WordsAgree`, `WalkVisitsAll`: arithmetic with powers of two.
* `ToolAgreesUnlessLimited`: two instances of the exchange.
* `DecodesWhatWasSent`, `EncodersAgree`, `UndamagedIsDecoded`: sequences of bytes put
  together by folds over the fields of a layout.
* `CallReturns`, `SubscriberCatchesUp`: liveness, which the prover does not reach.

## Not modelled

* Collisions of `fnv1a64` and `hash_combine`; `RiskEngine::checksum()`, which goes
  over an unordered map, and `Exchange::checksum()`, which nothing compares.
* The ladder shift per symbol: all books have one ladder.
* An order with id 0, which only a direct `process_command` could enter; the
  negation of the least price in `notional()`, which is undefined.
* `FeedDecoder::reset`, which nothing calls; `slot zero` of `books_`, which nothing
  reaches.
* A record length so large that the reader's allocation fails; a frame of more
  than 65,535 bytes, which no message makes.
* What a subscriber makes of the events of a new run once it takes them: they are
  applied to the books of the old one.
* Clocks, percentiles and printing of the benchmark; the tests.

## Plan

1. Done: every component that keeps state, with runs; proofs of the book and its
   refinement, the exchange and its replay, the feed, the benchmark, the journal and
   recovery, the rate limit.
2. The ladder shift per symbol, as a ladder per book.
