---------------------------- MODULE ExchangeProofs ----------------------------
(***************************************************************************)
(* The exchange keeps its index and its books together, whatever clients   *)
(* send, a replay of its journal rebuilds it, and its accounts hold what   *)
(* its books have of each account: proved for every set of symbols,        *)
(* accounts, ids, commands, limits and for any ladder.                     *)
(***************************************************************************)
EXTENDS Exchange, CallProofs

-----------------------------------------------------------------------------
(* The manager of the books. *)

GoodManager(m) ==
  /\ m = [books |-> m.books, order_to_symbol |-> m.order_to_symbol]
  /\ m.books = [s \in Symbols |-> m.books[s]]
  /\ \A s \in Symbols : GoodBook(m.books[s])
  /\ m.order_to_symbol \in [OrderIds -> Symbols \cup {kNoSymbol}]
  /\ \A id \in OrderIds : m.order_to_symbol[id] # kNoSymbol =>
                            id \in LiveIds(m.books[m.order_to_symbol[id]])

(* The index has every resting order. *)
Indexed(m) ==
  \A s \in Symbols : \A id \in LiveIds(m.books[s]) : m.order_to_symbol[id] = s

(* A command for Execute: what the risk engine or book() let through. *)
Executable(m, cmd) ==
  /\ cmd \in Command
  /\ cmd.account_id \in Accounts
  /\ cmd.type # "Cancel" => cmd.order_id \in OrderIds
  /\ cmd.type = "New" => HasBook(cmd)
  /\ cmd.type # "New" => ContainsOrder(m, cmd.cancel_order_id)

(* A command that cannot fail half way: its id is free, and a replacement has the *)
(* terms of an order.                                                             *)
Tidy(m, cmd) ==
  /\ cmd.type = "New" => ~ ContainsOrder(m, cmd.order_id)
  /\ cmd.type = "Replace" =>
       /\ ~ ContainsOrder(m, cmd.order_id) \/ cmd.order_id = cmd.cancel_order_id
       /\ PriceInBand(cmd.price) /\ cmd.qty # 0

(* All orders of the books of m1 rested in those of m or are what is left of cmd. *)
ManagerStems(m1, m, cmd) == \A s \in Symbols : StemsFromOr(m1.books[s], m.books[s], cmd)

(* All of them rested in those of m. *)
ManagerKeeps(m1, m) == \A s \in Symbols : StemsFrom(m1.books[s], m.books[s])

(* The events evs are those of book s, and make its queues in n of those in m. *)
OneBookTells(s, md, evs, m, n) ==
  /\ md \in Seq(BookEvents) /\ evs = Stamped(s, md)
  /\ Tells(md, m.books[s], n.books[s])
  /\ \A t \in Symbols \ {s} : n.books[t] = m.books[t]
  /\ \A k \in DOMAIN md : md[k].type # "Add" => md[k].order_id \in LiveIds(m.books[s])

(* What a call of the manager leaves and reports. *)
ManagerDoes(c, m, cmd) ==
  /\ GoodManager(c.manager)
  /\ ManagerStems(c.manager, m, cmd)
  /\ cmd.type = "Cancel" => ManagerKeeps(c.manager, m)
  /\ c.md \in Seq(PublishedEvents)
  /\ \A k \in DOMAIN c.md : c.md[k].account_id \in Accounts
  /\ \E s \in Symbols : \E md : OneBookTells(s, md, c.md, m, c.manager)

LEMMA NotionalType ==
  ASSUME NEW price \in Int, NEW qty \in Nat
  PROVE  Value(price, qty) \in Nat /\ Notional(price, qty) \in 0 .. NotionalModulus - 1
  <1>1. PICK size : size = IF price < 0 THEN - price ELSE price
    OBVIOUS
  <1>2. size \in Nat
    BY <1>1
  <1>3. size * qty \in Nat
    BY <1>2
  <1>4. Value(price, qty) = size * qty
    BY <1>1 DEF Value
  <1> QED
    BY <1>3, <1>4, LimitAssumption DEF Notional

LEMMA NoSymbolIsNone == kNoSymbol \notin Symbols
  BY SymbolAssumption DEF kNoSymbol

LEMMA EmptyManagerGood == GoodManager(EmptyManager) /\ Indexed(EmptyManager)
  <1>1. /\ EmptyManager.books = [s \in Symbols |-> EmptyQueues]
        /\ EmptyManager.order_to_symbol = [id \in OrderIds |-> kNoSymbol]
        /\ EmptyManager = [books |-> EmptyManager.books,
                           order_to_symbol |-> EmptyManager.order_to_symbol]
    BY DEF EmptyManager
  <1>2. \A s \in Symbols : EmptyManager.books[s] = EmptyQueues
    BY <1>1
  <1>3. EmptyManager.books = [s \in Symbols |-> EmptyManager.books[s]]
    BY <1>1
  <1> QED
    BY <1>1, <1>2, <1>3, EmptyGood DEF GoodManager, Indexed

(* The events of a book, stamped with its symbol. *)
LEMMA StampedType ==
  ASSUME NEW s \in Symbols, NEW md \in Seq(BookEvents),
         NEW out, out = Stamped(s, md)
  PROVE  /\ out \in Seq(PublishedEvents) /\ DOMAIN out = DOMAIN md
         /\ \A k \in DOMAIN out : out[k].account_id \in Accounts
  <1>1. PICK n : n = Len(md)
    OBVIOUS
  <1>2. n \in Nat /\ DOMAIN md = 1 .. n
    BY <1>1
  <1> DEFINE Mark(e) ==
               [type |-> e.type, symbol_id |-> s, order_id |-> e.order_id,
                account_id |-> e.account_id, side |-> e.side, price |-> e.price,
                qty |-> e.qty, reason |-> "None"]
  <1>3. out = [k \in 1 .. n |-> Mark(md[k])]
    BY <1>2 DEF Stamped
  <1>4. \A k \in 1 .. n : md[k] \in BookEvents
    BY <1>2
  <1>5. ASSUME NEW e \in BookEvents
        PROVE  Mark(e) \in PublishedEvents /\ Mark(e).account_id \in Accounts
    <2>1. s \in Nat /\ e.price \in Int
      BY SymbolAssumption, LadderAssumption DEF BookEvents, Band
    <2>2. /\ e.type \in {"Add", "Cancel", "Execute", "Reject"} /\ e.order_id \in OrderIds
          /\ e.account_id \in Accounts
          /\ e.side \in Sides /\ e.qty \in Nat
      BY DEF BookEvents
    <2>3. "None" \in RejectReasons
      BY DEF RejectReasons, BookRejects
    <2> QED
      BY <2>1, <2>2, <2>3 DEF PublishedEvents
  <1> HIDE DEF Mark
  <1>6. \A k \in 1 .. n : out[k] \in PublishedEvents /\ out[k].account_id \in Accounts
    BY <1>2, <1>3, <1>4, <1>5
  <1>7. out \in [1 .. n -> PublishedEvents]
    BY <1>3, <1>6
  <1> QED
    BY <1>2, <1>6, <1>7

(* What Booked makes of the answer of a book. *)
LEMMA BookedAnswers ==
  ASSUME NEW m, NEW s, NEW call, NEW id, NEW erased
  PROVE  /\ Booked(m, s, call, erased, id).reject = call.reject
         /\ Booked(m, s, call, erased, id).md = Stamped(s, call.md)
  BY DEF Booked, Outcome

ManagerOf(bs, index) == [books |-> bs, order_to_symbol |-> index]

BooksAfter(m, s, call) == [m.books EXCEPT ![s] = call.queues]

IndexAfter(m, s, call, erased, id) ==
  Reindexed(m.order_to_symbol, erased \cup Gone(call.queues, call.md), call.queues, s, id)

LEMMA BookedManager ==
  ASSUME NEW m, NEW s, NEW call, NEW id, NEW erased, NEW n,
         n = Booked(m, s, call, erased, id).manager
  PROVE  /\ n = ManagerOf(n.books, n.order_to_symbol)
         /\ n.books = BooksAfter(m, s, call)
         /\ n.order_to_symbol = IndexAfter(m, s, call, erased, id)
  <1>1. PICK books1, index1 :
          /\ books1 = BooksAfter(m, s, call)
          /\ index1 = IndexAfter(m, s, call, erased, id)
    OBVIOUS
  <1>2. n = ManagerOf(books1, index1)
    BY <1>1 DEF Booked, Outcome, ManagerOf, BooksAfter, IndexAfter
  <1>3. n.books = books1 /\ n.order_to_symbol = index1
    BY <1>2 DEF ManagerOf
  <1> QED
    BY <1>1, <1>2, <1>3

(* The index after a call of book s, with the ids that left it. *)
LEMMA BookedGood ==
  ASSUME NEW m, GoodManager(m), NEW s \in Symbols, NEW call, NEW o, NEW erased,
         o.order_id \in OrderIds, CallDoes(call, m.books[s], o, erased),
         NEW c, c = Booked(m, s, call, erased, o.order_id),
         NEW gone, gone = erased \cup Gone(call.queues, call.md)
  PROVE  GoodManager(c.manager) /\ ManagerStems(c.manager, m, o)
  <1>1. PICK n, books1, index1, id0 :
          /\ n = Booked(m, s, call, erased, id0).manager /\ id0 = o.order_id
          /\ books1 = n.books /\ index1 = n.order_to_symbol
    OBVIOUS
  <1>2. /\ n = ManagerOf(n.books, n.order_to_symbol)
        /\ n.books = BooksAfter(m, s, call)
        /\ n.order_to_symbol = IndexAfter(m, s, call, erased, id0)
    BY <1>1, BookedManager
  <1>3. n = ManagerOf(books1, index1)
    BY <1>1, <1>2
  <1>4. /\ books1 = BooksAfter(m, s, call)
        /\ index1 = Reindexed(m.order_to_symbol, gone, call.queues, s, id0)
    BY <1>1, <1>2 DEF IndexAfter
  <1>5. /\ GoodBook(call.queues)
        /\ StemsFromOr(call.queues, m.books[s], o)
        /\ \A id \in LiveIds(m.books[s]) :
             \/ id \in erased
             \/ id \in LiveIds(call.queues)
             \/ \E k \in DOMAIN call.md :
                  call.md[k].type = "Execute" /\ call.md[k].order_id = id
    BY DEF CallDoes
  <1>6. /\ books1 = [t \in Symbols |-> books1[t]]
        /\ \A t \in Symbols : books1[t] = IF t = s THEN call.queues ELSE m.books[t]
    <2>1. m.books = [t \in Symbols |-> m.books[t]]
      BY DEF GoodManager
    <2> QED
      BY <1>4, <2>1 DEF BooksAfter
  <1>7. \A t \in Symbols : GoodBook(books1[t])
    BY <1>5, <1>6 DEF GoodManager
  <1>9. /\ index1 = [id \in OrderIds |-> index1[id]]
        /\ \A id \in OrderIds :
             index1[id] = IF id = o.order_id /\ id \in LiveIds(call.queues) THEN s
                          ELSE IF id \in gone THEN kNoSymbol ELSE m.order_to_symbol[id]
    BY <1>1, <1>4 DEF Reindexed
  <1>10. m.order_to_symbol \in [OrderIds -> Symbols \cup {kNoSymbol}]
    BY DEF GoodManager
  <1>11. index1 \in [OrderIds -> Symbols \cup {kNoSymbol}]
    <2>1. \A id \in OrderIds : index1[id] \in Symbols \cup {kNoSymbol}
      BY <1>9, <1>10
    <2> QED
      BY <1>9, <2>1
  <1>12. ASSUME NEW id \in OrderIds, index1[id] # kNoSymbol
         PROVE  id \in LiveIds(books1[index1[id]])
    <2>1. CASE id = o.order_id /\ id \in LiveIds(call.queues)
      BY <1>6, <1>9, <2>1
    <2>2. CASE ~ (id = o.order_id /\ id \in LiveIds(call.queues))
      <3>1. id \notin gone /\ index1[id] = m.order_to_symbol[id]
        BY <1>9, <1>12, <2>2
      <3>2. PICK t : t = m.order_to_symbol[id]
        OBVIOUS
      <3>3. t \in Symbols /\ id \in LiveIds(m.books[t])
        BY <1>10, <1>12, <3>1, <3>2 DEF GoodManager
      <3>4. CASE t # s
        BY <1>6, <3>1, <3>2, <3>3, <3>4
      <3>5. CASE t = s
        <4>1. id \in LiveIds(call.queues)
          <5>1. ASSUME NEW k \in DOMAIN call.md,
                       call.md[k].type = "Execute" /\ call.md[k].order_id = id,
                       id \notin LiveIds(call.queues)
                PROVE  id \in gone
            BY <5>1 DEF Gone
          <5> QED
            BY <1>5, <3>1, <3>3, <3>5, <5>1
        <4> QED
          BY <1>6, <3>1, <3>2, <3>3, <3>5, <4>1
      <3> QED
        BY <3>4, <3>5
    <2> QED
      BY <2>1, <2>2
  <1>13. GoodManager(n)
    BY <1>1, <1>3, <1>6, <1>7, <1>11, <1>12 DEF GoodManager, ManagerOf
  <1>14. ManagerStems(n, m, o)
    <2> SUFFICES ASSUME NEW t \in Symbols PROVE StemsFromOr(books1[t], m.books[t], o)
      BY <1>1 DEF ManagerStems
    <2>1. StemsFromOr(m.books[t], m.books[t], o)
      BY StemsFromItself, StemsIsStemsOr DEF GoodManager, GoodBook
    <2> QED
      BY <1>5, <1>6, <2>1
  <1> QED
    BY <1>1, <1>13, <1>14

(* The events of a call tell what it did to the book. *)
LEMMA BookedTells ==
  ASSUME NEW m, GoodManager(m), NEW s \in Symbols, NEW call, NEW o, NEW erased,
         CallDoes(call, m.books[s], o, erased),
         NEW c, c = Booked(m, s, call, erased, o.order_id)
  PROVE  OneBookTells(s, call.md, c.md, m, c.manager)
  <1>1. PICK n, id0 : id0 = o.order_id /\ n = c.manager
                      /\ n = Booked(m, s, call, erased, id0).manager
    OBVIOUS
  <1>2. n.books = BooksAfter(m, s, call) /\ c.md = Stamped(s, call.md)
    BY <1>1, BookedManager, BookedAnswers
  <1>3. n.books[s] = call.queues /\ \A t \in Symbols \ {s} : n.books[t] = m.books[t]
    <2>1. m.books = [t \in Symbols |-> m.books[t]]
      BY DEF GoodManager
    <2> QED
      BY <1>2, <2>1 DEF BooksAfter
  <1> QED
    BY <1>1, <1>2, <1>3 DEF CallDoes, OneBookTells

(* The index stays complete if the new id is not used in another book. *)
LEMMA BookedIndexed ==
  ASSUME NEW m, GoodManager(m), Indexed(m), NEW s \in Symbols, NEW call, NEW o, NEW erased,
         o.order_id \in OrderIds, CallDoes(call, m.books[s], o, erased),
         m.order_to_symbol[o.order_id] \in {kNoSymbol, s},
         \A id \in erased : id \in LiveIds(m.books[s])
                            /\ (id # o.order_id => id \notin LiveIds(call.queues)),
         NEW c, c = Booked(m, s, call, erased, o.order_id)
  PROVE  Indexed(c.manager)
  <1>1. PICK gone, n, books1, index1 :
          /\ gone = erased \cup Gone(call.queues, call.md) /\ n = c.manager
          /\ books1 = n.books /\ index1 = n.order_to_symbol
    OBVIOUS
  <1>2. /\ books1 = BooksAfter(m, s, call)
        /\ index1 = Reindexed(m.order_to_symbol, gone, call.queues, s, o.order_id)
    <2>1. PICK id0 : id0 = o.order_id /\ n = Booked(m, s, call, erased, id0).manager
      BY <1>1
    <2>2. /\ n.books = BooksAfter(m, s, call)
          /\ n.order_to_symbol = IndexAfter(m, s, call, erased, id0)
      BY <2>1, BookedManager
    <2> QED
      BY <1>1, <2>1, <2>2 DEF IndexAfter
  <1>3. \A t \in Symbols : books1[t] = IF t = s THEN call.queues ELSE m.books[t]
    <2>1. m.books = [t \in Symbols |-> m.books[t]]
      BY DEF GoodManager
    <2> QED
      BY <1>2, <2>1 DEF BooksAfter
  <1>4. \A id \in OrderIds :
          index1[id] = IF id = o.order_id /\ id \in LiveIds(call.queues) THEN s
                       ELSE IF id \in gone THEN kNoSymbol ELSE m.order_to_symbol[id]
    BY <1>2 DEF Reindexed
  <1>5. /\ call.queues \in QueueBooks /\ m.books[s] \in QueueBooks
        /\ StemsFromOr(call.queues, m.books[s], o)
        /\ call.md \in Seq(BookEvents)
        /\ \A k \in DOMAIN call.md :
             call.md[k].type # "Add" => call.md[k].order_id \in LiveIds(m.books[s])
    BY DEF CallDoes, GoodBook, GoodManager
  <1>6. LiveIds(call.queues) \subseteq LiveIds(m.books[s]) \cup {o.order_id}
    BY <1>5, StemsOrLive
  <1>7. \A id \in gone : id \in LiveIds(m.books[s])
                         /\ (id # o.order_id => id \notin LiveIds(call.queues))
    BY <1>1, <1>5 DEF Gone
  <1>8. ASSUME NEW t \in Symbols, NEW id \in LiveIds(books1[t])
        PROVE  index1[id] = t
    <2>1. CASE t # s
      <3>1. id \in LiveIds(m.books[t]) /\ id \in OrderIds /\ m.order_to_symbol[id] = t
        BY <1>3, <1>8, <2>1 DEF Indexed, LiveIds
      <3>2. id \notin LiveIds(m.books[s])
        BY <2>1, <3>1 DEF Indexed
      <3>3. id # o.order_id
        BY <2>1, <3>1, NoSymbolIsNone
      <3> QED
        BY <1>4, <1>7, <3>1, <3>2, <3>3
    <2>2. CASE t = s
      <3>1. id \in LiveIds(call.queues) /\ id \in OrderIds
        BY <1>3, <1>8, <2>2 DEF LiveIds
      <3>2. CASE id = o.order_id
        BY <1>4, <2>2, <3>1, <3>2
      <3>3. CASE id # o.order_id
        <4>1. id \in LiveIds(m.books[s]) /\ id \notin gone
          BY <1>6, <1>7, <3>1, <3>3
        <4> QED
          BY <1>4, <2>2, <3>1, <3>3, <4>1 DEF Indexed
      <3> QED
        BY <3>2, <3>3
    <2> QED
      BY <2>1, <2>2
  <1> QED
    BY <1>1, <1>8 DEF Indexed

(* The order a command sends. *)
LEMMA OrderFromSent ==
  ASSUME NEW cmd \in Command, cmd.account_id \in Accounts, cmd.order_id \in OrderIds,
         NEW o, o = OrderFrom(cmd)
  PROVE  /\ o \in Sent
         /\ o.order_id = cmd.order_id /\ o.account_id = cmd.account_id /\ o.side = cmd.side
         /\ o.price = cmd.price /\ o.qty = cmd.qty
         /\ \A q, q0 : StemsFromOr(q, q0, o) <=> StemsFromOr(q, q0, cmd)
  <1>1. /\ cmd.side \in Sides /\ cmd.price \in Int /\ cmd.qty \in Nat
        /\ cmd.tif \in TimesInForce
    BY InputAssumption DEF Command
  <1>2. /\ o.order_id = cmd.order_id /\ o.account_id = cmd.account_id /\ o.side = cmd.side
        /\ o.price = cmd.price /\ o.qty = cmd.qty
    BY DEF OrderFrom
  <1>3. o \in Sent
    BY <1>1 DEF OrderFrom, Sent
  <1>4. \A q, q0 : StemsFromOr(q, q0, o) <=> StemsFromOr(q, q0, cmd)
    BY <1>2 DEF StemsFromOr
  <1> QED
    BY <1>2, <1>3, <1>4

(* A manager with the same books and index is the same. *)
LEMMA SameManager ==
  ASSUME NEW m, GoodManager(m), NEW n, GoodManager(n),
         \A s \in Symbols : n.books[s] = m.books[s],
         \A id \in OrderIds : n.order_to_symbol[id] = m.order_to_symbol[id]
  PROVE  n = m
  <1>1. n.books = m.books
    <2>1. n.books = [s \in Symbols |-> n.books[s]] /\ m.books = [s \in Symbols |-> m.books[s]]
      BY DEF GoodManager
    <2> QED
      BY <2>1
  <1>2. n.order_to_symbol = m.order_to_symbol
    BY DEF GoodManager
  <1> QED
    BY <1>1, <1>2 DEF GoodManager

LEMMA AddOrderDoes ==
  ASSUME NEW m, GoodManager(m), NEW cmd, Executable(m, cmd), cmd.type = "New",
         NEW c, c = AddOrder(m, cmd)
  PROVE  /\ ManagerDoes(c, m, cmd) /\ c.reject \in BookRejects
         /\ Indexed(m) /\ ~ ContainsOrder(m, cmd.order_id) =>
              /\ Indexed(c.manager)
              /\ c.reject # "None" => c.manager = m
  <1>1. PICK s, o, call : /\ s = cmd.symbol_id /\ o = OrderFrom(cmd)
                          /\ call = AddCall(m.books[s], o)
    OBVIOUS
  <1>2. /\ cmd \in Command /\ cmd.order_id \in OrderIds /\ cmd.account_id \in Accounts
        /\ s \in Symbols
    BY <1>1 DEF Executable, HasBook
  <1>3. /\ o \in Sent
        /\ o.order_id = cmd.order_id /\ o.account_id = cmd.account_id /\ o.side = cmd.side
        /\ o.price = cmd.price /\ o.qty = cmd.qty
        /\ \A q, q0 : StemsFromOr(q, q0, o) <=> StemsFromOr(q, q0, cmd)
    BY <1>1, <1>2, OrderFromSent
  <1>4. GoodBook(m.books[s])
    BY <1>2 DEF GoodManager
  <1>5. /\ CallDoes(call, m.books[s], o, {})
        /\ call.reject # "None" => call.queues = m.books[s] /\ call.md = <<>>
    BY <1>1, <1>3, <1>4, AddCallDoes
  <1>6. c = Booked(m, s, call, {}, o.order_id)
    BY <1>1, <1>3 DEF AddOrder
  <1>7. o.order_id \in OrderIds
    BY <1>2, <1>3
  <1>8. /\ GoodManager(c.manager) /\ ManagerStems(c.manager, m, o)
        /\ c.reject = call.reject /\ c.md = Stamped(s, call.md)
        /\ c.manager.books = BooksAfter(m, s, call)
        /\ c.manager.order_to_symbol =
             Reindexed(m.order_to_symbol, Gone(call.queues, call.md), call.queues, s, o.order_id)
    <2>1. PICK erased, gone : erased = {} /\ gone = erased \cup Gone(call.queues, call.md)
      OBVIOUS
    <2>2. /\ s \in Symbols /\ o.order_id \in OrderIds
          /\ CallDoes(call, m.books[s], o, erased)
          /\ c = Booked(m, s, call, erased, o.order_id)
      BY <1>2, <1>5, <1>6, <1>7, <2>1
    <2>3. GoodManager(c.manager) /\ ManagerStems(c.manager, m, o)
      BY <2>1, <2>2, BookedGood
    <2>4. PICK n, id0 : id0 = o.order_id /\ n = c.manager
                        /\ n = Booked(m, s, call, erased, id0).manager
      BY <2>2
    <2>5. /\ n.books = BooksAfter(m, s, call)
          /\ n.order_to_symbol = IndexAfter(m, s, call, erased, id0)
      BY <2>4, BookedManager
    <2>6. erased \cup Gone(call.queues, call.md) = Gone(call.queues, call.md)
      BY <2>1
    <2>7. c.reject = call.reject /\ c.md = Stamped(s, call.md)
      BY <2>2, BookedAnswers
    <2> QED
      BY <2>3, <2>4, <2>5, <2>6, <2>7 DEF IndexAfter
  <1>9. /\ call.reject \in BookRejects
        /\ c.md \in Seq(PublishedEvents)
        /\ \A k \in DOMAIN c.md : c.md[k].account_id \in Accounts
    BY <1>2, <1>5, <1>8, StampedType DEF CallDoes
  <1>10. ManagerStems(c.manager, m, cmd)
    BY <1>3, <1>8 DEF ManagerStems
  <1>11. ASSUME Indexed(m), ~ ContainsOrder(m, cmd.order_id)
         PROVE  Indexed(c.manager) /\ (c.reject # "None" => c.manager = m)
    <2>1. m.order_to_symbol[o.order_id] = kNoSymbol
      BY <1>3, <1>7, <1>11 DEF ContainsOrder
    <2>2. Indexed(c.manager)
      BY <1>2, <1>5, <1>6, <1>7, <1>11, <2>1, BookedIndexed
    <2>3. ASSUME c.reject # "None" PROVE c.manager = m
      <3>1. call.queues = m.books[s] /\ call.md = <<>>
        BY <1>5, <1>8, <2>3
      <3>2. \A t \in Symbols : c.manager.books[t] = m.books[t]
        <4>1. m.books = [t \in Symbols |-> m.books[t]]
          BY DEF GoodManager
        <4> QED
          BY <1>8, <3>1, <4>1 DEF BooksAfter
      <3>3. Gone(call.queues, call.md) = {}
        BY <3>1 DEF Gone
      <3>4. o.order_id \notin LiveIds(call.queues)
        <4>1. o.order_id \in LiveIds(m.books[s]) => m.order_to_symbol[o.order_id] = s
          BY <1>2, <1>11 DEF Indexed
        <4> QED
          BY <1>2, <2>1, <3>1, <4>1, NoSymbolIsNone
      <3>5. \A id \in OrderIds : c.manager.order_to_symbol[id] = m.order_to_symbol[id]
        BY <1>8, <3>3, <3>4 DEF Reindexed
      <3> QED
        BY <1>8, <3>2, <3>5, SameManager
    <2> QED
      BY <2>2, <2>3
  <1>12. OneBookTells(s, call.md, c.md, m, c.manager)
    BY <1>2, <1>5, <1>6, BookedTells
  <1> QED
    BY <1>2, <1>8, <1>9, <1>10, <1>11, <1>12 DEF ManagerDoes

LEMMA CancelOrderDoes ==
  ASSUME NEW m, GoodManager(m), NEW cmd, Executable(m, cmd), cmd.type = "Cancel",
         NEW c, c = CancelOrder(m, cmd.cancel_order_id)
  PROVE  /\ ManagerDoes(c, m, cmd) /\ c.reject = "None"
         /\ Indexed(m) => Indexed(c.manager)
  <1>1. PICK id, s, q, call :
          /\ id = cmd.cancel_order_id /\ s = m.order_to_symbol[id] /\ q = m.books[s]
          /\ call = CancelCall(q, id)
    OBVIOUS
  <1>2. id \in OrderIds /\ s # kNoSymbol
    BY <1>1 DEF Executable, ContainsOrder
  <1>3. s \in Symbols /\ GoodBook(q) /\ id \in LiveIds(q)
    BY <1>1, <1>2 DEF GoodManager
  <1>4. /\ call.queues = Without(q, id) /\ call.reject = "None"
        /\ call.md \in Seq(BookEvents) /\ Tells(call.md, q, call.queues)
        /\ \A k \in DOMAIN call.md : call.md[k].order_id = id
        /\ GoodBook(call.queues) /\ StemsFrom(call.queues, q)
        /\ LiveIds(call.queues) = LiveIds(q) \ {id}
    <2>1. call = CancelCall(q, id)
      BY <1>1
    <2> QED
      BY <1>3, <2>1, CancelCallDoes, SMTT(20)
  <1>5. PICK n, books1, index1 :
          /\ n = c.manager
          /\ books1 = [m.books EXCEPT ![s] = call.queues]
          /\ index1 = [m.order_to_symbol EXCEPT ![id] = kNoSymbol]
    OBVIOUS
  <1>6. c = [manager |-> [books |-> books1, order_to_symbol |-> index1],
             md |-> Stamped(s, call.md), reject |-> "None"]
    BY <1>1, <1>2, <1>4, <1>5 DEF CancelOrder, CancelFrom, Outcome
  <1>7. /\ n = [books |-> books1, order_to_symbol |-> index1]
        /\ c.reject = "None" /\ c.md = Stamped(s, call.md)
    BY <1>5, <1>6
  <1>8. n.books = books1 /\ n.order_to_symbol = index1
    BY <1>7
  <1>9. /\ books1 = [t \in Symbols |-> books1[t]]
        /\ \A t \in Symbols : books1[t] = IF t = s THEN call.queues ELSE m.books[t]
    <2>1. m.books = [t \in Symbols |-> m.books[t]]
      BY DEF GoodManager
    <2> QED
      BY <1>5, <2>1
  <1>10. /\ index1 \in [OrderIds -> Symbols \cup {kNoSymbol}]
         /\ \A x \in OrderIds : index1[x] = IF x = id THEN kNoSymbol ELSE m.order_to_symbol[x]
    <2>1. m.order_to_symbol \in [OrderIds -> Symbols \cup {kNoSymbol}]
      BY DEF GoodManager
    <2> QED
      BY <1>2, <1>5, <2>1
  <1>11. GoodManager(n)
    <2>1. \A t \in Symbols : GoodBook(books1[t])
      BY <1>4, <1>9 DEF GoodManager
    <2>2. \A x \in OrderIds : index1[x] # kNoSymbol => x \in LiveIds(books1[index1[x]])
      <3> SUFFICES ASSUME NEW x \in OrderIds, index1[x] # kNoSymbol
                   PROVE  x \in LiveIds(books1[index1[x]])
        OBVIOUS
      <3>1. PICK t : t = m.order_to_symbol[x]
        OBVIOUS
      <3>2. x # id /\ index1[x] = t
        BY <1>10, <3>1
      <3>3. t \in Symbols /\ x \in LiveIds(m.books[t])
        BY <3>1, <3>2 DEF GoodManager
      <3> QED
        BY <1>1, <1>4, <1>9, <3>2, <3>3
    <2> QED
      BY <1>7, <1>8, <1>9, <1>10, <2>1, <2>2 DEF GoodManager
  <1>12. ManagerStems(n, m, cmd) /\ ManagerKeeps(n, m)
    <2> SUFFICES ASSUME NEW t \in Symbols
                 PROVE  /\ StemsFromOr(books1[t], m.books[t], cmd)
                        /\ StemsFrom(books1[t], m.books[t])
      BY <1>8 DEF ManagerStems, ManagerKeeps
    <2>1. StemsFrom(m.books[t], m.books[t])
      BY StemsFromItself DEF GoodManager, GoodBook
    <2>2. StemsFrom(books1[t], m.books[t])
      BY <1>1, <1>4, <1>9, <2>1
    <2> QED
      BY <2>2, StemsIsStemsOr
  <1>13. ASSUME Indexed(m) PROVE Indexed(n)
    <2> SUFFICES ASSUME NEW t \in Symbols, NEW x \in LiveIds(books1[t])
                 PROVE  index1[x] = t
      BY <1>8 DEF Indexed
    <2>1. x \in LiveIds(m.books[t]) /\ (t = s => x # id)
      BY <1>1, <1>4, <1>9
    <2>2. x \in OrderIds /\ m.order_to_symbol[x] = t
      BY <1>13, <2>1 DEF Indexed, LiveIds
    <2> QED
      BY <1>1, <1>10, <2>1, <2>2
  <1>14. /\ c.md \in Seq(PublishedEvents)
         /\ \A k \in DOMAIN c.md : c.md[k].account_id \in Accounts
    BY <1>3, <1>4, <1>7, StampedType
  <1>15. OneBookTells(s, call.md, c.md, m, n)
    BY <1>1, <1>3, <1>4, <1>7, <1>8, <1>9 DEF OneBookTells
  <1> QED
    BY <1>3, <1>5, <1>7, <1>11, <1>12, <1>13, <1>14, <1>15 DEF ManagerDoes

(* A replacement whose new id is unused, or the old one, and whose terms are *)
(* those of an order, is not refused.                                        *)
LEMMA ReplaceOrderDoes ==
  ASSUME NEW m, GoodManager(m), NEW cmd, Executable(m, cmd), cmd.type = "Replace",
         NEW c, c = ReplaceOrder(m, cmd)
  PROVE  /\ ManagerDoes(c, m, cmd) /\ c.reject \in BookRejects
         /\ /\ Indexed(m) /\ PriceInBand(cmd.price) /\ cmd.qty # 0
            /\ ~ ContainsOrder(m, cmd.order_id) \/ cmd.order_id = cmd.cancel_order_id
            => Indexed(c.manager) /\ c.reject = "None"
  <1>1. PICK old, s, q, o, call :
          /\ old = cmd.cancel_order_id /\ s = m.order_to_symbol[old] /\ q = m.books[s]
          /\ o = OrderFrom(cmd) /\ call = ReplaceCall(q, old, o)
    OBVIOUS
  <1>2. /\ cmd \in Command /\ cmd.order_id \in OrderIds /\ cmd.account_id \in Accounts
        /\ old \in OrderIds /\ s # kNoSymbol
    BY <1>1 DEF Executable, ContainsOrder
  <1>a. s \in Symbols /\ GoodBook(q) /\ old \in LiveIds(q)
    BY <1>1, <1>2 DEF GoodManager
  <1>3. /\ o \in Sent
        /\ o.order_id = cmd.order_id /\ o.account_id = cmd.account_id /\ o.side = cmd.side
        /\ o.price = cmd.price /\ o.qty = cmd.qty
        /\ \A b, q0 : StemsFromOr(b, q0, o) <=> StemsFromOr(b, q0, cmd)
    BY <1>1, <1>2, OrderFromSent
  <1>5. /\ CallDoes(call, q, o, {old})
        /\ o.price \in Band /\ old \in LiveIds(q) =>
             /\ call.reject = AddRefusal(LiveIds(q) \ {old}, o)
             /\ LiveIds(call.queues) \subseteq (LiveIds(q) \ {old}) \cup {o.order_id}
    <2>1. GoodBook(q) /\ o \in Sent /\ call = ReplaceCall(q, old, o)
      BY <1>1, <1>3, <1>a
    <2>2. PICK dropped, others : dropped = {old} /\ others = LiveIds(q) \ {old}
      OBVIOUS
    <2>3. /\ CallDoes(call, q, o, dropped)
          /\ o.price \in Band /\ old \in LiveIds(q) =>
               /\ call.reject = AddRefusal(others, o)
               /\ LiveIds(call.queues) \subseteq others \cup {o.order_id}
      BY <2>1, <2>2, ReplaceCallDoes
    <2> QED
      BY <2>2, <2>3
  <1>6. c = Booked(m, s, call, {old}, o.order_id)
    BY <1>1, <1>2, <1>3 DEF ReplaceOrder
  <1>7. o.order_id \in OrderIds
    BY <1>2, <1>3
  <1>8. /\ GoodManager(c.manager) /\ ManagerStems(c.manager, m, o)
        /\ c.reject = call.reject /\ c.md = Stamped(s, call.md)
    <2>1. PICK erased, gone : erased = {old} /\ gone = erased \cup Gone(call.queues, call.md)
      OBVIOUS
    <2>2. /\ s \in Symbols /\ o.order_id \in OrderIds
          /\ CallDoes(call, m.books[s], o, erased)
          /\ c = Booked(m, s, call, erased, o.order_id)
      BY <1>1, <1>5, <1>a, <1>6, <1>7, <2>1
    <2>3. GoodManager(c.manager) /\ ManagerStems(c.manager, m, o)
      BY <2>1, <2>2, BookedGood
    <2>4. c.reject = call.reject /\ c.md = Stamped(s, call.md)
      BY <2>2, BookedAnswers
    <2> QED
      BY <2>3, <2>4
  <1>9. /\ call.reject \in BookRejects
        /\ c.md \in Seq(PublishedEvents)
        /\ \A k \in DOMAIN c.md : c.md[k].account_id \in Accounts
    BY <1>a, <1>5, <1>8, StampedType DEF CallDoes
  <1>10. ManagerStems(c.manager, m, cmd)
    BY <1>3, <1>8 DEF ManagerStems
  <1>11. ASSUME Indexed(m), PriceInBand(cmd.price), cmd.qty # 0,
                ~ ContainsOrder(m, cmd.order_id) \/ cmd.order_id = cmd.cancel_order_id
         PROVE  Indexed(c.manager) /\ c.reject = "None"
    <2>1. \/ m.order_to_symbol[o.order_id] = kNoSymbol
          \/ o.order_id = old
      BY <1>1, <1>3, <1>7, <1>11 DEF ContainsOrder
    <2>2. /\ call.reject = AddRefusal(LiveIds(q) \ {old}, o)
          /\ LiveIds(call.queues) \subseteq (LiveIds(q) \ {old}) \cup {o.order_id}
          /\ PriceInBand(o.price) /\ o.qty # 0
      BY <1>3, <1>5, <1>a, <1>11 DEF PriceInBand
    <2>3. o.order_id \notin LiveIds(q) \ {old}
      <3>1. o.order_id \in LiveIds(q) => m.order_to_symbol[o.order_id] = s
        BY <1>1, <1>a, <1>11 DEF Indexed
      <3> QED
        BY <1>2, <2>1, <3>1
    <2>4. call.reject = "None"
      BY <2>2, <2>3 DEF AddRefusal
    <2>5. Indexed(c.manager)
      <3>1. m.order_to_symbol[o.order_id] \in {kNoSymbol, s}
        BY <1>1, <2>1
      <3>2. \A id \in {old} : id \in LiveIds(m.books[s])
                              /\ (id # o.order_id => id \notin LiveIds(call.queues))
        BY <1>1, <1>a, <2>2
      <3>3. CallDoes(call, m.books[s], o, {old})
        BY <1>1, <1>5
      <3> QED
        BY <1>a, <1>6, <1>7, <1>11, <3>1, <3>2, <3>3, BookedIndexed
    <2> QED
      BY <1>8, <2>4, <2>5
  <1>12. OneBookTells(s, call.md, c.md, m, c.manager)
    <2>1. PICK erased : erased = {old}
      OBVIOUS
    <2>2. CallDoes(call, m.books[s], o, erased) /\ c = Booked(m, s, call, erased, o.order_id)
      BY <1>1, <1>5, <1>6, <2>1
    <2> QED
      BY <1>a, <2>2, BookedTells
  <1> QED
    BY <1>a, <1>8, <1>9, <1>10, <1>11, <1>12 DEF ManagerDoes

LEMMA ExecuteDoes ==
  ASSUME NEW m, GoodManager(m), NEW cmd, Executable(m, cmd), NEW c, c = Execute(m, cmd)
  PROVE  /\ ManagerDoes(c, m, cmd) /\ c.reject \in BookRejects
         /\ Indexed(m) /\ Tidy(m, cmd) =>
              /\ Indexed(c.manager)
              /\ c.reject # "None" => c.manager = m
  <1>1. CASE cmd.type = "New"
    <2>1. c = AddOrder(m, cmd)
      BY <1>1 DEF Execute
    <2> QED
      BY <1>1, <2>1, AddOrderDoes DEF Tidy
  <1>2. CASE cmd.type = "Cancel"
    <2>1. c = CancelOrder(m, cmd.cancel_order_id)
      BY <1>2 DEF Execute
    <2>2. /\ ManagerDoes(c, m, cmd) /\ c.reject = "None"
          /\ Indexed(m) => Indexed(c.manager)
      BY <1>2, <2>1, CancelOrderDoes
    <2> QED
      BY <2>2 DEF BookRejects
  <1>3. CASE cmd.type = "Replace"
    <2>1. c = ReplaceOrder(m, cmd)
      BY <1>3 DEF Execute
    <2>2. /\ ManagerDoes(c, m, cmd) /\ c.reject \in BookRejects
          /\ /\ Indexed(m) /\ PriceInBand(cmd.price) /\ cmd.qty # 0
             /\ ~ ContainsOrder(m, cmd.order_id) \/ cmd.order_id = cmd.cancel_order_id
             => Indexed(c.manager) /\ c.reject = "None"
      BY <1>3, <2>1, ReplaceOrderDoes
    <2> QED
      BY <1>3, <2>2 DEF Tidy
  <1>4. cmd.type \in {"New", "Cancel", "Replace"}
    BY DEF Executable, Command
  <1> QED
    BY <1>1, <1>2, <1>3, <1>4

-----------------------------------------------------------------------------
(* The accounts of the risk engine. *)

AccountsTyped == [open_orders : Nat, open_notional : Nat, recent_msgs : Seq(Nat)]

GoodAccounts(ac) ==
  /\ ac \in [Accounts -> AccountsTyped]
  /\ \A a \in Accounts : Len(ac[a].recent_msgs) <= max_msgs_per_window

(* What is held against every account is the same. *)
SameHoldings(ac1, ac) ==
  \A a \in Accounts : /\ ac1[a].open_orders = ac[a].open_orders
                      /\ ac1[a].open_notional = ac[a].open_notional

(* The value of what is sent is within the limits, as the program computes it. *)
WithinLimits(cmd) ==
  cmd.qty <= max_order_qty /\ Notional(cmd.price, cmd.qty) <= max_order_notional

LEMMA NewAccountsGood == GoodAccounts([a \in Accounts |-> NewAccount])
  <1>1. NewAccount \in AccountsTyped /\ Len(NewAccount.recent_msgs) = 0
    BY DEF NewAccount, AccountsTyped
  <1> HIDE DEF NewAccount
  <1>2. PICK ac : ac = [a \in Accounts |-> NewAccount]
    OBVIOUS
  <1>3. ac \in [Accounts -> AccountsTyped] /\ \A a \in Accounts : ac[a] = NewAccount
    BY <1>1, <1>2
  <1>4. GoodAccounts(ac)
    BY <1>1, <1>3, LimitAssumption DEF GoodAccounts
  <1> QED
    BY <1>2, <1>4

(* The messages still recent are some of those that were. *)
LEMMA StillRecentType ==
  ASSUME NEW msgs \in Seq(Nat), NEW now \in Nat, NEW recent, recent = StillRecent(msgs, now)
  PROVE  recent \in Seq(Nat) /\ Len(recent) <= Len(msgs)
  <1>1. PICK kept : kept = {k \in DOMAIN msgs : now < msgs[k] \/ now - msgs[k] <= rate_window_ns}
    OBVIOUS
  <1>2. recent = IF kept = {} THEN <<>>
                 ELSE SubSeq(msgs, CHOOSE k \in kept : \A j \in kept : k <= j, Len(msgs))
    BY <1>1 DEF StillRecent
  <1>3. CASE kept = {}
    BY <1>2, <1>3
  <1>4. CASE kept # {}
    <2>1. kept \in SUBSET Nat
      BY <1>1
    <2>2. \E k \in kept : \A j \in kept : k <= j
      BY <1>4, <2>1, LeastNumber
    <2>3. PICK first : first = CHOOSE k \in kept : \A j \in kept : k <= j
      OBVIOUS
    <2>4. first \in DOMAIN msgs
      BY <1>1, <2>2, <2>3
    <2>5. recent = SubSeq(msgs, first, Len(msgs))
      BY <1>2, <1>4, <2>3
    <2>6. first \in 1 .. Len(msgs) /\ Len(msgs) \in Nat
      BY <2>4
    <2> QED
      BY <2>5, <2>6
  <1> QED
    BY <1>3, <1>4

WithMessages(ac, a, msgs) == [ac EXCEPT ![a].recent_msgs = msgs]

LEMMA WithMessagesDoes ==
  ASSUME NEW ac, GoodAccounts(ac), NEW a \in Accounts, NEW msgs \in Seq(Nat),
         Len(msgs) <= max_msgs_per_window, NEW ac1, ac1 = WithMessages(ac, a, msgs)
  PROVE  GoodAccounts(ac1) /\ SameHoldings(ac1, ac)
  <1>1. ac \in [Accounts -> AccountsTyped]
    BY DEF GoodAccounts
  <1>2. PICK old, new : old = ac[a] /\ new = [old EXCEPT !.recent_msgs = msgs]
    OBVIOUS
  <1>3. old \in AccountsTyped
    BY <1>1, <1>2
  <1>4. /\ new \in AccountsTyped /\ new.recent_msgs = msgs
        /\ new.open_orders = old.open_orders /\ new.open_notional = old.open_notional
    BY <1>2, <1>3 DEF AccountsTyped
  <1>5. ac1 = [ac EXCEPT ![a] = new]
    BY <1>2 DEF WithMessages
  <1>6. /\ ac1 \in [Accounts -> AccountsTyped] /\ ac1[a] = new
        /\ \A b \in Accounts : b # a => ac1[b] = ac[b]
    BY <1>1, <1>4, <1>5
  <1>7. GoodAccounts(ac1)
    BY <1>4, <1>6 DEF GoodAccounts
  <1>8. SameHoldings(ac1, ac)
    BY <1>2, <1>4, <1>6 DEF SameHoldings
  <1> QED
    BY <1>7, <1>8

LEMMA CheckDoes ==
  ASSUME NEW ac, GoodAccounts(ac), NEW cmd \in Command, cmd.account_id \in Accounts,
         NEW known \in BOOLEAN, NEW now \in Nat, NEW r, r = Check(ac, cmd, known, now)
  PROVE  /\ GoodAccounts(r.accounts) /\ SameHoldings(r.accounts, ac)
         /\ r.reason \in RejectReasons
         /\ r.reason = "None" => /\ cmd.type # "New" => known
                                 /\ cmd.type # "Cancel" => WithinLimits(cmd)
  <1>1. PICK a, recent, limited, refusal, next :
          /\ a = cmd.account_id /\ recent = StillRecent(ac[a].recent_msgs, now)
          /\ limited = (Len(recent) >= max_msgs_per_window)
          /\ refusal = OrderRefusal(ac[a], cmd, known)
          /\ next = IF limited THEN recent ELSE Append(recent, now)
    OBVIOUS
  <1>2. r = [accounts |-> WithMessages(ac, a, next),
             reason |-> IF limited THEN "RiskRateLimit" ELSE refusal]
    BY <1>1 DEF Check, WithMessages
  <1>3. /\ r.accounts = WithMessages(ac, a, next)
        /\ r.reason = IF limited THEN "RiskRateLimit" ELSE refusal
    BY <1>2
  <1>4. a \in Accounts /\ ac[a].recent_msgs \in Seq(Nat)
        /\ Len(ac[a].recent_msgs) <= max_msgs_per_window
    BY <1>1 DEF GoodAccounts, AccountsTyped
  <1>5. recent \in Seq(Nat) /\ Len(recent) <= Len(ac[a].recent_msgs)
    BY <1>1, <1>4, StillRecentType
  <1>6. next \in Seq(Nat) /\ Len(next) <= max_msgs_per_window
    <2>1. Len(recent) \in Nat /\ max_msgs_per_window \in Nat /\ Len(ac[a].recent_msgs) \in Nat
      BY <1>4, <1>5, LimitAssumption
    <2>2. CASE limited
      BY <1>1, <1>4, <1>5, <2>1, <2>2
    <2>3. CASE ~ limited
      <3>1. next = Append(recent, now) /\ Len(recent) < max_msgs_per_window
        <4>1. ~ (Len(recent) >= max_msgs_per_window)
          BY <1>1, <2>3, Zenon
        <4>2. next = Append(recent, now)
          BY <1>1, <2>3, Zenon
        <4> QED
          BY <2>1, <4>1, <4>2
      <3>2. next \in Seq(Nat) /\ Len(next) = Len(recent) + 1
        BY <1>5, <3>1
      <3> QED
        BY <2>1, <3>1, <3>2
    <2> QED
      BY <2>2, <2>3
  <1>7. GoodAccounts(r.accounts) /\ SameHoldings(r.accounts, ac)
    BY <1>3, <1>4, <1>6, WithMessagesDoes
  <1>8. /\ refusal \in RejectReasons
        /\ refusal = "None" => /\ cmd.type # "New" => known
                               /\ cmd.type # "Cancel" => WithinLimits(cmd)
    <2>1. cmd.type \in {"New", "Cancel", "Replace"} /\ cmd.qty \in Nat /\ max_order_qty \in Nat
      BY InputAssumption, LimitAssumption DEF Command
    <2>2. Notional(cmd.price, cmd.qty) \in Int /\ max_order_notional \in Nat
      <3>1. cmd.price \in Int /\ cmd.qty \in Nat
        BY InputAssumption DEF Command
      <3>2. Notional(cmd.price, cmd.qty) \in 0 .. NotionalModulus - 1
        BY <3>1, NotionalType
      <3> QED
        BY <3>2, LimitAssumption
    <2>3. refusal \in RejectReasons
      BY <1>1, <2>1 DEF OrderRefusal, RejectReasons, BookRejects
    <2>4. ASSUME refusal = "None", cmd.type # "New" PROVE known
      BY <1>1, <2>1, <2>4 DEF OrderRefusal
    <2>5. ASSUME refusal = "None", cmd.type # "Cancel" PROVE WithinLimits(cmd)
      <3>1. known \/ cmd.type = "New"
        BY <2>4, <2>5
      <3>2. ~ (cmd.qty > max_order_qty) /\ ~ (Notional(cmd.price, cmd.qty) > max_order_notional)
        BY <1>1, <2>1, <2>5, <3>1 DEF OrderRefusal
      <3> QED
        BY <2>1, <2>2, <3>2 DEF WithinLimits
    <2> QED
      BY <2>3, <2>4, <2>5
  <1>9. r.reason = "None" => ~ limited /\ refusal = "None"
    BY <1>3
  <1>10. r.reason \in RejectReasons
    BY <1>3, <1>8 DEF RejectReasons
  <1> QED
    BY <1>7, <1>8, <1>9, <1>10

LEMMA OnMarketDataDoes ==
  ASSUME NEW ac, GoodAccounts(ac), NEW ev \in PublishedEvents, ev.account_id \in Accounts,
         NEW live, NEW ac1, ac1 = OnMarketData(ac, ev, live)
  PROVE  GoodAccounts(ac1)
  <1>1. PICK a, n, old, left, held, new :
          /\ a = ev.account_id /\ n = Notional(ev.price, ev.qty) /\ old = ac[a]
          /\ left = CASE ev.type = "Add" -> old.open_orders + 1
                      [] ev.type = "Cancel" \/ (ev.type = "Execute" /\ ~ live) ->
                           AtLeast0(old.open_orders - 1)
                      [] OTHER -> old.open_orders
          /\ held = IF ev.type = "Add" THEN (old.open_notional + n) % NotionalModulus
                    ELSE AtLeast0(old.open_notional - n)
          /\ new = [old EXCEPT !.open_orders = left, !.open_notional = held]
    OBVIOUS
  <1>2. ac \in [Accounts -> AccountsTyped] /\ a \in Accounts
    BY <1>1 DEF GoodAccounts
  <1>3. old \in AccountsTyped
    BY <1>1, <1>2
  <1>4. old.open_orders \in Nat /\ old.open_notional \in Nat
    BY <1>3 DEF AccountsTyped
  <1>5. n \in Nat
    <2>1. ev.price \in Int /\ ev.qty \in Nat
      BY DEF PublishedEvents
    <2>2. n \in 0 .. NotionalModulus - 1
      BY <1>1, <2>1, NotionalType
    <2> QED
      BY <2>2, LimitAssumption
  <1>6. left \in Nat
    <2>1. AtLeast0(old.open_orders - 1) \in Nat /\ old.open_orders + 1 \in Nat
      BY <1>4 DEF AtLeast0
    <2>2. \/ left = old.open_orders + 1
          \/ left = AtLeast0(old.open_orders - 1)
          \/ left = old.open_orders
      BY <1>1, Zenon
    <2> QED
      BY <1>4, <2>1, <2>2
  <1>7. held \in Nat
    <2>1. AtLeast0(old.open_notional - n) \in Nat
      BY <1>4, <1>5 DEF AtLeast0
    <2>2. PICK sum : sum = old.open_notional + n
      OBVIOUS
    <2>3. sum % NotionalModulus \in Nat
      BY <1>4, <1>5, <2>2, LimitAssumption
    <2>4. held = sum % NotionalModulus \/ held = AtLeast0(old.open_notional - n)
      BY <1>1, <2>2, Zenon
    <2> QED
      BY <2>1, <2>3, <2>4
  <1>8. new \in AccountsTyped /\ new.recent_msgs = old.recent_msgs
    BY <1>1, <1>3, <1>6, <1>7 DEF AccountsTyped
  <1>9. ac1 = [ac EXCEPT ![a] = new]
    BY <1>1 DEF OnMarketData
  <1>10. /\ ac1 \in [Accounts -> AccountsTyped] /\ ac1[a] = new
         /\ \A b \in Accounts : b # a => ac1[b] = ac[b]
    BY <1>2, <1>8, <1>9
  <1>11. \A b \in Accounts : Len(ac1[b].recent_msgs) <= max_msgs_per_window
    <2>1. Len(old.recent_msgs) <= max_msgs_per_window /\ new.recent_msgs = old.recent_msgs
      BY <1>1, <1>2, <1>8 DEF GoodAccounts
    <2>2. \A b \in Accounts : b # a => Len(ac1[b].recent_msgs) <= max_msgs_per_window
      BY <1>10 DEF GoodAccounts
    <2> QED
      BY <1>10, <2>1, <2>2
  <1> QED
    BY <1>10, <1>11 DEF GoodAccounts

(* The accounts as a function of the number of events they have seen. *)
AccountStep(g, ac, md, m, k) ==
  IF k = 0 THEN ac
  ELSE OnMarketData(g[k - 1], md[k], ContainsOrder(m, md[k].order_id))

Accounted(g, ac, md, m, n) == g = [k \in 0 .. n |-> AccountStep(g, ac, md, m, k)]

LEMMA AccountedExists ==
  ASSUME NEW ac, NEW md, NEW m, NEW most \in Nat
  PROVE  \E g : Accounted(g, ac, md, m, most)
  <1> DEFINE Bad == {n \in 0 .. most : ~ \E g : Accounted(g, ac, md, m, n)}
  <1>1. SUFFICES ASSUME Bad # {} PROVE FALSE
    OBVIOUS
  <1>2. PICK n \in Bad : \A j \in Bad : n <= j
    <2>1. Bad \in SUBSET Nat
      OBVIOUS
    <2> HIDE DEF Bad
    <2> QED
      BY <1>1, <2>1, LeastNumber
  <1>3. n # 0
    <2> SUFFICES ASSUME n = 0 PROVE FALSE
      OBVIOUS
    <2>1. PICK g : g = [k \in 0 .. n |-> ac]
      OBVIOUS
    <2>2. Accounted(g, ac, md, m, n)
      BY <2>1 DEF Accounted, AccountStep
    <2> QED
      BY <2>2
  <1>4. n - 1 \in 0 .. most /\ n - 1 \notin Bad /\ n \in Nat
    BY <1>2, <1>3
  <1>5. PICK g : Accounted(g, ac, md, m, n - 1)
    BY <1>4
  <1>6. PICK h : h = [k \in 0 .. n |-> IF k = n THEN AccountStep(g, ac, md, m, n) ELSE g[k]]
    OBVIOUS
  <1>7. \A k \in 0 .. n - 1 : h[k] = g[k]
    BY <1>4, <1>6
  <1>8. \A k \in 0 .. n - 1 : g[k] = AccountStep(g, ac, md, m, k)
    BY <1>5 DEF Accounted
  <1>9. \A k \in 0 .. n : h[k] = AccountStep(h, ac, md, m, k)
    <2> TAKE k \in 0 .. n
    <2>1. CASE k = n
      <3>1. h[k] = AccountStep(g, ac, md, m, n)
        BY <1>6, <2>1
      <3>2. n - 1 \in 0 .. n - 1
        BY <1>3, <1>4
      <3>3. h[n - 1] = g[n - 1]
        BY <1>7, <3>2
      <3> QED
        BY <2>1, <3>1, <3>3 DEF AccountStep
    <2>2. CASE k # n
      <3>1. k \in 0 .. n - 1
        BY <1>4, <2>2
      <3>2. h[k] = AccountStep(g, ac, md, m, k)
        BY <1>7, <1>8, <3>1
      <3>3. k # 0 => h[k - 1] = g[k - 1]
        BY <1>4, <1>7, <3>1
      <3> QED
        BY <3>2, <3>3 DEF AccountStep
    <2> QED
      BY <2>1, <2>2
  <1>10. Accounted(h, ac, md, m, n)
    <2>1. h = [k \in 0 .. n |-> h[k]]
      BY <1>6
    <2> QED
      BY <1>9, <2>1, Zenon DEF Accounted
  <1> QED
    BY <1>10

LEMMA AccountForMdDoes ==
  ASSUME NEW ac, GoodAccounts(ac), NEW md \in Seq(PublishedEvents), NEW m,
         \A k \in DOMAIN md : md[k].account_id \in Accounts,
         NEW ac1, ac1 = AccountForMd(ac, md, m)
  PROVE  GoodAccounts(ac1)
  <1>1. PICK most : most = Len(md)
    OBVIOUS
  <1>2. most \in Nat /\ \A k \in 1 .. most : md[k] \in PublishedEvents /\ md[k].account_id \in Accounts
    BY <1>1
  <1>3. PICK g : g = CHOOSE f : Accounted(f, ac, md, m, most)
    OBVIOUS
  <1>4. Accounted(g, ac, md, m, most)
    BY <1>2, <1>3, AccountedExists
  <1>5. ac1 = g[most]
    BY <1>1, <1>3 DEF AccountForMd, Accounted, AccountStep
  <1>6. \A n \in 0 .. most : g[n] = AccountStep(g, ac, md, m, n)
    BY <1>4 DEF Accounted
  <1> DEFINE Bad == {n \in 0 .. most : ~ GoodAccounts(g[n])}
  <1>7. Bad = {}
    <2> SUFFICES ASSUME Bad # {} PROVE FALSE
      OBVIOUS
    <2>1. PICK n \in Bad : \A j \in Bad : n <= j
      <3>1. Bad \in SUBSET Nat
        OBVIOUS
      <3> HIDE DEF Bad
      <3> QED
        BY <3>1, LeastNumber
    <2>2. n # 0
      BY <1>6, <2>1 DEF AccountStep
    <2>3. n - 1 \in 0 .. most /\ n - 1 \notin Bad /\ n \in 1 .. most
      BY <1>2, <2>1, <2>2
    <2>4. PICK before, ev, live :
            before = g[n - 1] /\ ev = md[n] /\ live = ContainsOrder(m, md[n].order_id)
      OBVIOUS
    <2>5. GoodAccounts(before) /\ ev \in PublishedEvents /\ ev.account_id \in Accounts
      BY <1>2, <2>3, <2>4
    <2>6. g[n] = OnMarketData(before, ev, live)
      BY <1>6, <2>1, <2>2, <2>4 DEF AccountStep
    <2>7. GoodAccounts(g[n])
      BY <2>5, <2>6, OnMarketDataDoes
    <2> QED
      BY <2>7
  <1>8. most \in 0 .. most
    BY <1>2
  <1> QED
    BY <1>5, <1>7, <1>8

-----------------------------------------------------------------------------
(* The exchange. *)

ExchangeOf(ns, nm, m, ac) ==
  [next_seq |-> ns, next_md_seq |-> nm, manager |-> m, accounts |-> ac]

AnswerOf(e, accepted, reason, md, thrown) ==
  [exchange |-> e, accepted |-> accepted, reason |-> reason, thrown |-> thrown, md |-> md]

(* The answers to a command, by what the exchange is made of. *)
Refused(ns, nm, m, ac, cmd, reason) ==
  AnswerOf(ExchangeOf(ns, nm + 1, m, ac), FALSE, reason,
           Numbered(<<RejectEvent(cmd, reason)>>, nm), FALSE)

Taken(ns, nm, m, ac, md) ==
  AnswerOf(ExchangeOf(ns, nm + Len(md), m, AccountForMd(ac, md, m)), TRUE, "None",
           Numbered(md, nm), FALSE)

Thrown(ns, nm, m, ac) == AnswerOf(ExchangeOf(ns, nm, m, ac), FALSE, "None", <<>>, TRUE)

NoBook(cmd) == cmd.type = "New" /\ ~ HasBook(cmd)

LEMMA ExchangeParts ==
  ASSUME NEW ns, NEW nm, NEW m, NEW ac, NEW e, e = ExchangeOf(ns, nm, m, ac)
  PROVE  e.next_seq = ns /\ e.next_md_seq = nm /\ e.manager = m /\ e.accounts = ac
  BY DEF ExchangeOf

LEMMA RejectIs ==
  ASSUME NEW ns, NEW nm, NEW m, NEW ac, NEW cmd, NEW reason,
         NEW e, e = ExchangeOf(ns, nm, m, ac)
  PROVE  Reject(e, cmd, reason) = Refused(ns, nm, m, ac, cmd, reason)
  <1>1. [e EXCEPT !.next_md_seq = @ + 1] = ExchangeOf(ns, nm + 1, m, ac)
    BY DEF ExchangeOf
  <1>2. e.next_md_seq = nm
    BY ExchangeParts
  <1>3. PICK md, e1 : md = Numbered(<<RejectEvent(cmd, reason)>>, nm)
                      /\ e1 = ExchangeOf(ns, nm + 1, m, ac)
    OBVIOUS
  <1>4. Reject(e, cmd, reason) =
          [exchange |-> e1, accepted |-> FALSE, reason |-> reason, thrown |-> FALSE, md |-> md]
    BY <1>1, <1>2, <1>3 DEF Reject
  <1> QED
    BY <1>3, <1>4 DEF Refused, AnswerOf

(* An exchange with other accounts, and another of its sequence numbers. *)
MdNumbered(e, nm, ac) == [e EXCEPT !.next_md_seq = @ + nm, !.accounts = ac]

Sequenced(e, ns, ac) == [e EXCEPT !.next_seq = ns, !.accounts = ac]

LEMMA NumberedIs ==
  ASSUME NEW ns, NEW nm, NEW m, NEW ac, NEW n1, NEW ac1, NEW e, e = ExchangeOf(ns, nm, m, ac)
  PROVE  /\ MdNumbered(e, n1, ac1) = ExchangeOf(ns, nm + n1, m, ac1)
         /\ Sequenced(e, n1, ac1) = ExchangeOf(n1, nm, m, ac1)
  <1>1. PICK b, c : /\ b = [e EXCEPT !.next_md_seq = @ + n1, !.accounts = ac1]
                    /\ c = [e EXCEPT !.next_seq = n1, !.accounts = ac1]
    OBVIOUS
  <1>2. b = ExchangeOf(ns, nm + n1, m, ac1)
    BY <1>1 DEF ExchangeOf
  <1>3. c = ExchangeOf(n1, nm, m, ac1)
    BY <1>1 DEF ExchangeOf
  <1>4. MdNumbered(e, n1, ac1) = b
    BY <1>1, Zenon DEF MdNumbered
  <1>5. Sequenced(e, n1, ac1) = c
    BY <1>1, Zenon DEF Sequenced
  <1> QED
    BY <1>2, <1>3, <1>4, <1>5

LEMMA AcceptIs ==
  ASSUME NEW ns, NEW nm, NEW m, NEW ac, NEW md, NEW e, e = ExchangeOf(ns, nm, m, ac)
  PROVE  Accept(e, md) = Taken(ns, nm, m, ac, md)
  <1>1. PICK after, e1, out :
          /\ after = AccountForMd(ac, md, m) /\ e1 = ExchangeOf(ns, nm + Len(md), m, after)
          /\ out = Numbered(md, nm)
    OBVIOUS
  <1>2. e.next_md_seq = nm /\ e.accounts = ac /\ e.manager = m
    BY ExchangeParts
  <1>3. PICK n : n = Len(md)
    OBVIOUS
  <1>5. MdNumbered(e, n, after) = e1
    BY <1>1, <1>3, NumberedIs
  <1>4. Accept(e, md) =
          [exchange |-> e1, accepted |-> TRUE, reason |-> "None", thrown |-> FALSE, md |-> out]
    <2>1. Accept(e, md) =
            [exchange |-> MdNumbered(e, Len(md), AccountForMd(e.accounts, md, e.manager)),
             accepted |-> TRUE, reason |-> "None", thrown |-> FALSE,
             md |-> Numbered(md, e.next_md_seq)]
      BY Zenon DEF Accept, MdNumbered
    <2> QED
      BY <1>1, <1>2, <1>3, <1>5, <2>1
  <1> QED
    BY <1>1, <1>4 DEF Taken, AnswerOf

LEMMA CheckedIs ==
  ASSUME NEW ns, NEW nm, NEW m, NEW ac, NEW cmd, NEW reason,
         NEW e, e = ExchangeOf(ns, nm, m, ac), NEW c, c = Execute(m, cmd),
         NEW r, r = Checked(e, cmd, reason)
  PROVE  \/ reason # "None" /\ r = Refused(ns, nm, m, ac, cmd, reason)
         \/ reason = "None" /\ NoBook(cmd) /\ r = Thrown(ns, nm, m, ac)
         \/ /\ reason = "None" /\ ~ NoBook(cmd) /\ c.reject # "None"
            /\ r = Refused(ns, nm, c.manager, ac, cmd, c.reject)
         \/ /\ reason = "None" /\ ~ NoBook(cmd) /\ c.reject = "None"
            /\ r = Taken(ns, nm, c.manager, ac, c.md)
  <1>1. e.manager = m
    BY ExchangeParts
  <1>2. CASE reason # "None"
    <2>1. r = Reject(e, cmd, reason)
      BY <1>2 DEF Checked
    <2> QED
      BY <1>2, <2>1, RejectIs
  <1>3. CASE reason = "None" /\ NoBook(cmd)
    <2>1. r = Throw(e)
      BY <1>3 DEF Checked, NoBook
    <2>2. r = Thrown(ns, nm, m, ac)
      BY <2>1 DEF Throw, Thrown, AnswerOf
    <2> QED
      BY <1>3, <2>2
  <1>4. CASE reason = "None" /\ ~ NoBook(cmd)
    <2>1. r = Executed(e, cmd, c)
      BY <1>1, <1>4 DEF Checked, NoBook
    <2>2. PICK n, why, e1 : n = c.manager /\ why = c.reject /\ e1 = [e EXCEPT !.manager = n]
      OBVIOUS
    <2>3. e1 = ExchangeOf(ns, nm, n, ac)
      BY <2>2 DEF ExchangeOf
    <2>4. r = IF why # "None" THEN Reject(e1, cmd, why) ELSE Accept(e1, c.md)
      BY <2>1, <2>2 DEF Executed
    <2>5. Reject(e1, cmd, why) = Refused(ns, nm, n, ac, cmd, why)
      BY <2>3, RejectIs
    <2>6. PICK md : md = c.md
      OBVIOUS
    <2>7. Accept(e1, md) = Taken(ns, nm, n, ac, md)
      BY <2>3, AcceptIs
    <2> QED
      BY <1>4, <2>2, <2>4, <2>5, <2>6, <2>7
  <1> QED
    BY <1>2, <1>3, <1>4

(* ApplySequenced is the check and what follows it. *)
SeqAfter(ns, seq) == IF seq # ns - 1 /\ seq >= ns THEN seq + 1 ELSE ns

RiskOf(m, ac, sc) ==
  Check(ac, sc.cmd, ContainsOrder(m, sc.cmd.cancel_order_id), sc.recv_ts_ns)

LEMMA ApplyIs ==
  ASSUME NEW ns, NEW nm, NEW m, NEW ac, NEW sc, NEW e, e = ExchangeOf(ns, nm, m, ac),
         NEW r, r = ApplySequenced(e, sc)
  PROVE  \E ns1, risk, ac1, reason, cmd, e1 :
           /\ ns1 = SeqAfter(ns, sc.seq) /\ risk = RiskOf(m, ac, sc)
           /\ ac1 = risk.accounts /\ reason = risk.reason /\ cmd = sc.cmd
           /\ e1 = ExchangeOf(ns1, nm, m, ac1) /\ r = Checked(e1, cmd, reason)
  <1>1. PICK ns1, risk, ac1, reason, cmd, e1 :
           /\ ns1 = SeqAfter(ns, sc.seq) /\ risk = RiskOf(m, ac, sc)
           /\ ac1 = risk.accounts /\ reason = risk.reason /\ cmd = sc.cmd
           /\ e1 = ExchangeOf(ns1, nm, m, ac1)
    OBVIOUS
  <1>2. e.next_seq = ns /\ e.manager = m /\ e.accounts = ac
    BY ExchangeParts
  <1>3. Sequenced(e, ns1, ac1) = e1
    BY <1>1, NumberedIs
  <1>5. ns1 = IF sc.seq # e.next_seq - 1 /\ sc.seq >= e.next_seq
              THEN sc.seq + 1 ELSE e.next_seq
    BY <1>1, <1>2 DEF SeqAfter
  <1>4. r = Checked(e1, cmd, reason)
    <2>1. r = Checked(Sequenced(e, IF sc.seq # e.next_seq - 1 /\ sc.seq >= e.next_seq
                                   THEN sc.seq + 1 ELSE e.next_seq,
                                RiskOf(e.manager, e.accounts, sc).accounts),
                      sc.cmd, RiskOf(e.manager, e.accounts, sc).reason)
      BY Zenon DEF ApplySequenced, RiskOf, Sequenced
    <2> QED
      BY <1>1, <1>2, <1>3, <1>5, <2>1, Zenon
  <1> QED
    BY <1>1, <1>4

(* What the answers are made of. *)
LEMMA RefusedParts ==
  ASSUME NEW ns, NEW nm, NEW m, NEW ac, NEW cmd, NEW reason,
         NEW r, r = Refused(ns, nm, m, ac, cmd, reason)
  PROVE  /\ r.exchange = ExchangeOf(ns, nm + 1, m, ac)
         /\ ~ r.accepted /\ r.reason = reason /\ ~ r.thrown
         /\ r.md = Numbered(<<RejectEvent(cmd, reason)>>, nm)
  <1>1. PICK e, out : /\ e = ExchangeOf(ns, nm + 1, m, ac)
                      /\ out = Numbered(<<RejectEvent(cmd, reason)>>, nm)
    OBVIOUS
  <1>2. r = [exchange |-> e, accepted |-> FALSE, reason |-> reason, thrown |-> FALSE,
             md |-> out]
    BY <1>1, Zenon DEF Refused, AnswerOf
  <1> QED
    BY <1>1, <1>2

LEMMA TakenParts ==
  ASSUME NEW ns, NEW nm, NEW m, NEW ac, NEW md, NEW r, r = Taken(ns, nm, m, ac, md)
  PROVE  /\ r.exchange = ExchangeOf(ns, nm + Len(md), m, AccountForMd(ac, md, m))
         /\ r.accepted /\ r.reason = "None" /\ ~ r.thrown /\ r.md = Numbered(md, nm)
  <1>1. PICK e, out : /\ e = ExchangeOf(ns, nm + Len(md), m, AccountForMd(ac, md, m))
                      /\ out = Numbered(md, nm)
    OBVIOUS
  <1>2. r = [exchange |-> e, accepted |-> TRUE, reason |-> "None", thrown |-> FALSE,
             md |-> out]
    BY <1>1, Zenon DEF Taken, AnswerOf
  <1> QED
    BY <1>1, <1>2

LEMMA ThrownParts ==
  ASSUME NEW ns, NEW nm, NEW m, NEW ac, NEW r, r = Thrown(ns, nm, m, ac)
  PROVE  /\ r.exchange = ExchangeOf(ns, nm, m, ac)
         /\ ~ r.accepted /\ r.reason = "None" /\ r.thrown /\ r.md = <<>>
  <1>1. PICK e : e = ExchangeOf(ns, nm, m, ac)
    OBVIOUS
  <1>2. r = [exchange |-> e, accepted |-> FALSE, reason |-> "None", thrown |-> TRUE,
             md |-> <<>>]
    BY <1>1, Zenon DEF Thrown, AnswerOf
  <1> QED
    BY <1>1, <1>2

ExchangeShaped(e) == e = ExchangeOf(e.next_seq, e.next_md_seq, e.manager, e.accounts)

LEMMA ExchangeOfShaped ==
  ASSUME NEW ns, NEW nm, NEW m, NEW ac, NEW e, e = ExchangeOf(ns, nm, m, ac)
  PROVE  ExchangeShaped(e)
  BY ExchangeParts DEF ExchangeShaped

(* Only a new order for an unknown symbol throws. *)
LEMMA BookedNeverThrows ==
  ASSUME NEW e, ExchangeShaped(e), NEW sc, sc.cmd.type = "New" => HasBook(sc.cmd),
         NEW r, r = ApplySequenced(e, sc)
  PROVE  ~ r.thrown
  <1>1. PICK ns, nm, m, ac : e = ExchangeOf(ns, nm, m, ac)
    BY DEF ExchangeShaped
  <1>2. PICK ns1, ac1, reason, cmd, e1 :
          cmd = sc.cmd /\ e1 = ExchangeOf(ns1, nm, m, ac1) /\ r = Checked(e1, cmd, reason)
    BY <1>1, ApplyIs
  <1>3. PICK c : c = Execute(m, cmd)
    OBVIOUS
  <1>4. ~ NoBook(cmd)
    BY <1>2 DEF NoBook
  <1>5. \/ r = Refused(ns1, nm, m, ac1, cmd, reason)
        \/ r = Refused(ns1, nm, c.manager, ac1, cmd, c.reject)
        \/ r = Taken(ns1, nm, c.manager, ac1, c.md)
    BY <1>2, <1>3, <1>4, CheckedIs
  <1>6. PICK m1, why, md : m1 = c.manager /\ why = c.reject /\ md = c.md
    OBVIOUS
  <1>7. ASSUME NEW n, NEW w, r = Refused(ns1, nm, n, ac1, cmd, w)
        PROVE  ~ r.thrown
    <2>1. /\ r.exchange = ExchangeOf(ns1, nm + 1, n, ac1) /\ ~ r.thrown
          /\ r.md = Numbered(<<RejectEvent(cmd, w)>>, nm)
      BY <1>7, RefusedParts
    <2> QED
      BY <2>1
  <1>8. CASE r = Taken(ns1, nm, m1, ac1, md)
    BY <1>8, TakenParts
  <1>9. CASE r = Refused(ns1, nm, m, ac1, cmd, reason)
    BY <1>7, <1>9
  <1>10. CASE r = Refused(ns1, nm, m1, ac1, cmd, why)
    BY <1>7, <1>10
  <1> QED
    BY <1>5, <1>6, <1>8, <1>9, <1>10

(* The command applied to an exchange with the same books and accounts: the    *)
(* sequence numbers aside, the same comes of it.                               *)
LEMMA ApplyAgrees ==
  ASSUME NEW e1, ExchangeShaped(e1), NEW e2, ExchangeShaped(e2),
         e1.manager = e2.manager, e1.accounts = e2.accounts, NEW sc,
         NEW r1, r1 = ApplySequenced(e1, sc), NEW r2, r2 = ApplySequenced(e2, sc)
  PROVE  /\ r1.exchange.manager = r2.exchange.manager
         /\ r1.exchange.accounts = r2.exchange.accounts
         /\ r1.thrown = r2.thrown
         /\ e1.next_md_seq = e2.next_md_seq =>
              /\ r1.md = r2.md
              /\ r1.exchange.next_md_seq = r2.exchange.next_md_seq
  <1>1. PICK s1, s2, n1, n2, m, ac :
          /\ s1 = e1.next_seq /\ s2 = e2.next_seq
          /\ n1 = e1.next_md_seq /\ n2 = e2.next_md_seq /\ m = e1.manager /\ ac = e1.accounts
    OBVIOUS
  <1>2. e1 = ExchangeOf(s1, n1, m, ac) /\ e2 = ExchangeOf(s2, n2, m, ac)
    BY <1>1 DEF ExchangeShaped
  <1>3. PICK risk, ac1, reason, cmd, c :
          /\ risk = RiskOf(m, ac, sc) /\ ac1 = risk.accounts /\ reason = risk.reason
          /\ cmd = sc.cmd /\ c = Execute(m, cmd)
    OBVIOUS
  <1>4. PICK t1, x1 : x1 = ExchangeOf(t1, n1, m, ac1) /\ r1 = Checked(x1, cmd, reason)
    BY <1>2, <1>3, ApplyIs
  <1>5. PICK t2, x2 : x2 = ExchangeOf(t2, n2, m, ac1) /\ r2 = Checked(x2, cmd, reason)
    BY <1>2, <1>3, ApplyIs
  <1>6. \/ reason # "None" /\ r1 = Refused(t1, n1, m, ac1, cmd, reason)
        \/ reason = "None" /\ NoBook(cmd) /\ r1 = Thrown(t1, n1, m, ac1)
        \/ /\ reason = "None" /\ ~ NoBook(cmd) /\ c.reject # "None"
           /\ r1 = Refused(t1, n1, c.manager, ac1, cmd, c.reject)
        \/ /\ reason = "None" /\ ~ NoBook(cmd) /\ c.reject = "None"
           /\ r1 = Taken(t1, n1, c.manager, ac1, c.md)
    BY <1>3, <1>4, CheckedIs
  <1>7. \/ reason # "None" /\ r2 = Refused(t2, n2, m, ac1, cmd, reason)
        \/ reason = "None" /\ NoBook(cmd) /\ r2 = Thrown(t2, n2, m, ac1)
        \/ /\ reason = "None" /\ ~ NoBook(cmd) /\ c.reject # "None"
           /\ r2 = Refused(t2, n2, c.manager, ac1, cmd, c.reject)
        \/ /\ reason = "None" /\ ~ NoBook(cmd) /\ c.reject = "None"
           /\ r2 = Taken(t2, n2, c.manager, ac1, c.md)
    BY <1>3, <1>5, CheckedIs
  <1>8. ASSUME NEW n, NEW why,
               r1 = Refused(t1, n1, n, ac1, cmd, why), r2 = Refused(t2, n2, n, ac1, cmd, why)
        PROVE  /\ r1.exchange.manager = r2.exchange.manager
               /\ r1.exchange.accounts = r2.exchange.accounts
               /\ r1.thrown = r2.thrown
               /\ n1 = n2 => /\ r1.md = r2.md
                             /\ r1.exchange.next_md_seq = r2.exchange.next_md_seq
    <2>1. /\ r1.exchange = ExchangeOf(t1, n1 + 1, n, ac1) /\ ~ r1.thrown
          /\ r1.md = Numbered(<<RejectEvent(cmd, why)>>, n1)
      BY <1>8, RefusedParts
    <2>2. /\ r2.exchange = ExchangeOf(t2, n2 + 1, n, ac1) /\ ~ r2.thrown
          /\ r2.md = Numbered(<<RejectEvent(cmd, why)>>, n2)
      BY <1>8, RefusedParts
    <2>3. r1.thrown = r2.thrown
      BY <1>8 DEF Refused, AnswerOf
    <2> QED
      BY <2>1, <2>2, <2>3, ExchangeParts
  <1>9. ASSUME r1 = Thrown(t1, n1, m, ac1), r2 = Thrown(t2, n2, m, ac1)
        PROVE  /\ r1.exchange.manager = r2.exchange.manager
               /\ r1.exchange.accounts = r2.exchange.accounts
               /\ r1.thrown = r2.thrown
               /\ n1 = n2 => /\ r1.md = r2.md
                             /\ r1.exchange.next_md_seq = r2.exchange.next_md_seq
    <2>1. r1.exchange = ExchangeOf(t1, n1, m, ac1) /\ r1.md = <<>>
      BY <1>9, ThrownParts
    <2>2. r2.exchange = ExchangeOf(t2, n2, m, ac1) /\ r2.md = <<>>
      BY <1>9, ThrownParts
    <2>3. r1.thrown = r2.thrown
      BY <1>9 DEF Thrown, AnswerOf
    <2> QED
      BY <2>1, <2>2, <2>3, ExchangeParts
  <1>10. ASSUME NEW n, NEW md,
                r1 = Taken(t1, n1, n, ac1, md), r2 = Taken(t2, n2, n, ac1, md)
         PROVE  /\ r1.exchange.manager = r2.exchange.manager
                /\ r1.exchange.accounts = r2.exchange.accounts
                /\ r1.thrown = r2.thrown
                /\ n1 = n2 => /\ r1.md = r2.md
                              /\ r1.exchange.next_md_seq = r2.exchange.next_md_seq
    <2>1. PICK ac2, k : ac2 = AccountForMd(ac1, md, n) /\ k = Len(md)
      OBVIOUS
    <2>2. r1.exchange = ExchangeOf(t1, n1 + k, n, ac2) /\ r1.md = Numbered(md, n1)
      BY <1>10, <2>1, TakenParts
    <2>3. r2.exchange = ExchangeOf(t2, n2 + k, n, ac2) /\ r2.md = Numbered(md, n2)
      BY <1>10, <2>1, TakenParts
    <2>4. r1.thrown = r2.thrown
      BY <1>10 DEF Taken, AnswerOf
    <2> QED
      BY <2>2, <2>3, <2>4, ExchangeParts
  <1>11. CASE reason # "None"
    <2>1. /\ r1 = Refused(t1, n1, m, ac1, cmd, reason)
          /\ r2 = Refused(t2, n2, m, ac1, cmd, reason)
      BY <1>6, <1>7, <1>11
    <2> QED
      BY <1>1, <1>8, <2>1
  <1>12. CASE reason = "None" /\ NoBook(cmd)
    <2>1. r1 = Thrown(t1, n1, m, ac1) /\ r2 = Thrown(t2, n2, m, ac1)
      BY <1>6, <1>7, <1>12
    <2> QED
      BY <1>1, <1>9, <2>1
  <1>13. CASE reason = "None" /\ ~ NoBook(cmd) /\ c.reject # "None"
    <2>1. PICK n, why : n = c.manager /\ why = c.reject
      OBVIOUS
    <2>2. /\ r1 = Refused(t1, n1, n, ac1, cmd, why)
          /\ r2 = Refused(t2, n2, n, ac1, cmd, why)
      BY <1>6, <1>7, <1>13, <2>1
    <2> QED
      BY <1>1, <1>8, <2>2
  <1>14. CASE reason = "None" /\ ~ NoBook(cmd) /\ c.reject = "None"
    <2>1. PICK n, md : n = c.manager /\ md = c.md
      OBVIOUS
    <2>2. r1 = Taken(t1, n1, n, ac1, md) /\ r2 = Taken(t2, n2, n, ac1, md)
      BY <1>6, <1>7, <1>14, <2>1
    <2> QED
      BY <1>1, <1>10, <2>2
  <1> QED
    BY <1>11, <1>12, <1>13, <1>14

-----------------------------------------------------------------------------
(* The types of an answer. *)

GoodExchange(e) ==
  /\ ExchangeShaped(e)
  /\ e.next_seq \in Nat \ {0} /\ e.next_md_seq \in Nat \ {0}
  /\ GoodManager(e.manager) /\ GoodAccounts(e.accounts)

Stamps == [seq : Nat, ev : PublishedEvents]

(* Events numbered without a gap. *)
MdFrom(md, first) ==
  md \in Seq(Stamps) /\ \A k \in DOMAIN md : md[k].seq = first + k - 1

LEMMA NumberedDoes ==
  ASSUME NEW md \in Seq(PublishedEvents), NEW first \in Nat \ {0},
         NEW out, out = Numbered(md, first)
  PROVE  MdFrom(out, first) /\ Len(out) = Len(md)
  <1>1. PICK n : n = Len(md)
    OBVIOUS
  <1>2. n \in Nat /\ DOMAIN md = 1 .. n
    BY <1>1
  <1>3. out = [k \in 1 .. n |-> [seq |-> first + k - 1, ev |-> md[k]]]
    BY <1>2 DEF Numbered
  <1>4. ASSUME NEW k \in 1 .. n
        PROVE  out[k] \in Stamps /\ out[k].seq = first + k - 1
    <2>1. PICK at, ev : at = first + k - 1 /\ ev = md[k]
      OBVIOUS
    <2>2. at \in Nat /\ ev \in PublishedEvents
      BY <1>2, <2>1
    <2>3. out[k] = [seq |-> at, ev |-> ev]
      BY <1>3, <2>1
    <2> QED
      BY <2>1, <2>2, <2>3 DEF Stamps
  <1>5. out \in [1 .. n -> Stamps]
    BY <1>3, <1>4
  <1>6. out \in Seq(Stamps) /\ Len(out) = n /\ DOMAIN out = 1 .. n
    BY <1>2, <1>5
  <1> QED
    BY <1>1, <1>4, <1>6 DEF MdFrom

(* A command a refusal can repeat. *)
Answerable(cmd) ==
  /\ cmd.symbol_id \in Nat /\ cmd.order_id \in OrderIds \cup {kInvalidOrderId}
  /\ cmd.account_id \in Accounts \cup {kNoAccount} /\ cmd.side \in Sides
  /\ cmd.price \in Int /\ cmd.qty \in Nat

LEMMA CommandAnswerable ==
  ASSUME NEW cmd \in Command
  PROVE  Answerable(cmd)
  BY InputAssumption DEF Command, Answerable

LEMMA DummyAnswerable == Answerable(Dummy)
  BY DEF Dummy, Answerable, Sides

LEMMA RefusedDoes ==
  ASSUME NEW ns, NEW nm \in Nat \ {0}, NEW m, NEW ac, NEW cmd, Answerable(cmd),
         NEW reason \in RejectReasons, NEW r, r = Refused(ns, nm, m, ac, cmd, reason)
  PROVE  /\ r.exchange = ExchangeOf(ns, nm + 1, m, ac) /\ ExchangeShaped(r.exchange)
         /\ r.exchange.next_seq = ns /\ r.exchange.next_md_seq = nm + Len(r.md)
         /\ r.exchange.manager = m /\ r.exchange.accounts = ac
         /\ MdFrom(r.md, nm) /\ ~ r.accepted /\ r.reason \in RejectReasons
  <1>1. PICK ev, md, e : /\ ev = RejectEvent(cmd, reason) /\ md = <<ev>>
                         /\ e = ExchangeOf(ns, nm + 1, m, ac)
    OBVIOUS
  <1>2. /\ r.exchange = e /\ ~ r.accepted /\ r.reason = reason /\ r.md = Numbered(md, nm)
    BY <1>1, RefusedParts
  <1>3. ev \in PublishedEvents
    BY <1>1 DEF RejectEvent, PublishedEvents, Answerable
  <1>4. md \in Seq(PublishedEvents) /\ Len(md) = 1
    BY <1>1, <1>3
  <1>5. MdFrom(r.md, nm) /\ Len(r.md) = 1
    BY <1>2, <1>4, NumberedDoes
  <1>6. /\ e.next_seq = ns /\ e.next_md_seq = nm + 1 /\ e.manager = m /\ e.accounts = ac
        /\ ExchangeShaped(e)
    BY <1>1, ExchangeParts, ExchangeOfShaped
  <1> QED
    BY <1>1, <1>2, <1>5, <1>6

LEMMA TakenDoes ==
  ASSUME NEW ns, NEW nm \in Nat \ {0}, NEW m, NEW ac, GoodAccounts(ac),
         NEW md \in Seq(PublishedEvents), \A k \in DOMAIN md : md[k].account_id \in Accounts,
         NEW r, r = Taken(ns, nm, m, ac, md)
  PROVE  /\ ExchangeShaped(r.exchange)
         /\ r.exchange.next_seq = ns /\ r.exchange.next_md_seq = nm + Len(r.md)
         /\ r.exchange.manager = m /\ GoodAccounts(r.exchange.accounts)
         /\ MdFrom(r.md, nm) /\ r.accepted /\ r.reason \in RejectReasons
  <1>1. PICK ac1, k, e : /\ ac1 = AccountForMd(ac, md, m) /\ k = Len(md)
                         /\ e = ExchangeOf(ns, nm + k, m, ac1)
    OBVIOUS
  <1>2. r.exchange = e /\ r.accepted /\ r.reason = "None" /\ r.md = Numbered(md, nm)
    BY <1>1, TakenParts
  <1>3. GoodAccounts(ac1)
    BY <1>1, AccountForMdDoes
  <1>4. MdFrom(r.md, nm) /\ Len(r.md) = k
    BY <1>1, <1>2, NumberedDoes
  <1>5. /\ e.next_seq = ns /\ e.next_md_seq = nm + k /\ e.manager = m /\ e.accounts = ac1
        /\ ExchangeShaped(e)
    BY <1>1, ExchangeParts, ExchangeOfShaped
  <1>6. "None" \in RejectReasons
    BY DEF RejectReasons, BookRejects
  <1> QED
    BY <1>2, <1>3, <1>4, <1>5, <1>6

(* A sequenced command of a known account. *)
Applicable(sc) ==
  /\ sc.seq \in Nat /\ sc.recv_ts_ns \in Nat
  /\ sc.cmd \in Command /\ sc.cmd.account_id \in Accounts
  /\ sc.cmd.type # "Cancel" => sc.cmd.order_id \in OrderIds

(* The orders after cmd: those before, some with less left, and what is left of *)
(* cmd, if it is within the limits.                                             *)
OrdersStem(m1, m, cmd) ==
  \/ m1 = m
  \/ cmd.type = "Cancel" /\ ManagerKeeps(m1, m)
  \/ cmd.type # "Cancel" /\ WithinLimits(cmd) /\ ManagerStems(m1, m, cmd)

(* The events evs make n of m. *)
ManagerTells(evs, m, n) ==
  /\ evs \in Seq(PublishedEvents)
  /\ \/ n = m /\ \A k \in DOMAIN evs : evs[k].type = "Reject"
     \/ \E s \in Symbols : \E md : OneBookTells(s, md, evs, m, n)

(* So do those of md, numbered from first. *)
NumberedTells(md, first, m, n) == \E evs : md = Numbered(evs, first) /\ ManagerTells(evs, m, n)

LEMMA RefusedTells ==
  ASSUME NEW ns, NEW nm, NEW m, NEW ac, NEW cmd, Answerable(cmd),
         NEW reason \in RejectReasons, NEW r, r = Refused(ns, nm, m, ac, cmd, reason)
  PROVE  NumberedTells(r.md, nm, m, m)
  <1>1. PICK ev, evs : ev = RejectEvent(cmd, reason) /\ evs = <<ev>>
    OBVIOUS
  <1>2. r.md = Numbered(evs, nm)
    BY <1>1, RefusedParts
  <1>3. ev \in PublishedEvents /\ ev.type = "Reject"
    BY <1>1 DEF RejectEvent, PublishedEvents, Answerable
  <1>4. evs \in Seq(PublishedEvents) /\ \A k \in DOMAIN evs : evs[k].type = "Reject"
    BY <1>1, <1>3
  <1> QED
    BY <1>2, <1>4 DEF NumberedTells, ManagerTells

LEMMA NothingNumberedTells ==
  ASSUME NEW m, NEW nm
  PROVE  NumberedTells(<<>>, nm, m, m)
  <1>1. PICK evs : evs = <<>>
    OBVIOUS
  <1>2. evs \in Seq(PublishedEvents) /\ DOMAIN evs = {}
    BY <1>1
  <1>3. Numbered(evs, nm) = <<>>
    BY <1>2 DEF Numbered
  <1> QED
    BY <1>2, <1>3 DEF NumberedTells, ManagerTells

LEMMA ApplyDoes ==
  ASSUME NEW e, GoodExchange(e), NEW sc, Applicable(sc), NEW cmd, cmd = sc.cmd,
         NEW r, r = ApplySequenced(e, sc)
  PROVE  /\ ExchangeShaped(r.exchange)
         /\ GoodManager(r.exchange.manager) /\ GoodAccounts(r.exchange.accounts)
         /\ r.exchange.next_seq = SeqAfter(e.next_seq, sc.seq)
         /\ r.exchange.next_md_seq = e.next_md_seq + Len(r.md)
         /\ MdFrom(r.md, e.next_md_seq) /\ r.reason \in RejectReasons
         /\ OrdersStem(r.exchange.manager, e.manager, cmd)
         /\ ~ r.accepted => SameHoldings(r.exchange.accounts, e.accounts)
         /\ Indexed(e.manager) /\ Tidy(e.manager, cmd) =>
              /\ Indexed(r.exchange.manager)
              /\ ~ r.accepted => r.exchange.manager = e.manager
              /\ NumberedTells(r.md, e.next_md_seq, e.manager, r.exchange.manager)
  <1>1. PICK ns, nm, m, ac, now, known :
          /\ ns = e.next_seq /\ nm = e.next_md_seq /\ m = e.manager /\ ac = e.accounts
          /\ now = sc.recv_ts_ns /\ known = ContainsOrder(m, cmd.cancel_order_id)
    OBVIOUS
  <1>2. /\ e = ExchangeOf(ns, nm, m, ac) /\ nm \in Nat \ {0}
        /\ GoodManager(m) /\ GoodAccounts(ac)
    BY <1>1 DEF GoodExchange, ExchangeShaped
  <1>3. PICK ns1, risk, ac1, reason, e1 :
          /\ ns1 = SeqAfter(ns, sc.seq) /\ risk = RiskOf(m, ac, sc)
          /\ ac1 = risk.accounts /\ reason = risk.reason
          /\ e1 = ExchangeOf(ns1, nm, m, ac1) /\ r = Checked(e1, cmd, reason)
    BY <1>2, ApplyIs
  <1>4. /\ cmd \in Command /\ cmd.account_id \in Accounts /\ now \in Nat
        /\ cmd.type # "Cancel" => cmd.order_id \in OrderIds
    BY <1>1 DEF Applicable
  <1>5. known \in BOOLEAN
    BY <1>1 DEF ContainsOrder
  <1>6. risk = Check(ac, cmd, known, now)
    BY <1>1, <1>3 DEF RiskOf
  <1>7. /\ GoodAccounts(ac1) /\ SameHoldings(ac1, ac) /\ reason \in RejectReasons
        /\ reason = "None" => /\ cmd.type # "New" => known
                              /\ cmd.type # "Cancel" => WithinLimits(cmd)
    BY <1>2, <1>3, <1>4, <1>5, <1>6, CheckDoes
  <1>8. Answerable(cmd)
    BY <1>4, CommandAnswerable
  <1>9. PICK c : c = Execute(m, cmd)
    OBVIOUS
  <1>10. \/ reason # "None" /\ r = Refused(ns1, nm, m, ac1, cmd, reason)
         \/ reason = "None" /\ NoBook(cmd) /\ r = Thrown(ns1, nm, m, ac1)
         \/ /\ reason = "None" /\ ~ NoBook(cmd) /\ c.reject # "None"
            /\ r = Refused(ns1, nm, c.manager, ac1, cmd, c.reject)
         \/ /\ reason = "None" /\ ~ NoBook(cmd) /\ c.reject = "None"
            /\ r = Taken(ns1, nm, c.manager, ac1, c.md)
    BY <1>3, <1>9, CheckedIs
  <1>11. OrdersStem(m, m, cmd)
    BY DEF OrdersStem
  <1>12. CASE reason # "None"
    <2>1. r = Refused(ns1, nm, m, ac1, cmd, reason)
      BY <1>10, <1>12
    <2>2. /\ ExchangeShaped(r.exchange)
          /\ r.exchange.next_seq = ns1 /\ r.exchange.next_md_seq = nm + Len(r.md)
          /\ r.exchange.manager = m /\ r.exchange.accounts = ac1
          /\ MdFrom(r.md, nm) /\ r.reason \in RejectReasons
      BY <1>2, <1>7, <1>8, <2>1, RefusedDoes
    <2>3. NumberedTells(r.md, nm, m, m)
      BY <1>7, <1>8, <2>1, RefusedTells
    <2> QED
      BY <1>1, <1>2, <1>3, <1>7, <1>11, <2>2, <2>3
  <1>13. CASE reason = "None" /\ NoBook(cmd)
    <2>1. r = Thrown(ns1, nm, m, ac1)
      BY <1>10, <1>13
    <2>2. r.exchange = ExchangeOf(ns1, nm, m, ac1) /\ r.reason = "None" /\ r.md = <<>>
      BY <2>1, ThrownParts
    <2>3. /\ ExchangeShaped(r.exchange)
          /\ r.exchange.next_seq = ns1 /\ r.exchange.next_md_seq = nm
          /\ r.exchange.manager = m /\ r.exchange.accounts = ac1
      BY <2>2, ExchangeParts, ExchangeOfShaped
    <2>4. MdFrom(r.md, nm) /\ nm = nm + Len(r.md)
      <3>1. r.md \in Seq(Stamps) /\ Len(r.md) = 0 /\ DOMAIN r.md = {}
        BY <2>2
      <3>2. MdFrom(r.md, nm)
        BY <3>1 DEF MdFrom
      <3> QED
        BY <1>2, <3>1, <3>2
    <2>5. r.reason \in RejectReasons
      BY <2>2 DEF RejectReasons, BookRejects
    <2>6. NumberedTells(r.md, nm, m, m)
      BY <2>2, NothingNumberedTells
    <2> QED
      BY <1>1, <1>2, <1>3, <1>7, <1>11, <2>3, <2>4, <2>5, <2>6
  <1>14. CASE reason = "None" /\ ~ NoBook(cmd)
    <2>1. Executable(m, cmd)
      BY <1>1, <1>4, <1>7, <1>14 DEF Executable, NoBook
    <2>2. PICK n, md, why : n = c.manager /\ md = c.md /\ why = c.reject
      OBVIOUS
    <2>3. /\ ManagerDoes(c, m, cmd) /\ why \in BookRejects
          /\ Indexed(m) /\ Tidy(m, cmd) =>
               /\ Indexed(n)
               /\ why # "None" => n = m
      BY <1>2, <1>9, <2>1, <2>2, ExecuteDoes
    <2>4. /\ GoodManager(n) /\ md \in Seq(PublishedEvents)
          /\ \A k \in DOMAIN md : md[k].account_id \in Accounts
      BY <2>2, <2>3 DEF ManagerDoes
    <2>5. OrdersStem(n, m, cmd)
      BY <1>7, <1>14, <2>2, <2>3 DEF ManagerDoes, OrdersStem
    <2>6. CASE why # "None"
      <3>1. r = Refused(ns1, nm, n, ac1, cmd, why) /\ why \in RejectReasons
        BY <1>10, <1>14, <2>2, <2>3, <2>6 DEF RejectReasons
      <3>2. /\ ExchangeShaped(r.exchange)
            /\ r.exchange.next_seq = ns1 /\ r.exchange.next_md_seq = nm + Len(r.md)
            /\ r.exchange.manager = n /\ r.exchange.accounts = ac1
            /\ MdFrom(r.md, nm) /\ r.reason \in RejectReasons
        BY <1>2, <1>8, <3>1, RefusedDoes
      <3>3. NumberedTells(r.md, nm, n, n)
        BY <1>8, <3>1, RefusedTells
      <3> QED
        BY <1>1, <1>3, <1>7, <2>3, <2>4, <2>5, <2>6, <3>2, <3>3
    <2>7. CASE why = "None"
      <3>1. r = Taken(ns1, nm, n, ac1, md)
        BY <1>10, <1>14, <2>2, <2>7
      <3>2. /\ ExchangeShaped(r.exchange)
            /\ r.exchange.next_seq = ns1 /\ r.exchange.next_md_seq = nm + Len(r.md)
            /\ r.exchange.manager = n /\ GoodAccounts(r.exchange.accounts)
            /\ MdFrom(r.md, nm) /\ r.accepted /\ r.reason \in RejectReasons
        BY <1>2, <1>7, <2>4, <3>1, TakenDoes
      <3>3. NumberedTells(r.md, nm, m, n)
        <4>1. r.md = Numbered(md, nm)
          BY <3>1, TakenParts
        <4>2. ManagerTells(md, m, n)
          BY <2>2, <2>3, <2>4 DEF ManagerDoes, ManagerTells
        <4> QED
          BY <4>1, <4>2 DEF NumberedTells
      <3> QED
        BY <1>1, <1>3, <1>7, <2>3, <2>4, <2>5, <3>2, <3>3
    <2> QED
      BY <2>6, <2>7
  <1> QED
    BY <1>12, <1>13, <1>14

LEMMA ApplyKeepsGood ==
  ASSUME NEW e, GoodExchange(e), NEW sc, Applicable(sc), NEW r, r = ApplySequenced(e, sc)
  PROVE  GoodExchange(r.exchange)
  <1>1. PICK cmd, ns, nm, seq, n :
          /\ cmd = sc.cmd /\ ns = e.next_seq /\ nm = e.next_md_seq /\ seq = sc.seq
          /\ n = Len(r.md)
    OBVIOUS
  <1>2. /\ ExchangeShaped(r.exchange)
        /\ GoodManager(r.exchange.manager) /\ GoodAccounts(r.exchange.accounts)
        /\ r.exchange.next_seq = SeqAfter(ns, seq) /\ r.exchange.next_md_seq = nm + n
        /\ MdFrom(r.md, nm)
    BY <1>1, ApplyDoes
  <1>3. ns \in Nat \ {0} /\ nm \in Nat \ {0} /\ seq \in Nat
    BY <1>1 DEF GoodExchange, Applicable
  <1>4. n \in Nat
    BY <1>1, <1>2 DEF MdFrom
  <1>5. SeqAfter(ns, seq) \in Nat \ {0}
    BY <1>3 DEF SeqAfter
  <1>6. nm + n \in Nat \ {0}
    BY <1>3, <1>4
  <1> QED
    BY <1>2, <1>5, <1>6 DEF GoodExchange

-----------------------------------------------------------------------------
(* The steps of the exchange. *)

(* What is journaled. *)
JournalRecords == [seq : Nat, recv_ts_ns : Nat, cmd : Command]

(* A command is sequenced, journaled and applied, with the answer r. *)
Sequences(cmd, sc, r) ==
  /\ cmd \in Commands /\ sc.seq = exchange.next_seq /\ sc.cmd = cmd /\ Applicable(sc)
  /\ sc \in JournalRecords /\ sc.recv_ts_ns \in Times
  /\ sc = [seq |-> sc.seq, recv_ts_ns |-> sc.recv_ts_ns, cmd |-> sc.cmd]
  /\ r = ApplySequenced(NextSeq, sc)
  /\ Answer(cmd, r)
  /\ journal' = Journaled(sc)
  /\ exchange.next_seq <= MaxSeq
  /\ Disciplined => Obeys(cmd) /\ Validate(cmd) = "None"

(* A frame is refused with the answer r. *)
RefusesFrame(cmd, reason, r) ==
  /\ reason \in RejectReasons
  /\ r = Reject(NextSeq, Dummy, reason)
  /\ Answer(cmd, r)
  /\ journal' = journal
  /\ exchange.next_seq <= MaxSeq

LEMMA ValidateType ==
  ASSUME NEW cmd \in Command
  PROVE  Validate(cmd) \in RejectReasons
  <1>1. cmd.type \in {"New", "Cancel", "Replace"}
    BY DEF Command
  <1>2. PICK terms : terms = IF cmd.qty = 0 THEN "InvalidQty"
                             ELSE IF cmd.price <= 0 THEN "InvalidPrice" ELSE "None"
    OBVIOUS
  <1>3. terms \in RejectReasons
    BY <1>2 DEF RejectReasons, BookRejects
  <1>4. Validate(cmd) \in {"Malformed", "InvalidSymbol", "UnknownOrder", "None", terms}
    BY <1>1, <1>2 DEF Validate
  <1> QED
    BY <1>3, <1>4 DEF RejectReasons, BookRejects

LEMMA ProcessCommandIs ==
  ASSUME exchange.next_seq \in Nat, NEW cmd \in Commands, NEW now \in Times,
         ProcessCommand(cmd, now)
  PROVE  \E sc, r : Sequences(cmd, sc, r)
  <1>1. PICK sc, r : /\ sc = [seq |-> exchange.next_seq, recv_ts_ns |-> now, cmd |-> cmd]
                     /\ r = ApplySequenced(NextSeq, sc)
    OBVIOUS
  <1>2. /\ Called(cmd, now) /\ (Disciplined => Validate(cmd) = "None")
        /\ cmd.account_id \in Accounts
        /\ cmd.type # "Cancel" => cmd.order_id \in OrderIds
        /\ journal' = Journaled(sc) /\ Answer(cmd, r)
    BY <1>1 DEF ProcessCommand
  <1>3. sc.seq = exchange.next_seq /\ sc.cmd = cmd /\ sc.recv_ts_ns = now
    BY <1>1
  <1>4. cmd \in Command /\ now \in Nat
    BY CallAssumption
  <1>5. Applicable(sc)
    BY <1>2, <1>3, <1>4 DEF Applicable
  <1>6. exchange.next_seq <= MaxSeq /\ (Disciplined => Obeys(cmd))
    BY <1>2 DEF Called
  <1>8. sc \in JournalRecords
    BY <1>1, <1>4 DEF JournalRecords
  <1>9. sc = [seq |-> sc.seq, recv_ts_ns |-> sc.recv_ts_ns, cmd |-> sc.cmd]
    BY <1>1
  <1>7. Sequences(cmd, sc, r)
    BY <1>1, <1>2, <1>3, <1>5, <1>6, <1>8, <1>9 DEF Sequences
  <1> QED
    BY <1>7

LEMMA NextIs ==
  ASSUME exchange.next_seq \in Nat, Next
  PROVE  \/ \E cmd, sc, r : Sequences(cmd, sc, r)
         \/ \E cmd, reason, r : RefusesFrame(cmd, reason, r)
  <1>1. ASSUME NEW cmd \in Commands, NEW now \in Times, ProcessFrame(cmd, now),
               Validate(cmd) # "None"
        PROVE  \E reason, r : RefusesFrame(cmd, reason, r)
    <2>1. PICK reason, r : reason = Validate(cmd) /\ r = Reject(NextSeq, Dummy, reason)
      OBVIOUS
    <2>2. Called(cmd, now) /\ Answer(cmd, r) /\ journal' = journal
      BY <1>1, <2>1 DEF ProcessFrame
    <2>3. exchange.next_seq <= MaxSeq
      BY <2>2 DEF Called
    <2>4. reason \in RejectReasons
      BY <2>1, ValidateType, CallAssumption
    <2>5. RefusesFrame(cmd, reason, r)
      BY <2>1, <2>2, <2>3, <2>4 DEF RefusesFrame
    <2> QED
      BY <2>5
  <1>2. ASSUME NEW cmd \in Commands, NEW now \in Times, ProcessFrame(cmd, now),
               Validate(cmd) = "None"
        PROVE  ProcessCommand(cmd, now)
    BY <1>2 DEF ProcessFrame
  <1>3. ASSUME NEW now \in Times, ProcessBytes(now)
        PROVE  \E cmd, reason, r : RefusesFrame(cmd, reason, r)
    <2>1. PICK reason, r, cmd : /\ reason = "Malformed" /\ r = Reject(NextSeq, Dummy, reason)
                                /\ cmd = Dummy
      OBVIOUS
    <2>2. Answer(cmd, r) /\ journal' = journal /\ exchange.next_seq <= MaxSeq
      BY <1>3, <2>1 DEF ProcessBytes
    <2>3. reason \in RejectReasons
      BY <2>1 DEF RejectReasons
    <2>4. RefusesFrame(cmd, reason, r)
      BY <2>1, <2>2, <2>3 DEF RefusesFrame
    <2> QED
      BY <2>4
  <1>4. \/ \E cmd \in Commands, now \in Times : ProcessFrame(cmd, now) \/ ProcessCommand(cmd, now)
        \/ \E now \in Times : ProcessBytes(now)
    BY DEF Next
  <1> QED
    BY <1>1, <1>2, <1>3, <1>4, ProcessCommandIs

(* What a step does to the exchange, in terms of the exchange before it. *)
LEMMA NextSeqIs ==
  ASSUME GoodExchange(exchange), NEW e, e = NextSeq
  PROVE  /\ GoodExchange(e) /\ e.next_seq = exchange.next_seq + 1
         /\ e.next_md_seq = exchange.next_md_seq
         /\ e.manager = exchange.manager /\ e.accounts = exchange.accounts
         /\ e = ExchangeOf(exchange.next_seq + 1, exchange.next_md_seq, exchange.manager,
                           exchange.accounts)
  <1>1. PICK ns, nm, m, ac : /\ ns = exchange.next_seq /\ nm = exchange.next_md_seq
                             /\ m = exchange.manager /\ ac = exchange.accounts
    OBVIOUS
  <1>2. exchange = ExchangeOf(ns, nm, m, ac) /\ ns \in Nat \ {0}
    BY <1>1 DEF GoodExchange, ExchangeShaped
  <1>3. e = ExchangeOf(ns + 1, nm, m, ac)
    BY <1>2 DEF NextSeq, ExchangeOf
  <1>4. /\ ExchangeShaped(e) /\ e.next_seq = ns + 1 /\ e.next_md_seq = nm
        /\ e.manager = m /\ e.accounts = ac
    BY <1>3, ExchangeParts, ExchangeOfShaped
  <1>5. GoodExchange(e)
    <2>1. nm \in Nat \ {0} /\ GoodManager(m) /\ GoodAccounts(ac)
      BY <1>1 DEF GoodExchange
    <2>2. ns + 1 \in Nat \ {0}
      BY <1>2
    <2> QED
      BY <1>4, <2>1, <2>2 DEF GoodExchange
  <1> QED
    BY <1>1, <1>3, <1>4, <1>5

(* The state after the answer r. *)
LEMMA AnswerIs ==
  ASSUME NEW cmd, NEW r, Answer(cmd, r)
  PROVE  /\ exchange' = r.exchange
         /\ last'.md = r.md /\ last'.reason = r.reason
         /\ ~ last'.accepted => ~ r.accepted
         /\ Journaling => md_checksum' = md_checksum \o r.md
  <1>1. /\ exchange' = r.exchange
        /\ md_checksum' = IF Journaling THEN md_checksum \o r.md ELSE md_checksum
        /\ last' = [cmd |-> cmd, accepted |-> r.accepted, reason |-> r.reason,
                    md |-> r.md, thrown |-> r.thrown]
    BY DEF Answer
  <1>2. last'.md = r.md /\ last'.reason = r.reason
    BY <1>1
  <1>3. last'.accepted = r.accepted
    BY <1>1
  <1> QED
    BY <1>1, <1>2, <1>3

(* The inductive invariant of the types. *)
ExchangeInv ==
  /\ GoodExchange(exchange) /\ exchange.next_seq <= MaxSeq + 1
  /\ MdFrom(last.md, exchange.next_md_seq - Len(last.md))
  /\ last.reason \in RejectReasons

LEMMA SequencesKeeps ==
  ASSUME GoodExchange(exchange), NEW cmd, NEW sc, NEW r, Sequences(cmd, sc, r)
  PROVE  /\ ExchangeInv'
         /\ exchange'.next_seq = exchange.next_seq + 1
         /\ exchange'.next_md_seq = exchange.next_md_seq + Len(r.md) /\ last'.md = r.md
         /\ OrdersStem(exchange'.manager, exchange.manager, cmd)
         /\ ~ last'.accepted => SameHoldings(exchange'.accounts, exchange.accounts)
         /\ Disciplined /\ Indexed(exchange.manager) =>
              /\ Indexed(exchange'.manager)
              /\ ~ last'.accepted => exchange'.manager = exchange.manager
              /\ NumberedTells(last'.md, exchange.next_md_seq, exchange.manager,
                               exchange'.manager)
  <1>1. PICK e, ns, nm : e = NextSeq /\ ns = exchange.next_seq /\ nm = exchange.next_md_seq
    OBVIOUS
  <1>2. /\ GoodExchange(e) /\ e.next_seq = ns + 1 /\ e.next_md_seq = nm
        /\ e.manager = exchange.manager /\ e.accounts = exchange.accounts
    BY <1>1, NextSeqIs
  <1>3. /\ cmd \in Commands /\ sc.seq = ns /\ sc.cmd = cmd /\ Applicable(sc)
        /\ r = ApplySequenced(e, sc) /\ Answer(cmd, r) /\ ns <= MaxSeq
        /\ Disciplined => Obeys(cmd) /\ Validate(cmd) = "None"
    BY <1>1 DEF Sequences
  <1>4. ns \in Nat \ {0} /\ nm \in Nat \ {0} /\ MaxSeq \in Nat
    BY <1>1, CallAssumption DEF GoodExchange
  <1>5. /\ ExchangeShaped(r.exchange)
        /\ GoodManager(r.exchange.manager) /\ GoodAccounts(r.exchange.accounts)
        /\ r.exchange.next_seq = SeqAfter(ns + 1, ns)
        /\ r.exchange.next_md_seq = nm + Len(r.md)
        /\ MdFrom(r.md, nm) /\ r.reason \in RejectReasons
        /\ OrdersStem(r.exchange.manager, exchange.manager, cmd)
        /\ ~ r.accepted => SameHoldings(r.exchange.accounts, exchange.accounts)
        /\ Indexed(exchange.manager) /\ Tidy(exchange.manager, cmd) =>
             /\ Indexed(r.exchange.manager)
             /\ ~ r.accepted => r.exchange.manager = exchange.manager
             /\ NumberedTells(r.md, nm, exchange.manager, r.exchange.manager)
    BY <1>2, <1>3, ApplyDoes
  <1>6. SeqAfter(ns + 1, ns) = ns + 1
    BY <1>4 DEF SeqAfter
  <1>7. Len(r.md) \in Nat
    BY <1>5 DEF MdFrom
  <1>8. /\ exchange' = r.exchange /\ last'.md = r.md /\ last'.reason = r.reason
        /\ ~ last'.accepted => ~ r.accepted
    BY <1>3, AnswerIs
  <1>9. GoodExchange(exchange')
    BY <1>4, <1>5, <1>6, <1>7, <1>8 DEF GoodExchange
  <1>10. exchange'.next_seq <= MaxSeq + 1
    BY <1>3, <1>4, <1>5, <1>6, <1>8
  <1>11. MdFrom(last'.md, exchange'.next_md_seq - Len(last'.md))
    <2>1. nm = exchange'.next_md_seq - Len(last'.md)
      BY <1>4, <1>5, <1>7, <1>8
    <2> QED
      BY <1>5, <1>8, <2>1
  <1>12. ExchangeInv'
    BY <1>5, <1>8, <1>9, <1>10, <1>11 DEF ExchangeInv
  <1>13. Disciplined => Tidy(exchange.manager, cmd)
    <2> SUFFICES ASSUME Disciplined PROVE Tidy(exchange.manager, cmd)
      OBVIOUS
    <2>1. Obeys(cmd) /\ Validate(cmd) = "None"
      BY <1>3
    <2>2. cmd.type = "Replace" => cmd.qty # 0
      BY <2>1 DEF Validate
    <2> QED
      BY <2>1, <2>2 DEF Obeys, Tidy
  <1> QED
    BY <1>1, <1>5, <1>6, <1>8, <1>12, <1>13

LEMMA RefusesKeeps ==
  ASSUME GoodExchange(exchange), NEW cmd, NEW reason, NEW r, RefusesFrame(cmd, reason, r)
  PROVE  /\ ExchangeInv'
         /\ exchange'.next_seq = exchange.next_seq + 1
         /\ exchange'.next_md_seq = exchange.next_md_seq + Len(r.md) /\ last'.md = r.md
         /\ NumberedTells(last'.md, exchange.next_md_seq, exchange.manager, exchange.manager)
         /\ exchange'.manager = exchange.manager /\ exchange'.accounts = exchange.accounts
  <1>1. PICK ns, nm, m, ac, e :
          /\ ns = exchange.next_seq /\ nm = exchange.next_md_seq
          /\ m = exchange.manager /\ ac = exchange.accounts /\ e = NextSeq
    OBVIOUS
  <1>2. e = ExchangeOf(ns + 1, nm, m, ac)
    BY <1>1, NextSeqIs
  <1>3. /\ reason \in RejectReasons /\ r = Reject(e, Dummy, reason) /\ Answer(cmd, r)
        /\ ns <= MaxSeq
    BY <1>1 DEF RefusesFrame
  <1>4. r = Refused(ns + 1, nm, m, ac, Dummy, reason)
    BY <1>2, <1>3, RejectIs
  <1>5. ns \in Nat \ {0} /\ nm \in Nat \ {0} /\ MaxSeq \in Nat
        /\ GoodManager(m) /\ GoodAccounts(ac)
    BY <1>1, CallAssumption DEF GoodExchange
  <1>6. /\ ExchangeShaped(r.exchange)
        /\ r.exchange.next_seq = ns + 1 /\ r.exchange.next_md_seq = nm + Len(r.md)
        /\ r.exchange.manager = m /\ r.exchange.accounts = ac
        /\ MdFrom(r.md, nm) /\ ~ r.accepted /\ r.reason \in RejectReasons
    BY <1>3, <1>4, <1>5, DummyAnswerable, RefusedDoes
  <1>7. Len(r.md) \in Nat
    BY <1>6 DEF MdFrom
  <1>8. exchange' = r.exchange /\ last'.md = r.md /\ last'.reason = r.reason
    BY <1>3, AnswerIs
  <1>9. GoodExchange(exchange')
    BY <1>5, <1>6, <1>7, <1>8 DEF GoodExchange
  <1>10. exchange'.next_seq <= MaxSeq + 1
    BY <1>3, <1>5, <1>6, <1>8
  <1>11. MdFrom(last'.md, exchange'.next_md_seq - Len(last'.md))
    <2>1. nm = exchange'.next_md_seq - Len(last'.md)
      BY <1>5, <1>6, <1>7, <1>8
    <2> QED
      BY <1>6, <1>8, <2>1
  <1>12. ExchangeInv'
    BY <1>6, <1>8, <1>9, <1>10, <1>11 DEF ExchangeInv
  <1>13. NumberedTells(r.md, nm, m, m)
    BY <1>3, <1>4, DummyAnswerable, RefusedTells
  <1> QED
    BY <1>1, <1>6, <1>8, <1>12, <1>13

LEMMA NewExchangeIs ==
  /\ NewExchange = ExchangeOf(1, 1, EmptyManager, [a \in Accounts |-> NewAccount])
  /\ GoodExchange(NewExchange) /\ NewExchange.next_seq = 1 /\ NewExchange.next_md_seq = 1
  /\ NewExchange.manager = EmptyManager
  <1>1. PICK m, ac, e : /\ m = EmptyManager /\ ac = [a \in Accounts |-> NewAccount]
                        /\ e = NewExchange
    OBVIOUS
  <1>2. e = ExchangeOf(1, 1, m, ac)
    BY <1>1 DEF NewExchange, ExchangeOf
  <1>3. /\ ExchangeShaped(e) /\ e.next_seq = 1 /\ e.next_md_seq = 1
        /\ e.manager = m /\ e.accounts = ac
    BY <1>2, ExchangeParts, ExchangeOfShaped
  <1>4. GoodManager(m) /\ GoodAccounts(ac)
    BY <1>1, EmptyManagerGood, NewAccountsGood
  <1>5. GoodExchange(e)
    BY <1>3, <1>4 DEF GoodExchange
  <1> QED
    BY <1>1, <1>2, <1>3, <1>5

(* An exchange that has started. *)
Started == exchange = NewExchange /\ last = NoCall

LEMMA StartedInv == Started => ExchangeInv /\ Indexed(exchange.manager)
  <1> SUFFICES ASSUME Started PROVE ExchangeInv /\ Indexed(exchange.manager)
    OBVIOUS
  <1>1. exchange = NewExchange /\ last = NoCall
    BY DEF Started
  <1>2. last.md = <<>> /\ last.reason = "None"
    BY <1>1 DEF NoCall
  <1>3. MdFrom(last.md, exchange.next_md_seq - Len(last.md))
    <2>1. last.md \in Seq(Stamps) /\ DOMAIN last.md = {}
      BY <1>2
    <2> QED
      BY <2>1 DEF MdFrom
  <1>4. last.reason \in RejectReasons
    BY <1>2 DEF RejectReasons, BookRejects
  <1>5. exchange.next_seq <= MaxSeq + 1
    <2>1. exchange.next_seq = 1 /\ MaxSeq \in Nat
      BY <1>1, NewExchangeIs, CallAssumption
    <2> QED
      BY <2>1
  <1>6. GoodExchange(exchange) /\ Indexed(exchange.manager)
    BY <1>1, NewExchangeIs, EmptyManagerGood
  <1> QED
    BY <1>3, <1>4, <1>5, <1>6 DEF ExchangeInv

LEMMA InitExchangeInv == Init => ExchangeInv /\ Indexed(exchange.manager)
  BY StartedInv DEF Init, Started

LEMMA NextExchangeInv == ExchangeInv /\ [Next]_vars => ExchangeInv'
  <1> SUFFICES ASSUME ExchangeInv, [Next]_vars PROVE ExchangeInv'
    OBVIOUS
  <1>1. GoodExchange(exchange) /\ exchange.next_seq \in Nat
    BY DEF ExchangeInv, GoodExchange
  <1>2. CASE Next
    BY <1>1, <1>2, NextIs, SequencesKeeps, RefusesKeeps
  <1>3. CASE UNCHANGED vars
    BY <1>3 DEF vars, ExchangeInv
  <1> QED
    BY <1>2, <1>3

LEMMA ExchangeInvariance == Spec => []ExchangeInv
  <1>1. Init => ExchangeInv
    BY InitExchangeInv
  <1> QED
    BY <1>1, NextExchangeInv, PTL DEF Spec

(***************************************************************************)
(* Whatever clients send, every part of the exchange keeps its type, and   *)
(* the market data of a call is numbered without a gap up to the number    *)
(* the next call will begin with (TypeOK).                                 *)
(***************************************************************************)
THEOREM ExchangeTypeCorrect == Spec => []TypeOK
  <1>1. ExchangeInv => TypeOK
    <2> SUFFICES ASSUME ExchangeInv PROVE TypeOK
      OBVIOUS
    <2>1. PICK m, ac, md, nm :
            /\ m = exchange.manager /\ ac = exchange.accounts /\ md = last.md
            /\ nm = exchange.next_md_seq
      OBVIOUS
    <2>2. /\ exchange.next_seq \in Nat \ {0} /\ exchange.next_seq <= MaxSeq + 1
          /\ nm \in Nat \ {0} /\ MaxSeq \in Nat
          /\ GoodManager(m) /\ GoodAccounts(ac) /\ MdFrom(md, nm - Len(md))
          /\ last.reason \in RejectReasons
      BY <2>1, CallAssumption DEF ExchangeInv, GoodExchange
    <2>3. exchange.next_seq \in 1 .. MaxSeq + 1
      BY <2>2
    <2>4. m.order_to_symbol \in [OrderIds -> Symbols \cup {kNoSymbol}]
      BY <2>2 DEF GoodManager
    <2>5. m.books \in [Symbols -> QueueBooks]
      <3>1. m.books = [s \in Symbols |-> m.books[s]] /\ \A s \in Symbols : m.books[s] \in QueueBooks
        BY <2>2 DEF GoodManager, GoodBook
      <3> QED
        BY <3>1
    <2>6. \A a \in Accounts : /\ ac[a].open_orders \in Nat /\ ac[a].open_notional \in Nat
                              /\ Len(ac[a].recent_msgs) <= max_msgs_per_window
      BY <2>2 DEF GoodAccounts, AccountsTyped
    <2>7. \A k \in DOMAIN md : /\ md[k].ev \in PublishedEvents
                               /\ md[k].seq = nm - Len(md) + k - 1
      <3>1. md \in Seq(Stamps) /\ \A k \in DOMAIN md : md[k].seq = nm - Len(md) + k - 1
        BY <2>2 DEF MdFrom
      <3>2. \A k \in DOMAIN md : md[k].ev \in PublishedEvents
        <4>1. \A k \in DOMAIN md : md[k] \in Stamps
          BY <3>1
        <4> QED
          BY <4>1 DEF Stamps
      <3> QED
        BY <3>1, <3>2
    <2> QED
      BY <2>1, <2>2, <2>3, <2>4, <2>5, <2>6, <2>7 DEF TypeOK, books
  <1> QED
    BY <1>1, ExchangeInvariance, PTL

(***************************************************************************)
(* Whatever clients send - an id used again while its order rests,         *)
(* replacements that fail half way - the index never says an order rests   *)
(* in a book in which it does not (BookManager, IndexNeverDangles).        *)
(***************************************************************************)
THEOREM IndexSafe == Spec => []IndexNeverDangles
  <1>1. ExchangeInv => IndexNeverDangles
    BY DEF ExchangeInv, GoodExchange, GoodManager, IndexNeverDangles, BookOf, books
  <1> QED
    BY <1>1, ExchangeInvariance, PTL

(* Clients that keep to Obeys: nothing rests that the index does not have. *)
TidyInv == ExchangeInv /\ Indexed(exchange.manager)

LEMMA NextTidyInv == ASSUME Disciplined PROVE TidyInv /\ [Next]_vars => TidyInv'
  <1> SUFFICES ASSUME TidyInv, [Next]_vars PROVE TidyInv'
    OBVIOUS
  <1>1. ExchangeInv'
    BY NextExchangeInv DEF TidyInv
  <1>2. GoodExchange(exchange) /\ exchange.next_seq \in Nat /\ Indexed(exchange.manager)
    BY DEF TidyInv, ExchangeInv, GoodExchange
  <1>3. CASE Next
    <2>1. ASSUME NEW cmd, NEW sc, NEW r, Sequences(cmd, sc, r)
          PROVE  Indexed(exchange'.manager)
      BY <1>2, <2>1, SequencesKeeps
    <2>2. ASSUME NEW cmd, NEW reason, NEW r, RefusesFrame(cmd, reason, r)
          PROVE  Indexed(exchange'.manager)
      BY <1>2, <2>2, RefusesKeeps
    <2> QED
      BY <1>1, <1>2, <1>3, <2>1, <2>2, NextIs DEF TidyInv
  <1>4. CASE UNCHANGED vars
    BY <1>1, <1>2, <1>4 DEF vars, TidyInv
  <1> QED
    BY <1>3, <1>4

(* The events of a call tell how it left the manager. *)
LEMMA NextTells ==
  ASSUME Disciplined, TidyInv, Next
  PROVE  /\ exchange'.next_md_seq = exchange.next_md_seq + Len(last'.md)
         /\ NumberedTells(last'.md, exchange.next_md_seq, exchange.manager, exchange'.manager)
  <1>1. GoodExchange(exchange) /\ exchange.next_seq \in Nat /\ Indexed(exchange.manager)
    BY DEF TidyInv, ExchangeInv, GoodExchange
  <1> DEFINE Told == /\ exchange'.next_md_seq = exchange.next_md_seq + Len(last'.md)
                     /\ NumberedTells(last'.md, exchange.next_md_seq, exchange.manager,
                                      exchange'.manager)
  <1>2. ASSUME NEW cmd, NEW sc, NEW r, Sequences(cmd, sc, r) PROVE Told
    BY <1>1, <1>2, SequencesKeeps
  <1>3. ASSUME NEW cmd, NEW reason, NEW r, RefusesFrame(cmd, reason, r) PROVE Told
    BY <1>1, <1>3, RefusesKeeps
  <1> QED
    BY <1>1, <1>2, <1>3, NextIs

LEMMA TidyInvariance == ASSUME Disciplined PROVE Spec => []TidyInv
  <1>1. Init => TidyInv
    BY InitExchangeInv DEF TidyInv
  <1>2. TidyInv /\ [Next]_vars => TidyInv'
    BY NextTidyInv
  <1> QED
    BY <1>1, <1>2, PTL DEF Spec

(***************************************************************************)
(* If clients give no id to two resting orders and replace within the      *)
(* ladder, the index has exactly the resting orders, through trades that   *)
(* fill several of them and replacements that reuse the id                 *)
(* (refresh_index_after_add, remove_index, IndexAgrees).                   *)
(***************************************************************************)
THEOREM IndexCorrect == ASSUME Disciplined PROVE Spec => []IndexAgrees
  <1>1. TidyInv => IndexAgrees
    <2> SUFFICES ASSUME TidyInv, NEW id \in OrderIds, NEW s \in Symbols
                 PROVE  BookOf(id) = s <=> id \in LiveIds(books[s])
      BY DEF IndexAgrees
    <2>1. GoodManager(exchange.manager) /\ Indexed(exchange.manager)
      BY DEF TidyInv, ExchangeInv, GoodExchange
    <2>2. s # kNoSymbol
      BY NoSymbolIsNone
    <2>3. BookOf(id) = s => id \in LiveIds(books[s])
      BY <2>1, <2>2 DEF GoodManager, BookOf, books
    <2>4. id \in LiveIds(books[s]) => BookOf(id) = s
      BY <2>1 DEF Indexed, BookOf, books
    <2> QED
      BY <2>3, <2>4
  <1> QED
    BY <1>1, TidyInvariance, PTL

-----------------------------------------------------------------------------
(* What refusals leave behind. *)

(* The index changes for the order added and for those erased or gone. *)
LEMMA BookedIndexChange ==
  ASSUME NEW m, NEW s, NEW call, NEW id0, NEW erased,
         NEW n, n = Booked(m, s, call, erased, id0).manager
  PROVE  \A x \in OrderIds : n.order_to_symbol[x] # m.order_to_symbol[x] =>
           \/ x = id0
           \/ /\ n.order_to_symbol[x] = kNoSymbol
              /\ x \in erased \/ x \in Gone(call.queues, call.md)
  <1> SUFFICES ASSUME NEW x \in OrderIds, n.order_to_symbol[x] # m.order_to_symbol[x]
               PROVE  \/ x = id0
                      \/ /\ n.order_to_symbol[x] = kNoSymbol
                         /\ x \in erased \/ x \in Gone(call.queues, call.md)
    OBVIOUS
  <1>1. PICK gone, index1 : /\ gone = erased \cup Gone(call.queues, call.md)
                            /\ index1 = n.order_to_symbol
    OBVIOUS
  <1>2. index1 = Reindexed(m.order_to_symbol, gone, call.queues, s, id0)
    <2>1. n.order_to_symbol = IndexAfter(m, s, call, erased, id0)
      BY BookedManager
    <2> QED
      BY <1>1, <2>1 DEF IndexAfter
  <1>3. index1[x] = IF x = id0 /\ x \in LiveIds(call.queues) THEN s
                    ELSE IF x \in gone THEN kNoSymbol ELSE m.order_to_symbol[x]
    BY <1>2 DEF Reindexed
  <1>4. CASE x = id0
    BY <1>4
  <1>5. CASE x # id0
    <2>1. index1[x] = IF x \in gone THEN kNoSymbol ELSE m.order_to_symbol[x]
      BY <1>3, <1>5
    <2>2. x \in gone /\ index1[x] = kNoSymbol
      BY <1>1, <2>1
    <2> QED
      BY <1>1, <2>2
  <1> QED
    BY <1>4, <1>5

(* A replacement that is refused has left the book alone, or has taken the old *)
(* order out of it.                                                            *)
LEMMA ReplaceRefused ==
  ASSUME NEW q, GoodBook(q), NEW old \in LiveIds(q), NEW o \in Sent,
         NEW c, c = ReplaceCall(q, old, o), c.reject # "None"
  PROVE  /\ \A x \in Gone(c.queues, c.md) : x = old
         /\ \/ c.queues = q
            \/ /\ PriceInBand(o.price) /\ c.queues = Without(q, old)
               /\ o.qty = 0 \/ o.order_id \in LiveIds(c.queues)
  <1>1. CASE ~ PriceInBand(o.price)
    <2>1. c = [queues |-> q, md |-> <<>>, reject |-> "InvalidPrice"]
      BY <1>1 DEF ReplaceCall, MatchOutput
    <2>2. c.queues = q /\ c.md = <<>>
      BY <2>1
    <2> QED
      BY <2>2 DEF Gone
  <1>2. CASE PriceInBand(o.price)
    <2>1. PICK x, b, a : x = CancelCall(q, old) /\ b = x.queues /\ a = AddCall(b, o)
      OBVIOUS
    <2>2. /\ x.reject = "None" /\ x.md \in Seq(BookEvents) /\ b = Without(q, old)
          /\ \A k \in DOMAIN x.md : x.md[k].order_id = old
          /\ GoodBook(b)
      BY <2>1, CancelCallDoes
    <2>3. c = [a EXCEPT !.md = x.md \o @]
      BY <1>2, <2>1, <2>2 DEF ReplaceCall, AddAfter
    <2>4. /\ CallDoes(a, b, o, {}) /\ a.reject = AddRefusal(LiveIds(b), o)
          /\ a.reject # "None" => a.queues = b /\ a.md = <<>>
      BY <2>1, <2>2, AddCallDoes
    <2>5. a = [queues |-> a.queues, md |-> a.md, reject |-> a.reject]
      BY <2>4 DEF CallDoes
    <2>6. PICK md : md = x.md \o a.md
      OBVIOUS
    <2>7. c = [queues |-> a.queues, md |-> md, reject |-> a.reject]
      BY <2>3, <2>5, <2>6
    <2>8. c.queues = a.queues /\ c.md = md /\ c.reject = a.reject
      BY <2>7
    <2>9. c.queues = b /\ a.md = <<>> /\ AddRefusal(LiveIds(b), o) # "None"
      BY <2>4, <2>8
    <2>10. c.md = x.md
      BY <2>2, <2>6, <2>8, <2>9
    <2>11. o.qty = 0 \/ o.order_id \in LiveIds(b)
      BY <1>2, <2>9 DEF AddRefusal
    <2>12. \A y \in Gone(c.queues, c.md) : y = old
      BY <2>2, <2>10 DEF Gone
    <2> QED
      BY <1>2, <2>2, <2>9, <2>11, <2>12
  <1> QED
    BY <1>1, <1>2

LEMMA NothingLeft == ASSUME NEW m, NEW cmd PROVE RefusedLeaves(m, m, cmd)
  BY DEF RefusedLeaves

LEMMA AddRefusedLeaves ==
  ASSUME NEW m, GoodManager(m), NEW cmd, Executable(m, cmd), cmd.type = "New",
         NEW c, c = AddOrder(m, cmd), c.reject # "None"
  PROVE  RefusedLeaves(m, c.manager, cmd)
  <1>1. PICK s, o, call, erased, id0, n :
          /\ s = cmd.symbol_id /\ o = OrderFrom(cmd) /\ call = AddCall(m.books[s], o)
          /\ erased = {} /\ id0 = cmd.order_id /\ n = c.manager
    OBVIOUS
  <1>2. /\ cmd \in Command /\ cmd.order_id \in OrderIds /\ cmd.account_id \in Accounts
        /\ s \in Symbols
    BY <1>1 DEF Executable, HasBook
  <1>3. o \in Sent
    BY <1>1, <1>2, OrderFromSent
  <1>4. c = Booked(m, s, call, erased, id0)
    BY <1>1 DEF AddOrder
  <1>5. call.reject # "None"
    BY <1>4, BookedAnswers
  <1>6. call.queues = m.books[s] /\ call.md = <<>>
    <2>1. GoodBook(m.books[s])
      BY <1>2 DEF GoodManager
    <2> QED
      BY <1>1, <1>3, <1>5, <2>1, AddCallDoes
  <1>7. n = Booked(m, s, call, erased, id0).manager
    BY <1>1, <1>4
  <1>8. n.books = BooksAfter(m, s, call)
    BY <1>7, BookedManager
  <1>9. \A t \in Symbols : n.books[t] = m.books[t]
    <2>1. m.books = [t \in Symbols |-> m.books[t]]
      BY DEF GoodManager
    <2> QED
      BY <1>6, <1>8, <2>1 DEF BooksAfter
  <1>10. Gone(call.queues, call.md) = {}
    BY <1>6 DEF Gone
  <1>11. \A x \in OrderIds : n.order_to_symbol[x] # m.order_to_symbol[x] =>
           \/ x = id0
           \/ /\ n.order_to_symbol[x] = kNoSymbol
              /\ x \in erased \/ x \in Gone(call.queues, call.md)
    BY <1>7, BookedIndexChange
  <1>12. \A x \in OrderIds : n.order_to_symbol[x] # m.order_to_symbol[x] =>
           x = cmd.order_id
    BY <1>1, <1>10, <1>11
  <1> QED
    BY <1>1, <1>9, <1>12 DEF RefusedLeaves

LEMMA ReplaceRefusedLeaves ==
  ASSUME NEW m, GoodManager(m), NEW cmd, Executable(m, cmd), cmd.type = "Replace",
         NEW c, c = ReplaceOrder(m, cmd), c.reject # "None"
  PROVE  RefusedLeaves(m, c.manager, cmd)
  <1>1. PICK old, s, q, o, call, erased, id0, n :
          /\ old = cmd.cancel_order_id /\ s = m.order_to_symbol[old] /\ q = m.books[s]
          /\ o = OrderFrom(cmd) /\ call = ReplaceCall(q, old, o)
          /\ erased = {old} /\ id0 = cmd.order_id /\ n = c.manager
    OBVIOUS
  <1>2. /\ cmd \in Command /\ cmd.order_id \in OrderIds /\ cmd.account_id \in Accounts
        /\ old \in OrderIds /\ s # kNoSymbol
    BY <1>1 DEF Executable, ContainsOrder
  <1>3. s \in Symbols /\ GoodBook(q) /\ old \in LiveIds(q)
    BY <1>1, <1>2 DEF GoodManager
  <1>4. /\ o \in Sent /\ o.order_id = cmd.order_id /\ o.price = cmd.price
        /\ o.qty = cmd.qty
    BY <1>1, <1>2, OrderFromSent
  <1>5. c = Booked(m, s, call, erased, id0)
    BY <1>1, <1>2 DEF ReplaceOrder
  <1>6. call.reject # "None"
    BY <1>5, BookedAnswers
  <1>7. /\ \A x \in Gone(call.queues, call.md) : x = old
        /\ \/ call.queues = q
           \/ /\ PriceInBand(o.price) /\ call.queues = Without(q, old)
              /\ o.qty = 0 \/ o.order_id \in LiveIds(call.queues)
    BY <1>1, <1>3, <1>4, <1>6, ReplaceRefused
  <1>8. n = Booked(m, s, call, erased, id0).manager
    BY <1>1, <1>5
  <1>9. n.books = BooksAfter(m, s, call)
    BY <1>8, BookedManager
  <1>10. \A t \in Symbols : n.books[t] = IF t = s THEN call.queues ELSE m.books[t]
    <2>1. m.books = [t \in Symbols |-> m.books[t]]
      BY DEF GoodManager
    <2> QED
      BY <1>9, <2>1 DEF BooksAfter
  <1>11. ASSUME NEW t \in Symbols, n.books[t] # m.books[t]
         PROVE  /\ PriceInBand(cmd.price) /\ t = s
                /\ n.books[t] = Without(m.books[t], old)
                /\ cmd.qty = 0 \/ cmd.order_id \in LiveIds(n.books[t])
    <2>1. t = s /\ n.books[t] = call.queues /\ call.queues # q
      BY <1>1, <1>10, <1>11
    <2> QED
      BY <1>1, <1>4, <1>7, <2>1
  <1>12. \A x \in OrderIds : n.order_to_symbol[x] # m.order_to_symbol[x] =>
           \/ x = id0
           \/ /\ n.order_to_symbol[x] = kNoSymbol
              /\ x \in erased \/ x \in Gone(call.queues, call.md)
    BY <1>8, BookedIndexChange
  <1>13. \A x \in OrderIds : n.order_to_symbol[x] # m.order_to_symbol[x] =>
           \/ n.order_to_symbol[x] = kNoSymbol /\ x = old
           \/ x = cmd.order_id
    BY <1>1, <1>7, <1>12, Zenon
  <1> QED
    BY <1>1, <1>11, <1>13 DEF RefusedLeaves

LEMMA ExecuteRefusedLeaves ==
  ASSUME NEW m, GoodManager(m), NEW cmd, Executable(m, cmd),
         NEW c, c = Execute(m, cmd), c.reject # "None"
  PROVE  RefusedLeaves(m, c.manager, cmd)
  <1>1. CASE cmd.type = "New"
    <2>1. c = AddOrder(m, cmd)
      BY <1>1 DEF Execute
    <2> QED
      BY <1>1, <2>1, AddRefusedLeaves
  <1>2. CASE cmd.type = "Cancel"
    <2>1. c = CancelOrder(m, cmd.cancel_order_id)
      BY <1>2 DEF Execute
    <2> QED
      BY <1>2, <2>1, CancelOrderDoes
  <1>3. CASE cmd.type = "Replace"
    <2>1. c = ReplaceOrder(m, cmd)
      BY <1>3 DEF Execute
    <2> QED
      BY <1>3, <2>1, ReplaceRefusedLeaves
  <1>4. cmd.type \in {"New", "Cancel", "Replace"}
    BY DEF Executable, Command
  <1> QED
    BY <1>1, <1>2, <1>3, <1>4

OnlyRejects(md) == \A k \in DOMAIN md : md[k].ev.type = "Reject"

LEMMA RefusedRejects ==
  ASSUME NEW ns, NEW nm, NEW m, NEW ac, NEW cmd, NEW reason,
         NEW r, r = Refused(ns, nm, m, ac, cmd, reason)
  PROVE  OnlyRejects(r.md) /\ r.exchange.manager = m
  <1>1. PICK ev, evs, e : /\ ev = RejectEvent(cmd, reason) /\ evs = <<ev>>
                          /\ e = ExchangeOf(ns, nm + 1, m, ac)
    OBVIOUS
  <1>2. r.md = Numbered(evs, nm) /\ r.exchange = e
    BY <1>1, RefusedParts
  <1>3. ev.type = "Reject"
    BY <1>1 DEF RejectEvent
  <1>4. \A k \in DOMAIN evs : evs[k].type = "Reject"
    BY <1>1, <1>3
  <1>5. OnlyRejects(r.md)
    BY <1>2, <1>4 DEF OnlyRejects, Numbered
  <1> QED
    BY <1>1, <1>2, <1>5, ExchangeParts

LEMMA ApplyRefusedLeaves ==
  ASSUME NEW e, GoodExchange(e), NEW sc, Applicable(sc), NEW cmd, cmd = sc.cmd,
         NEW r, r = ApplySequenced(e, sc), ~ r.accepted
  PROVE  RefusedLeaves(e.manager, r.exchange.manager, cmd) /\ OnlyRejects(r.md)
  <1>1. PICK ns, nm, m, ac, now, known :
          /\ ns = e.next_seq /\ nm = e.next_md_seq /\ m = e.manager /\ ac = e.accounts
          /\ now = sc.recv_ts_ns /\ known = ContainsOrder(m, cmd.cancel_order_id)
    OBVIOUS
  <1>2. e = ExchangeOf(ns, nm, m, ac) /\ GoodManager(m) /\ GoodAccounts(ac)
    BY <1>1 DEF GoodExchange, ExchangeShaped
  <1>3. PICK ns1, risk, ac1, reason, e1 :
          /\ ns1 = SeqAfter(ns, sc.seq) /\ risk = RiskOf(m, ac, sc)
          /\ ac1 = risk.accounts /\ reason = risk.reason
          /\ e1 = ExchangeOf(ns1, nm, m, ac1) /\ r = Checked(e1, cmd, reason)
    BY <1>2, ApplyIs
  <1>4. /\ cmd \in Command /\ cmd.account_id \in Accounts /\ now \in Nat
        /\ cmd.type # "Cancel" => cmd.order_id \in OrderIds
    BY <1>1 DEF Applicable
  <1>5. known \in BOOLEAN
    BY <1>1 DEF ContainsOrder
  <1>6. risk = Check(ac, cmd, known, now)
    BY <1>1, <1>3 DEF RiskOf
  <1>7. reason = "None" /\ cmd.type # "New" => known
    BY <1>2, <1>3, <1>4, <1>5, <1>6, CheckDoes
  <1>8. PICK c, n : c = Execute(m, cmd) /\ n = c.manager
    OBVIOUS
  <1>9. \/ r = Refused(ns1, nm, m, ac1, cmd, reason)
        \/ r = Thrown(ns1, nm, m, ac1)
        \/ /\ reason = "None" /\ ~ NoBook(cmd) /\ c.reject # "None"
           /\ r = Refused(ns1, nm, n, ac1, cmd, c.reject)
        \/ r = Taken(ns1, nm, n, ac1, c.md)
    BY <1>3, <1>8, CheckedIs
  <1>10. CASE r = Refused(ns1, nm, m, ac1, cmd, reason)
    BY <1>1, <1>10, RefusedRejects, NothingLeft
  <1>11. CASE r = Thrown(ns1, nm, m, ac1)
    <2>1. r.exchange = ExchangeOf(ns1, nm, m, ac1) /\ r.md = <<>>
      BY <1>11, ThrownParts
    <2>2. r.exchange.manager = m
      BY <2>1, ExchangeParts
    <2>3. OnlyRejects(r.md)
      BY <2>1 DEF OnlyRejects
    <2> QED
      BY <1>1, <2>2, <2>3, NothingLeft
  <1>12. CASE /\ reason = "None" /\ ~ NoBook(cmd) /\ c.reject # "None"
              /\ r = Refused(ns1, nm, n, ac1, cmd, c.reject)
    <2>1. Executable(m, cmd)
      BY <1>1, <1>4, <1>7, <1>12 DEF Executable, NoBook
    <2>2. RefusedLeaves(m, n, cmd)
      BY <1>2, <1>8, <1>12, <2>1, ExecuteRefusedLeaves
    <2>3. PICK why : why = c.reject
      OBVIOUS
    <2>4. r = Refused(ns1, nm, n, ac1, cmd, why)
      BY <1>12, <2>3
    <2>5. OnlyRejects(r.md) /\ r.exchange.manager = n
      BY <2>4, RefusedRejects
    <2> QED
      BY <1>1, <2>2, <2>5
  <1>13. CASE r = Taken(ns1, nm, n, ac1, c.md)
    <2>1. PICK md : md = c.md
      OBVIOUS
    <2>2. r.accepted
      BY <1>13, <2>1, TakenParts
    <2> QED
      BY <2>2
  <1> QED
    BY <1>9, <1>10, <1>11, <1>12, <1>13

(***************************************************************************)
(* Whatever clients send, a refused command leaves the books, the index,   *)
(* the accounts and the feed as RefusalsTakeOneOrder says: a replacement   *)
(* refused half way (order_book.cpp:298) is the only refusal that changes  *)
(* a book, and it changes one, by the one order it was to replace.         *)
(***************************************************************************)
THEOREM RefusalsCorrect == Spec => RefusalsTakeOneOrder
  <1> DEFINE Kept ==
        /\ RefusedLeaves(exchange.manager, exchange'.manager, last'.cmd)
        /\ SameHoldings(exchange'.accounts, exchange.accounts)
        /\ OnlyRejects(last'.md)
  <1>1. ASSUME ExchangeInv, Next, ~ last'.accepted
        PROVE  Kept
    <2>1. GoodExchange(exchange) /\ exchange.next_seq \in Nat
      BY <1>1 DEF ExchangeInv, GoodExchange
    <2>2. ASSUME NEW cmd, NEW sc, NEW r, Sequences(cmd, sc, r)
          PROVE  Kept
      <3>1. PICK e : e = NextSeq
        OBVIOUS
      <3>2. GoodExchange(e) /\ e.manager = exchange.manager
        BY <2>1, <3>1, NextSeqIs
      <3>3. /\ cmd = sc.cmd /\ Applicable(sc) /\ r = ApplySequenced(e, sc)
            /\ Answer(cmd, r)
        BY <2>2, <3>1 DEF Sequences
      <3>4. exchange' = r.exchange /\ last'.md = r.md /\ ~ r.accepted
        BY <1>1, <3>3, AnswerIs
      <3>5. last'.cmd = cmd
        BY <3>3 DEF Answer
      <3>6. RefusedLeaves(e.manager, r.exchange.manager, cmd) /\ OnlyRejects(r.md)
        BY <3>2, <3>3, <3>4, ApplyRefusedLeaves
      <3>7. SameHoldings(exchange'.accounts, exchange.accounts)
        BY <1>1, <2>1, <2>2, SequencesKeeps
      <3> QED
        BY <3>2, <3>4, <3>5, <3>6, <3>7
    <2>3. ASSUME NEW cmd, NEW reason, NEW r, RefusesFrame(cmd, reason, r)
          PROVE  Kept
      <3>1. exchange'.manager = exchange.manager /\ exchange'.accounts = exchange.accounts
        BY <2>1, <2>3, RefusesKeeps
      <3>2. SameHoldings(exchange'.accounts, exchange.accounts)
        BY <3>1 DEF SameHoldings
      <3>3. PICK ns, nm, m, ac, e :
              /\ ns = exchange.next_seq /\ nm = exchange.next_md_seq
              /\ m = exchange.manager /\ ac = exchange.accounts /\ e = NextSeq
        OBVIOUS
      <3>4. e = ExchangeOf(ns + 1, nm, m, ac)
        BY <2>1, <3>3, NextSeqIs
      <3>5. r = Reject(e, Dummy, reason) /\ Answer(cmd, r)
        BY <2>3, <3>3 DEF RefusesFrame
      <3>6. r = Refused(ns + 1, nm, m, ac, Dummy, reason)
        BY <3>4, <3>5, RejectIs
      <3>7. OnlyRejects(r.md)
        BY <3>6, RefusedRejects
      <3>8. last'.md = r.md
        BY <3>5, AnswerIs
      <3> QED
        BY <3>1, <3>2, <3>7, <3>8, NothingLeft
    <2> QED
      BY <1>1, <2>1, <2>2, <2>3, NextIs
  <1>2. ExchangeInv /\ [Next]_vars =>
          [~ last'.accepted =>
             /\ RefusedLeaves(exchange.manager, exchange'.manager, last'.cmd)
             /\ \A a \in Accounts :
                  /\ exchange'.accounts[a].open_orders = exchange.accounts[a].open_orders
                  /\ exchange'.accounts[a].open_notional = exchange.accounts[a].open_notional
             /\ \A k \in DOMAIN last'.md : last'.md[k].ev.type = "Reject"]_vars
    BY <1>1 DEF SameHoldings, OnlyRejects
  <1> QED
    BY <1>2, ExchangeInvariance, PTL DEF Spec, RefusalsTakeOneOrder

-----------------------------------------------------------------------------
(* The limits of one order. *)

(* No order of the ladder within the limit of quantity has a value that wraps. *)
LadderDoesNotWrap == MaxPrice * max_order_qty < NotionalModulus

LineWithin(line, p) ==
  \A k \in DOMAIN line : /\ line[k].qty <= max_order_qty
                         /\ Value(p, line[k].qty) <= max_order_notional

BookWithin(q) == \A s \in Sides, p \in Band : LineWithin(q[s][p], p)

(* Less to fill is worth less. *)
LEMMA LessIsWorthLess ==
  ASSUME NEW p \in Band, NEW n \in Nat, NEW k \in Nat, k <= n
  PROVE  Value(p, k) <= Value(p, n) /\ Value(p, n) \in Nat
  <1>1. p \in Nat
    BY LadderAssumption DEF Band
  <1>2. Value(p, k) = p * k /\ Value(p, n) = p * n
    BY <1>1 DEF Value
  <1>3. p * k <= p * n /\ p * n \in Nat
    BY <1>1
  <1> QED
    BY <1>2, <1>3

(* The value the limit was compared with is the value of the order. *)
LEMMA WithinIsWithin ==
  ASSUME LadderDoesNotWrap, NEW cmd, WithinLimits(cmd), cmd.price \in Band, cmd.qty \in Nat
  PROVE  cmd.qty <= max_order_qty /\ Value(cmd.price, cmd.qty) <= max_order_notional
  <1>1. PICK p, n : p = cmd.price /\ n = cmd.qty
    OBVIOUS
  <1>2. /\ p \in Nat /\ p <= MaxPrice /\ n \in Nat /\ n <= max_order_qty
        /\ MaxPrice \in Nat /\ max_order_qty \in Nat
    BY <1>1, LadderAssumption, LimitAssumption DEF Band, WithinLimits
  <1>3. Value(p, n) = p * n
    BY <1>2 DEF Value
  <1>4. p * n <= MaxPrice * n
    BY <1>2
  <1>5. MaxPrice * n <= MaxPrice * max_order_qty
    BY <1>2
  <1>6. PICK worth, most : worth = p * n /\ most = MaxPrice * max_order_qty
    OBVIOUS
  <1>7. worth \in Nat /\ most \in Nat /\ worth <= most /\ most < NotionalModulus
    BY <1>2, <1>4, <1>5, <1>6 DEF LadderDoesNotWrap
  <1>8. worth % NotionalModulus = worth
    BY <1>7, LimitAssumption
  <1>9. Notional(p, n) = worth
    BY <1>3, <1>6, <1>8 DEF Notional
  <1> QED
    BY <1>1, <1>2, <1>3, <1>6, <1>9 DEF WithinLimits

LEMMA StemsWithin ==
  ASSUME LadderDoesNotWrap, NEW q, GoodBook(q), NEW q0, GoodBook(q0), BookWithin(q0),
         NEW cmd, cmd.qty \in Nat,
         \/ StemsFrom(q, q0)
         \/ WithinLimits(cmd) /\ StemsFromOr(q, q0, cmd)
  PROVE  BookWithin(q)
  <1> SUFFICES ASSUME NEW s \in Sides, NEW p \in Band, NEW k \in DOMAIN q[s][p]
               PROVE  /\ q[s][p][k].qty <= max_order_qty
                      /\ Value(p, q[s][p][k].qty) <= max_order_notional
    BY DEF BookWithin, LineWithin
  <1>1. PICK n : n = q[s][p][k].qty
    OBVIOUS
  <1>2. n \in Nat
    BY <1>1, LineType DEF GoodBook
  <1>3. max_order_qty \in Nat /\ max_order_notional \in Nat
    BY LimitAssumption
  <1>4. ASSUME NEW j \in DOMAIN q0[s][p], n <= q0[s][p][j].qty
        PROVE  n <= max_order_qty /\ Value(p, n) <= max_order_notional
    <2>1. PICK before : before = q0[s][p][j].qty
      OBVIOUS
    <2>2. before \in Nat
      BY <2>1, LineType DEF GoodBook
    <2>3. before <= max_order_qty /\ Value(p, before) <= max_order_notional
      BY <2>1 DEF BookWithin, LineWithin
    <2>4. /\ Value(p, n) <= Value(p, before) /\ Value(p, before) \in Nat
          /\ Value(p, n) \in Nat
      BY <1>2, <1>4, <2>1, <2>2, LessIsWorthLess
    <2> QED
      BY <1>2, <1>3, <1>4, <2>1, <2>2, <2>3, <2>4
  <1>5. ASSUME WithinLimits(cmd), p = cmd.price, n <= cmd.qty
        PROVE  n <= max_order_qty /\ Value(p, n) <= max_order_notional
    <2>1. PICK sent : sent = cmd.qty
      OBVIOUS
    <2>2. sent <= max_order_qty /\ Value(p, sent) <= max_order_notional
      BY <1>5, <2>1, WithinIsWithin
    <2>3. /\ Value(p, n) <= Value(p, sent) /\ Value(p, sent) \in Nat
          /\ Value(p, n) \in Nat
      BY <1>2, <1>5, <2>1, LessIsWorthLess
    <2> QED
      BY <1>2, <1>3, <1>5, <2>1, <2>2, <2>3
  <1> QED
    BY <1>1, <1>4, <1>5 DEF StemsFrom, StemsFromOr

LimitInv == ExchangeInv /\ \A s \in Symbols : BookWithin(exchange.manager.books[s])

LEMMA InitLimitInv == Init => LimitInv
  <1> SUFFICES ASSUME Init PROVE LimitInv
    OBVIOUS
  <1>1. ExchangeInv
    BY InitExchangeInv
  <1>2. exchange.manager = EmptyManager
    BY NewExchangeIs DEF Init
  <1>3. \A s \in Symbols : exchange.manager.books[s] = EmptyQueues
    BY <1>2 DEF EmptyManager
  <1>4. \A s \in Sides, p \in Band : EmptyQueues[s][p] = <<>>
    BY DEF EmptyQueues
  <1>5. \A s \in Sides, p \in Band : DOMAIN EmptyQueues[s][p] = {}
    BY <1>4
  <1>6. BookWithin(EmptyQueues)
    BY <1>5 DEF BookWithin, LineWithin
  <1> QED
    BY <1>1, <1>3, <1>6 DEF LimitInv

LEMMA NextLimitInv == ASSUME LadderDoesNotWrap PROVE LimitInv /\ [Next]_vars => LimitInv'
  <1> SUFFICES ASSUME LimitInv, [Next]_vars PROVE LimitInv'
    OBVIOUS
  <1>1. ExchangeInv'
    BY NextExchangeInv DEF LimitInv
  <1>2. GoodExchange(exchange) /\ exchange.next_seq \in Nat
    BY DEF LimitInv, ExchangeInv, GoodExchange
  <1>3. GoodManager(exchange.manager) /\ GoodManager(exchange'.manager)
    BY <1>1 DEF LimitInv, ExchangeInv, GoodExchange
  <1>4. CASE Next
    <2>1. ASSUME NEW cmd, NEW sc, NEW r, Sequences(cmd, sc, r)
          PROVE  \A s \in Symbols : BookWithin(exchange'.manager.books[s])
      <3>1. OrdersStem(exchange'.manager, exchange.manager, cmd)
        BY <1>2, <2>1, SequencesKeeps
      <3>2. cmd.qty \in Nat
        BY <2>1, CallAssumption, InputAssumption DEF Sequences, Command
      <3> SUFFICES ASSUME NEW s \in Symbols PROVE BookWithin(exchange'.manager.books[s])
        OBVIOUS
      <3>3. PICK q, q0 : q = exchange'.manager.books[s] /\ q0 = exchange.manager.books[s]
        OBVIOUS
      <3>4. GoodBook(q) /\ GoodBook(q0) /\ BookWithin(q0)
        BY <1>3, <3>3 DEF LimitInv, GoodManager
      <3>5. \/ q = q0
            \/ StemsFrom(q, q0)
            \/ WithinLimits(cmd) /\ StemsFromOr(q, q0, cmd)
        BY <3>1, <3>3 DEF OrdersStem, ManagerKeeps, ManagerStems
      <3>6. BookWithin(q)
        BY <3>2, <3>4, <3>5, StemsWithin
      <3> QED
        BY <3>3, <3>6
    <2>2. ASSUME NEW cmd, NEW reason, NEW r, RefusesFrame(cmd, reason, r)
          PROVE  \A s \in Symbols : BookWithin(exchange'.manager.books[s])
      BY <1>2, <2>2, RefusesKeeps DEF LimitInv
    <2> QED
      BY <1>1, <1>2, <1>4, <2>1, <2>2, NextIs DEF LimitInv
  <1>5. CASE UNCHANGED vars
    BY <1>1, <1>5 DEF vars, LimitInv
  <1> QED
    BY <1>4, <1>5

(***************************************************************************)
(* On a ladder on which no order within the limit of quantity has a value  *)
(* that wraps - 200 000 times 100 000 with the defaults, in 64 bits - no   *)
(* order ever rests that is over a limit of one order: a wrapped product   *)
(* lets orders through the risk engine, but only at prices the book        *)
(* refuses (RiskEngine::check, OrderLimitsHold).                           *)
(***************************************************************************)
THEOREM OrderLimitsCorrect == ASSUME LadderDoesNotWrap PROVE Spec => []OrderLimitsHold
  <1>1. Init => LimitInv
    BY InitLimitInv
  <1>2. LimitInv /\ [Next]_vars => LimitInv'
    BY NextLimitInv
  <1>3. LimitInv => OrderLimitsHold
    <2> SUFFICES ASSUME LimitInv, NEW s \in Symbols, NEW id \in LiveIds(books[s])
                 PROVE  /\ OrderOf(books[s], id).qty <= max_order_qty
                        /\ Value(OrderOf(books[s], id).price, OrderOf(books[s], id).qty)
                             <= max_order_notional
      BY DEF OrderLimitsHold, LiveOrders
    <2>1. PICK q : q = books[s]
      OBVIOUS
    <2>2. GoodBook(q) /\ q \in QueueBooks /\ BookWithin(q) /\ id \in LiveIds(q)
      BY <2>1 DEF LimitInv, ExchangeInv, GoodExchange, GoodManager, GoodBook, books
    <2>3. PICK side, p, k : IsAt(q, id, side, p, k)
      BY <2>2, LiveIsAt
    <2>4. OrderOf(q, id) = RestingAs(q[side][p][k], side, p)
      BY <2>2, <2>3, PlaceFound
    <2>5. OrderOf(q, id).price = p /\ OrderOf(q, id).qty = q[side][p][k].qty
      BY <2>4 DEF RestingAs
    <2>6. LineWithin(q[side][p], p) /\ k \in DOMAIN q[side][p]
      BY <2>2, <2>3 DEF BookWithin, IsAt
    <2> QED
      BY <2>1, <2>5, <2>6 DEF LineWithin
  <1> QED
    BY <1>1, <1>2, <1>3, PTL DEF Spec

-----------------------------------------------------------------------------
(* The replay of a journal. *)

StartOfReplay == [exchange |-> NewExchange, md |-> <<>>, thrown |-> FALSE]

ReplayStep(g, records, k) ==
  IF k = 0 THEN StartOfReplay ELSE ReplayOne(g[k - 1], records[k])

(* g is the replay as a function of the number of records applied. *)
Replays(g, records, n) == g = [k \in 0 .. n |-> ReplayStep(g, records, k)]

LEMMA ReplayExists ==
  ASSUME NEW records, NEW most \in Nat
  PROVE  \E g : Replays(g, records, most)
  <1> DEFINE Bad == {n \in 0 .. most : ~ \E g : Replays(g, records, n)}
  <1>1. SUFFICES ASSUME Bad # {} PROVE FALSE
    OBVIOUS
  <1>2. PICK n \in Bad : \A j \in Bad : n <= j
    <2>1. Bad \in SUBSET Nat
      OBVIOUS
    <2> HIDE DEF Bad
    <2> QED
      BY <1>1, <2>1, LeastNumber
  <1>3. n # 0
    <2> SUFFICES ASSUME n = 0 PROVE FALSE
      OBVIOUS
    <2>1. PICK g : g = [k \in 0 .. n |-> StartOfReplay]
      OBVIOUS
    <2>2. Replays(g, records, n)
      BY <2>1 DEF Replays, ReplayStep
    <2> QED
      BY <2>2
  <1>4. n - 1 \in 0 .. most /\ n - 1 \notin Bad /\ n \in Nat
    BY <1>2, <1>3
  <1>5. PICK g : Replays(g, records, n - 1)
    BY <1>4
  <1>6. PICK h : h = [k \in 0 .. n |-> IF k = n THEN ReplayStep(g, records, n) ELSE g[k]]
    OBVIOUS
  <1>7. \A k \in 0 .. n - 1 : h[k] = g[k]
    BY <1>4, <1>6
  <1>8. \A k \in 0 .. n - 1 : g[k] = ReplayStep(g, records, k)
    BY <1>5 DEF Replays
  <1>9. \A k \in 0 .. n : h[k] = ReplayStep(h, records, k)
    <2> TAKE k \in 0 .. n
    <2>1. CASE k = n
      <3>1. h[k] = ReplayStep(g, records, n)
        BY <1>6, <2>1
      <3>2. n - 1 \in 0 .. n - 1
        BY <1>3, <1>4
      <3>3. h[n - 1] = g[n - 1]
        BY <1>7, <3>2
      <3> QED
        BY <2>1, <3>1, <3>3 DEF ReplayStep
    <2>2. CASE k # n
      <3>1. k \in 0 .. n - 1
        BY <1>4, <2>2
      <3>2. h[k] = ReplayStep(g, records, k)
        BY <1>7, <1>8, <3>1
      <3>3. k # 0 => h[k - 1] = g[k - 1]
        BY <1>4, <1>7, <3>1
      <3> QED
        BY <3>2, <3>3 DEF ReplayStep
    <2> QED
      BY <2>1, <2>2
  <1>10. Replays(h, records, n)
    <2>1. h = [k \in 0 .. n |-> h[k]]
      BY <1>6
    <2> QED
      BY <1>9, <2>1, Zenon DEF Replays
  <1> QED
    BY <1>10

LEMMA ReplayedIs ==
  ASSUME NEW records, NEW most \in Nat, most = Len(records)
  PROVE  \E g : Replays(g, records, most) /\ Replayed(records) = g[most]
  <1>1. PICK g : g = CHOOSE f : Replays(f, records, most)
    OBVIOUS
  <1>2. Replays(g, records, most)
    BY <1>1, ReplayExists
  <1>3. Replayed(records) = g[most]
    BY <1>1 DEF Replayed, Replays, ReplayStep, StartOfReplay
  <1> QED
    BY <1>2, <1>3

LEMMA NothingReplayed == Replayed(<<>>) = StartOfReplay
  <1>1. PICK records : records = <<>>
    OBVIOUS
  <1>2. Len(records) = 0
    BY <1>1
  <1>3. PICK g : Replays(g, records, 0) /\ Replayed(records) = g[0]
    BY <1>2, ReplayedIs
  <1>4. g[0] = ReplayStep(g, records, 0)
    BY <1>3 DEF Replays
  <1> QED
    BY <1>1, <1>3, <1>4 DEF ReplayStep

(* Replaying one record more is applying it to what was replayed. *)
LEMMA ReplayedFurther ==
  ASSUME NEW R, NEW records \in Seq(R), NEW sc \in R, NEW longer, longer = Append(records, sc)
  PROVE  Replayed(longer) = ReplayOne(Replayed(records), sc)
  <1>1. PICK n : n = Len(records)
    OBVIOUS
  <1>2. /\ n \in Nat /\ n + 1 \in Nat /\ n + 1 = Len(longer)
        /\ \A k \in 1 .. n : longer[k] = records[k]
        /\ longer[n + 1] = sc
    BY <1>1
  <1>3. PICK g : Replays(g, records, n) /\ Replayed(records) = g[n]
    BY <1>1, <1>2, ReplayedIs
  <1>4. PICK h : Replays(h, longer, n + 1) /\ Replayed(longer) = h[n + 1]
    BY <1>2, ReplayedIs
  <1>5. \A k \in 0 .. n : g[k] = ReplayStep(g, records, k)
    BY <1>3 DEF Replays
  <1>6. \A k \in 0 .. n + 1 : h[k] = ReplayStep(h, longer, k)
    BY <1>4 DEF Replays
  <1> DEFINE Bad == {k \in 0 .. n : h[k] # g[k]}
  <1>7. Bad = {}
    <2> SUFFICES ASSUME Bad # {} PROVE FALSE
      OBVIOUS
    <2>1. PICK k \in Bad : \A j \in Bad : k <= j
      <3>1. Bad \in SUBSET Nat
        OBVIOUS
      <3> HIDE DEF Bad
      <3> QED
        BY <3>1, LeastNumber
    <2>2. k \in 0 .. n + 1 /\ k \in 0 .. n
      BY <1>2, <2>1
    <2>3. k # 0
      BY <1>5, <1>6, <2>1, <2>2 DEF ReplayStep
    <2>4. k - 1 \in 0 .. n /\ k - 1 \notin Bad /\ k \in 1 .. n
      BY <1>2, <2>1, <2>2, <2>3
    <2>5. h[k - 1] = g[k - 1] /\ longer[k] = records[k]
      BY <1>2, <2>4
    <2>6. h[k] = g[k]
      BY <1>5, <1>6, <2>2, <2>3, <2>5 DEF ReplayStep
    <2> QED
      BY <2>1, <2>6
  <1>8. n \in 0 .. n /\ n + 1 \in 0 .. n + 1 /\ n + 1 # 0 /\ n + 1 - 1 = n
    BY <1>2
  <1>9. h[n] = g[n]
    BY <1>7, <1>8
  <1>10. h[n + 1] = ReplayOne(h[n], sc)
    BY <1>2, <1>6, <1>8 DEF ReplayStep
  <1> QED
    BY <1>3, <1>4, <1>9, <1>10

(* What the journal says of the exchange. *)
ReplayMatches(r) ==
  /\ GoodExchange(r.exchange)
  /\ ~ r.thrown =>
       /\ r.exchange.manager = exchange.manager
       /\ r.exchange.accounts = exchange.accounts
       /\ Len(journal) = exchange.next_seq - 1 =>
            /\ r.md = md_checksum
            /\ r.exchange.next_md_seq = exchange.next_md_seq

ReplayInv ==
  /\ ExchangeInv
  /\ journal \in Seq(JournalRecords) /\ Len(journal) <= exchange.next_seq - 1
  /\ ReplayMatches(Replayed(journal))

(* A command applied by the exchange and by the replay. *)
LEMMA SequencesReplayed ==
  ASSUME Journaling, ReplayInv, NEW cmd, NEW sc, NEW r, Sequences(cmd, sc, r)
  PROVE  ReplayInv'
  <1>1. PICK before, after, e : /\ before = Replayed(journal) /\ after = Replayed(journal')
                                /\ e = NextSeq
    OBVIOUS
  <1>2. GoodExchange(exchange) /\ exchange.next_seq \in Nat
    BY DEF ReplayInv, ExchangeInv, GoodExchange
  <1>3. /\ ExchangeInv' /\ exchange'.next_seq = exchange.next_seq + 1
        /\ exchange'.next_md_seq = exchange.next_md_seq + Len(r.md)
    BY <1>2, SequencesKeeps
  <1>4. /\ r = ApplySequenced(e, sc) /\ Answer(cmd, r) /\ journal' = Append(journal, sc)
        /\ Applicable(sc) /\ sc \in JournalRecords
    BY <1>1 DEF Sequences, Journaled
  <1>5. exchange' = r.exchange /\ md_checksum' = md_checksum \o r.md
    BY <1>4, AnswerIs
  <1>6. journal \in Seq(JournalRecords) /\ Len(journal) <= exchange.next_seq - 1
    BY DEF ReplayInv
  <1>7. /\ journal' \in Seq(JournalRecords) /\ Len(journal') = Len(journal) + 1
        /\ Len(journal) \in Nat /\ Len(journal') <= exchange'.next_seq - 1
    BY <1>2, <1>3, <1>4, <1>6
  <1>8. after = ReplayOne(before, sc)
    BY <1>1, <1>4, <1>6, ReplayedFurther
  <1>9. ReplayMatches(before)
    BY <1>1 DEF ReplayInv
  <1>10. ReplayMatches(after)'
    <2>1. CASE before.thrown
      BY <1>1, <1>8, <1>9, <2>1 DEF ReplayOne, ReplayMatches
    <2>2. CASE ~ before.thrown
      <3>1. PICK x, step : x = before.exchange /\ step = ApplySequenced(x, sc)
        OBVIOUS
      <3>2. after = Republished(before, step)
        BY <1>8, <2>2, <3>1 DEF ReplayOne
      <3>3. /\ after.exchange = step.exchange /\ after.md = before.md \o step.md
            /\ after.thrown = step.thrown
        <4>1. PICK md : md = before.md \o step.md
          OBVIOUS
        <4>2. after = [exchange |-> step.exchange, md |-> md, thrown |-> step.thrown]
          BY <3>2, <4>1 DEF Republished
        <4> QED
          BY <4>1, <4>2
      <3>4. /\ GoodExchange(x) /\ x.manager = exchange.manager
            /\ x.accounts = exchange.accounts
            /\ Len(journal) = exchange.next_seq - 1 =>
                 before.md = md_checksum /\ x.next_md_seq = exchange.next_md_seq
        BY <1>9, <2>2, <3>1 DEF ReplayMatches
      <3>5. /\ GoodExchange(e) /\ e.manager = exchange.manager
            /\ e.accounts = exchange.accounts /\ e.next_md_seq = exchange.next_md_seq
        BY <1>1, <1>2, NextSeqIs
      <3>6. ExchangeShaped(x) /\ ExchangeShaped(e)
        BY <3>4, <3>5 DEF GoodExchange
      <3>7. /\ step.exchange.manager = r.exchange.manager
            /\ step.exchange.accounts = r.exchange.accounts
            /\ step.thrown = r.thrown
            /\ x.next_md_seq = e.next_md_seq =>
                 step.md = r.md /\ step.exchange.next_md_seq = r.exchange.next_md_seq
        BY <1>4, <3>1, <3>4, <3>5, <3>6, ApplyAgrees
      <3>8. GoodExchange(step.exchange)
        BY <1>4, <3>1, <3>4, ApplyKeepsGood
      <3>9. Len(journal') = exchange'.next_seq - 1 => Len(journal) = exchange.next_seq - 1
        BY <1>2, <1>3, <1>7
      <3> QED
        BY <1>5, <3>3, <3>4, <3>5, <3>7, <3>8, <3>9 DEF ReplayMatches
    <2> QED
      BY <2>1, <2>2
  <1> QED
    BY <1>1, <1>3, <1>7, <1>10 DEF ReplayInv

LEMMA RefusesReplayed ==
  ASSUME ReplayInv, NEW cmd, NEW reason, NEW r, RefusesFrame(cmd, reason, r)
  PROVE  ReplayInv'
  <1>1. PICK before, after : before = Replayed(journal) /\ after = Replayed(journal')
    OBVIOUS
  <1>2. GoodExchange(exchange) /\ exchange.next_seq \in Nat
    BY DEF ReplayInv, ExchangeInv, GoodExchange
  <1>3. /\ ExchangeInv' /\ exchange'.next_seq = exchange.next_seq + 1
        /\ exchange'.manager = exchange.manager /\ exchange'.accounts = exchange.accounts
    BY <1>2, RefusesKeeps
  <1>4. journal' = journal
    BY DEF RefusesFrame
  <1>5. /\ journal \in Seq(JournalRecords) /\ Len(journal) <= exchange.next_seq - 1
        /\ Len(journal) \in Nat
    BY DEF ReplayInv
  <1>6. Len(journal') <= exchange'.next_seq - 1 /\ Len(journal') # exchange'.next_seq - 1
    BY <1>2, <1>3, <1>4, <1>5
  <1>7. ReplayMatches(before) /\ after = before
    BY <1>1, <1>4 DEF ReplayInv
  <1>8. ReplayMatches(after)'
    BY <1>3, <1>6, <1>7 DEF ReplayMatches
  <1> QED
    BY <1>1, <1>3, <1>4, <1>5, <1>6, <1>8 DEF ReplayInv

LEMMA InitReplayInv == Init => ReplayInv
  <1> SUFFICES ASSUME Init PROVE ReplayInv
    OBVIOUS
  <1>1. /\ ExchangeInv /\ exchange = NewExchange /\ journal = <<>> /\ md_checksum = <<>>
    BY InitExchangeInv DEF Init
  <1>2. PICK r : r = Replayed(journal)
    OBVIOUS
  <1>3. r = StartOfReplay
    BY <1>1, <1>2, NothingReplayed
  <1>4. r.exchange = NewExchange /\ r.md = <<>> /\ ~ r.thrown
    BY <1>3 DEF StartOfReplay
  <1>5. ReplayMatches(r)
    BY <1>1, <1>4, NewExchangeIs DEF ReplayMatches
  <1>6. journal \in Seq(JournalRecords) /\ Len(journal) <= exchange.next_seq - 1
    <2>1. journal \in Seq(JournalRecords) /\ Len(journal) = 0
      BY <1>1
    <2>2. exchange.next_seq = 1
      BY <1>1, NewExchangeIs
    <2> QED
      BY <2>1, <2>2
  <1> QED
    BY <1>1, <1>2, <1>5, <1>6 DEF ReplayInv

LEMMA NextReplayInv == ASSUME Journaling PROVE ReplayInv /\ [Next]_vars => ReplayInv'
  <1> SUFFICES ASSUME ReplayInv, [Next]_vars PROVE ReplayInv'
    OBVIOUS
  <1>1. CASE Next
    <2>1. exchange.next_seq \in Nat
      BY DEF ReplayInv, ExchangeInv, GoodExchange
    <2>2. ASSUME NEW cmd, NEW sc, NEW r, Sequences(cmd, sc, r)
          PROVE  ReplayInv'
      BY <2>2, SequencesReplayed
    <2>3. ASSUME NEW cmd, NEW reason, NEW r, RefusesFrame(cmd, reason, r)
          PROVE  ReplayInv'
      BY <2>3, RefusesReplayed
    <2> QED
      BY <1>1, <2>1, <2>2, <2>3, NextIs
  <1>2. CASE UNCHANGED vars
    <2>1. exchange' = exchange /\ journal' = journal /\ md_checksum' = md_checksum
          /\ last' = last
      BY <1>2 DEF vars
    <2>2. ExchangeInv'
      BY <2>1 DEF ReplayInv, ExchangeInv
    <2>3. ReplayMatches(Replayed(journal))'
      BY <2>1 DEF ReplayInv, ReplayMatches
    <2> QED
      BY <2>1, <2>2, <2>3 DEF ReplayInv
  <1> QED
    BY <1>1, <1>2

(***************************************************************************)
(* Whatever clients send, and whatever frames were refused in between, a   *)
(* replay of the journal that ends has the books, the index and the        *)
(* accounts of the exchange that wrote it; and if no frame was refused, it *)
(* publishes the same events under the same numbers (replay_journal,       *)
(* ReplayRebuilds).                                                        *)
(***************************************************************************)
THEOREM ReplayCorrect == ASSUME Journaling PROVE Spec => []ReplayRebuilds
  <1>1. Init => ReplayInv
    BY InitReplayInv
  <1>2. ReplayInv /\ [Next]_vars => ReplayInv'
    BY NextReplayInv
  <1>3. ReplayInv => ReplayRebuilds
    BY DEF ReplayInv, ReplayMatches, ReplayRebuilds
  <1> QED
    BY <1>1, <1>2, <1>3, PTL DEF Spec

-----------------------------------------------------------------------------
(* The value of a set of orders, as the sum RiskTracksBooks takes. *)

Worth(l) == Value(l.order.price, l.order.qty)

Summed(f, T) ==
  IF T = {} THEN 0
  ELSE LET x == CHOOSE x \in T : TRUE IN Worth(x) + f[T \ {x}]

(* f is the sum as a function of the subsets of S, and of those with at most n orders. *)
Sums(f, S) == f = [T \in SUBSET S |-> Summed(f, T)]

UpTo(S, n) == {T \in SUBSET S : Cardinality(T) <= n}

SumsUpTo(f, S, n) == f = [T \in UpTo(S, n) |-> Summed(f, T)]

Total(S) == (CHOOSE f : Sums(f, S))[S]

Priced(S) == IsFiniteSet(S) /\ \A l \in S : Worth(l) \in Nat

LEMMA TotalIs ==
  ASSUME NEW S
  PROVE  MapThenSumSet(LAMBDA l : Value(l.order.price, l.order.qty), S) = Total(S)
  BY Zenon DEF MapThenSumSet, MapThenFoldSet, Total, Sums, Summed, Worth

LEMMA PartOfPriced ==
  ASSUME NEW S, Priced(S), NEW T \in SUBSET S
  PROVE  Priced(T) /\ Cardinality(T) \in Nat /\ Cardinality(T) <= Cardinality(S)
  <1>1. IsFiniteSet(T) /\ Cardinality(T) <= Cardinality(S)
    BY FS_Subset DEF Priced
  <1> QED
    BY <1>1, FS_CardinalityType DEF Priced

LEMMA OneLess ==
  ASSUME NEW T, IsFiniteSet(T), NEW x \in T
  PROVE  /\ Cardinality(T) \in Nat \ {0} /\ Cardinality(T \ {x}) = Cardinality(T) - 1
  <1>1. Cardinality(T) \in Nat /\ Cardinality(T) # 0
    BY FS_CardinalityType, FS_EmptySet
  <1> QED
    BY <1>1, FS_RemoveElement

(* A smallest set of a set of finite sets. *)
LEMMA SmallestSet ==
  ASSUME NEW S, Priced(S), NEW B \in SUBSET (SUBSET S), B # {}
  PROVE  \E T \in B : \A U \in B : ~ (Cardinality(U) < Cardinality(T))
  <1> DEFINE sizes == {Cardinality(T) : T \in B}
  <1>1. sizes \in SUBSET Nat /\ sizes # {}
    BY PartOfPriced
  <1>2. \A T \in B : Cardinality(T) \in sizes
    OBVIOUS
  <1>3. \A n \in sizes : \E T \in B : n = Cardinality(T)
    OBVIOUS
  <1> HIDE DEF sizes
  <1>4. PICK n \in sizes : \A k \in sizes : n <= k
    BY <1>1, LeastNumber
  <1>5. PICK T \in B : n = Cardinality(T)
    BY <1>3
  <1>6. ASSUME NEW U \in B PROVE ~ (Cardinality(U) < Cardinality(T))
    <2>1. n \in Nat /\ Cardinality(U) \in Nat /\ n <= Cardinality(U)
      BY <1>1, <1>2, <1>4
    <2> QED
      BY <1>5, <2>1
  <1> QED
    BY <1>6

LEMMA SumExists ==
  ASSUME NEW S, Priced(S)
  PROVE  \E f : Sums(f, S)
  <1>1. PICK most : most = Cardinality(S)
    OBVIOUS
  <1>2. most \in Nat /\ \A T \in SUBSET S : Cardinality(T) \in Nat /\ Cardinality(T) <= most
    BY <1>1, PartOfPriced, FS_CardinalityType DEF Priced
  <1> DEFINE Bad == {n \in 0 .. most : ~ \E f : SumsUpTo(f, S, n)}
  <1>3. Bad = {}
    <2> SUFFICES ASSUME Bad # {} PROVE FALSE
      OBVIOUS
    <2>1. PICK n \in Bad : \A j \in Bad : n <= j
      <3>1. Bad \in SUBSET Nat
        OBVIOUS
      <3> HIDE DEF Bad
      <3> QED
        BY <3>1, LeastNumber
    <2>2. n # 0
      <3> SUFFICES ASSUME n = 0 PROVE FALSE
        OBVIOUS
      <3>1. PICK f : f = [T \in UpTo(S, n) |-> 0]
        OBVIOUS
      <3>2. \A T \in UpTo(S, n) : T = {}
        <4> TAKE T \in UpTo(S, n)
        <4>1. T \in SUBSET S /\ Cardinality(T) <= 0
          BY DEF UpTo
        <4>2. IsFiniteSet(T) /\ Cardinality(T) = 0
          BY <1>2, <4>1, PartOfPriced DEF Priced
        <4> QED
          BY <4>2, FS_EmptySet
      <3>3. SumsUpTo(f, S, n)
        BY <3>1, <3>2 DEF SumsUpTo, Summed
      <3> QED
        BY <2>1, <3>3
    <2>3. n - 1 \in 0 .. most /\ n - 1 \notin Bad /\ n \in Nat
      BY <1>2, <2>1, <2>2
    <2>4. PICK g : SumsUpTo(g, S, n - 1)
      BY <2>3
    <2>5. PICK f : f = [T \in UpTo(S, n) |-> Summed(g, T)]
      OBVIOUS
    <2>6. \A U \in UpTo(S, n - 1) : U \in UpTo(S, n) /\ g[U] = Summed(g, U)
      <3>1. \A U \in UpTo(S, n - 1) : g[U] = Summed(g, U)
        BY <2>4 DEF SumsUpTo
      <3>2. \A U \in UpTo(S, n - 1) : U \in UpTo(S, n)
        BY <1>2, <2>3 DEF UpTo
      <3> QED
        BY <3>1, <3>2
    <2>7. \A U \in UpTo(S, n - 1) : f[U] = g[U]
      BY <2>5, <2>6
    <2>8. ASSUME NEW T \in UpTo(S, n) PROVE Summed(f, T) = Summed(g, T)
      <3>1. CASE T = {}
        BY <3>1 DEF Summed
      <3>2. CASE T # {}
        <4>1. PICK x, U : x = (CHOOSE y \in T : TRUE) /\ U = T \ {x}
          OBVIOUS
        <4>2. x \in T /\ T \in SUBSET S /\ IsFiniteSet(T) /\ Cardinality(T) <= n
          BY <3>2, <4>1, PartOfPriced DEF Priced, UpTo
        <4>3. U \in SUBSET S /\ Cardinality(U) = Cardinality(T) - 1 /\ Cardinality(T) \in Nat
          BY <4>1, <4>2, OneLess
        <4>4. U \in UpTo(S, n - 1)
          BY <2>3, <4>2, <4>3 DEF UpTo
        <4> QED
          BY <2>7, <3>2, <4>1, <4>4 DEF Summed
      <3> QED
        BY <3>1, <3>2
    <2>9. SumsUpTo(f, S, n)
      BY <2>5, <2>8 DEF SumsUpTo
    <2> QED
      BY <2>1, <2>9
  <1>4. most \in 0 .. most
    BY <1>2
  <1>5. PICK f : SumsUpTo(f, S, most)
    BY <1>3, <1>4
  <1>6. UpTo(S, most) = SUBSET S
    BY <1>2 DEF UpTo
  <1> QED
    BY <1>5, <1>6 DEF SumsUpTo, Sums

(* A sum does not depend on the order in which it is taken. *)
LEMMA SumOf ==
  ASSUME NEW S, Priced(S), NEW f, Sums(f, S), NEW T \in SUBSET S
  PROVE  /\ f[T] \in Nat
         /\ T = {} => f[T] = 0
         /\ \A x \in T : f[T] = Worth(x) + f[T \ {x}]
  <1>1. \A U \in SUBSET S : f[U] = Summed(f, U)
    BY DEF Sums
  <1>2. f[{}] = 0
    BY <1>1 DEF Summed
  <1>3. \A l \in S : Worth(l) \in Nat
    BY DEF Priced
  <1> DEFINE Fine(U) == f[U] \in Nat /\ \A x \in U : f[U] = Worth(x) + f[U \ {x}]
             Bad == {U \in SUBSET S : ~ Fine(U)}
  <1>4. Bad = {}
    <2> SUFFICES ASSUME Bad # {} PROVE FALSE
      OBVIOUS
    <2>1. PICK U \in Bad : \A W \in Bad : ~ (Cardinality(W) < Cardinality(U))
      <3>1. Bad \in SUBSET (SUBSET S)
        OBVIOUS
      <3> HIDE DEF Bad
      <3> QED
        BY <3>1, SmallestSet
    <2>2. U \in SUBSET S /\ IsFiniteSet(U) /\ U # {}
      <3>1. U \in SUBSET S /\ ~ Fine(U)
        BY <2>1
      <3>2. Fine({})
        BY <1>2
      <3>3. Priced(U)
        BY <3>1, PartOfPriced
      <3> HIDE DEF Fine, Bad
      <3>4. IsFiniteSet(U)
        BY <3>3 DEF Priced
      <3> QED
        BY <3>1, <3>2, <3>4
    <2>3. ASSUME NEW x \in U PROVE U \ {x} \in SUBSET S /\ Fine(U \ {x})
      <3>1. Cardinality(U \ {x}) < Cardinality(U)
        BY <2>2, OneLess
      <3>2. U \ {x} \in SUBSET S
        BY <2>2
      <3> QED
        BY <2>1, <3>1, <3>2
    <2>4. PICK y : y = CHOOSE x \in U : TRUE
      OBVIOUS
    <2>5. y \in U /\ y \in S /\ f[U] = Worth(y) + f[U \ {y}]
      BY <1>1, <2>2, <2>4 DEF Summed
    <2>6. f[U] \in Nat
      <3>1. f[U \ {y}] \in Nat
        BY <2>3, <2>5
      <3>2. Worth(y) \in Nat
        BY <1>3, <2>5
      <3> HIDE DEF Fine, Bad
      <3> QED
        BY <2>5, <3>1, <3>2
    <2>7. ASSUME NEW x \in U PROVE f[U] = Worth(x) + f[U \ {x}]
      <3>1. CASE x = y
        BY <2>5, <3>1
      <3>2. CASE x # y
        <4>1. PICK rest : rest = (U \ {y}) \ {x}
          OBVIOUS
        <4>2. rest = (U \ {x}) \ {y}
          BY <4>1
        <4>3. f[U \ {y}] = Worth(x) + f[rest] /\ f[U \ {x}] = Worth(y) + f[rest]
          <5>1. Fine(U \ {y}) /\ x \in U \ {y} /\ Fine(U \ {x}) /\ y \in U \ {x}
            BY <2>3, <2>5, <3>2
          <5>2. f[U \ {y}] = Worth(x) + f[(U \ {y}) \ {x}]
            BY <5>1
          <5>3. f[U \ {x}] = Worth(y) + f[(U \ {x}) \ {y}]
            BY <5>1
          <5> QED
            BY <4>1, <4>2, <5>2, <5>3
        <4>4. f[rest] \in Nat /\ Worth(x) \in Nat /\ Worth(y) \in Nat
          <5>1. PICK W : W = U \ {y}
            OBVIOUS
          <5>2. W \in SUBSET S /\ x \in W /\ rest = W \ {x}
            BY <2>2, <3>2, <4>1, <5>1
          <5>3. IsFiniteSet(U) /\ IsFiniteSet(W) /\ Cardinality(W) < Cardinality(U)
            BY <2>2, <2>5, <5>1, <5>2, OneLess, PartOfPriced DEF Priced
          <5>4. rest \in SUBSET S /\ Cardinality(rest) < Cardinality(U)
            <6>1. Cardinality(rest) = Cardinality(W) - 1 /\ Cardinality(W) \in Nat
              BY <5>2, <5>3, OneLess
            <6>2. Cardinality(U) \in Nat
              BY <2>2, FS_CardinalityType
            <6> QED
              BY <2>2, <4>1, <5>3, <6>1, <6>2
          <5> QED
            BY <1>3, <2>1, <2>2, <2>5, <5>4
        <4> QED
          BY <2>5, <4>3, <4>4
      <3> QED
        BY <3>1, <3>2
    <2> QED
      BY <2>1, <2>6, <2>7
  <1> QED
    BY <1>2, <1>4

(* Nor on the set whose subsets are summed. *)
LEMMA SumsAgree ==
  ASSUME NEW S, Priced(S), NEW f, Sums(f, S), NEW S1 \in SUBSET S, NEW h, Sums(h, S1)
  PROVE  f[S1] = h[S1]
  <1>1. Priced(S1)
    BY PartOfPriced
  <1> DEFINE Bad == {U \in SUBSET S1 : f[U] # h[U]}
  <1>2. Bad = {}
    <2> SUFFICES ASSUME Bad # {} PROVE FALSE
      OBVIOUS
    <2>1. PICK U \in Bad : \A W \in Bad : ~ (Cardinality(W) < Cardinality(U))
      <3>1. Bad \in SUBSET (SUBSET S1)
        OBVIOUS
      <3> HIDE DEF Bad
      <3> QED
        BY <1>1, <3>1, SmallestSet
    <2>2. U \in SUBSET S1 /\ U \in SUBSET S /\ IsFiniteSet(U)
      BY <1>1, <2>1, PartOfPriced DEF Priced
    <2>3. CASE U = {}
      BY <1>1, <2>1, <2>2, <2>3, SumOf
    <2>4. CASE U # {}
      <3>1. PICK x : x \in U
        BY <2>4
      <3>2. PICK W : W = U \ {x}
        OBVIOUS
      <3>3. Cardinality(W) < Cardinality(U)
        BY <2>2, <3>1, <3>2, OneLess
      <3>4. W \in SUBSET S1 /\ W \notin Bad
        BY <2>1, <2>2, <3>2, <3>3
      <3>5. f[U] = Worth(x) + f[W] /\ h[U] = Worth(x) + h[W]
        BY <1>1, <2>2, <3>1, <3>2, SumOf
      <3> QED
        BY <2>1, <3>4, <3>5
    <2> QED
      BY <2>3, <2>4
  <1> QED
    BY <1>2

LEMMA TotalOf ==
  ASSUME NEW S, Priced(S)
  PROVE  /\ Total(S) \in Nat
         /\ S = {} => Total(S) = 0
         /\ \A x \in S : Total(S) = Worth(x) + Total(S \ {x})
  <1>1. PICK f : f = CHOOSE g : Sums(g, S)
    OBVIOUS
  <1>2. Sums(f, S) /\ Total(S) = f[S]
    BY <1>1, SumExists DEF Total
  <1>3. ASSUME NEW x \in S PROVE Total(S) = Worth(x) + Total(S \ {x})
    <2>1. PICK T, h : T = S \ {x} /\ h = CHOOSE g : Sums(g, T)
      OBVIOUS
    <2>2. T \in SUBSET S /\ Priced(T)
      BY <2>1, PartOfPriced
    <2>3. Sums(h, T) /\ Total(T) = h[T]
      BY <2>1, <2>2, SumExists DEF Total
    <2>4. f[T] = h[T]
      BY <1>2, <2>2, <2>3, SumsAgree
    <2>5. f[S] = Worth(x) + f[T]
      BY <1>2, <2>1, SumOf
    <2> QED
      BY <1>2, <2>1, <2>3, <2>4, <2>5
  <1>4. Total(S) \in Nat /\ (S = {} => Total(S) = 0)
    BY <1>2, SumOf
  <1> QED
    BY <1>3, <1>4

(* The total with one order more, and with an order worth less. *)
LEMMA TotalWith ==
  ASSUME NEW S, Priced(S), NEW x, x \notin S, Worth(x) \in Nat, NEW T, T = S \cup {x}
  PROVE  Priced(T) /\ Total(T) = Worth(x) + Total(S)
  <1>1. Priced(T)
    BY FS_AddElement DEF Priced
  <1>2. x \in T /\ T \ {x} = S
    OBVIOUS
  <1> QED
    BY <1>1, <1>2, TotalOf

-----------------------------------------------------------------------------
(* What an event makes of the orders of an account, and of what is held       *)
(* against it.                                                                *)

Ticket(s, x) == [symbol |-> s, order |-> x]

(* The orders of account a in the books bs, as RiskTracksBooks has them. *)
RestingIn(bs) ==
  UNION {{[symbol |-> s, order |-> OrderOf(bs[s], id)] : id \in LiveIds(bs[s])} :
         s \in Symbols}

Mine(bs, a) == {l \in RestingIn(bs) : l.order.account_id = a}

GoodBooks(bs) == \A s \in Symbols : GoodBook(bs[s])

LEMMA TicketParts ==
  ASSUME NEW s, NEW x, NEW l, l = Ticket(s, x)
  PROVE  l.symbol = s /\ l.order = x
  BY DEF Ticket

LEMMA MineIs ==
  ASSUME NEW bs, NEW a, NEW l
  PROVE  l \in Mine(bs, a) <=>
           \E s \in Symbols : \E x \in OrdersIn(bs[s]) : l = Ticket(s, x) /\ x.account_id = a
  <1>1. ASSUME l \in Mine(bs, a)
        PROVE  \E s \in Symbols : \E x \in OrdersIn(bs[s]) : l = Ticket(s, x) /\ x.account_id = a
    <2>1. PICK s \in Symbols : \E id \in LiveIds(bs[s]) : l = Ticket(s, OrderOf(bs[s], id))
      BY <1>1 DEF Mine, RestingIn, Ticket
    <2>2. PICK id \in LiveIds(bs[s]) : l = Ticket(s, OrderOf(bs[s], id))
      BY <2>1
    <2>3. PICK x : x = OrderOf(bs[s], id)
      OBVIOUS
    <2>4. x \in OrdersIn(bs[s]) /\ l = Ticket(s, x)
      BY <2>2, <2>3 DEF OrdersIn
    <2>5. x.account_id = a
      BY <1>1, <2>4, TicketParts DEF Mine
    <2> QED
      BY <2>4, <2>5
  <1>2. ASSUME NEW s \in Symbols, NEW x \in OrdersIn(bs[s]), l = Ticket(s, x), x.account_id = a
        PROVE  l \in Mine(bs, a)
    <2>1. PICK id \in LiveIds(bs[s]) : x = OrderOf(bs[s], id)
      BY DEF OrdersIn
    <2>2. l \in {[symbol |-> s, order |-> OrderOf(bs[s], i)] : i \in LiveIds(bs[s])}
      BY <1>2, <2>1 DEF Ticket
    <2>3. l \in RestingIn(bs)
      BY <2>2 DEF RestingIn
    <2>4. l.order = x
      BY <1>2, TicketParts
    <2> QED
      BY <1>2, <2>3, <2>4 DEF Mine
  <1> QED
    BY <1>1, <1>2

(* The value of an order is a number, and that of two parts of it their sum. *)
LEMMA ValueAdds ==
  ASSUME NEW price \in Int, NEW n \in Nat, NEW k \in Nat
  PROVE  Value(price, n + k) = Value(price, n) + Value(price, k)
  <1>1. PICK size : size = IF price < 0 THEN - price ELSE price
    OBVIOUS
  <1>2. size \in Nat
    BY <1>1
  <1>3. size * (n + k) = size * n + size * k
    BY <1>2
  <1> QED
    BY <1>1, <1>3 DEF Value

LEMMA OrderWorth ==
  ASSUME NEW q, GoodBook(q), NEW x \in OrdersIn(q), NEW s, NEW l, l = Ticket(s, x)
  PROVE  /\ Worth(l) = Value(x.price, x.qty) /\ Worth(l) \in Nat
         /\ x.price \in Int /\ x.qty \in Nat /\ x.account_id \in Accounts
  <1>1. PICK id \in LiveIds(q) : x = OrderOf(q, id)
    BY DEF OrdersIn
  <1>2. x.price \in Band /\ x.qty \in Nat /\ x.account_id \in Accounts
    BY <1>1, OrderIs
  <1>3. x.price \in Int
    BY <1>2, LadderAssumption DEF Band
  <1>4. Worth(l) = Value(x.price, x.qty)
    BY TicketParts DEF Worth
  <1> QED
    BY <1>2, <1>3, <1>4, NotionalType

LEMMA MinePriced ==
  ASSUME NEW bs, GoodBooks(bs), NEW a, IsFiniteSet(Mine(bs, a))
  PROVE  Priced(Mine(bs, a))
  <1>1. ASSUME NEW l \in Mine(bs, a) PROVE Worth(l) \in Nat
    <2>1. PICK s \in Symbols : \E x \in OrdersIn(bs[s]) : l = Ticket(s, x)
      BY MineIs
    <2>2. PICK x \in OrdersIn(bs[s]) : l = Ticket(s, x)
      BY <2>1
    <2> QED
      BY <2>2, OrderWorth DEF GoodBooks
  <1> QED
    BY <1>1 DEF Priced

(* The event ev changes the orders M of its account into M1. *)
Gains(M, M1, ev, l) ==
  /\ ev.type = "Add" /\ l \notin M /\ M1 = M \cup {l}
  /\ Worth(l) \in Nat /\ Worth(l) = Value(ev.price, ev.qty)

Loses(M, M1, ev, l, live) ==
  /\ ev.type = "Cancel" \/ (ev.type = "Execute" /\ ~ live)
  /\ l \in M /\ M1 = M \ {l} /\ Worth(l) = Value(ev.price, ev.qty)

Trades(M, M1, ev, l, l1, live) ==
  /\ ev.type = "Execute" /\ live /\ l \in M /\ l1 \notin M /\ M1 = (M \ {l}) \cup {l1}
  /\ Worth(l1) \in Nat /\ Value(ev.price, ev.qty) \in Nat
  /\ Worth(l) = Worth(l1) + Value(ev.price, ev.qty)

Changes(M, M1, ev, live) ==
  \E l : \/ Gains(M, M1, ev, l) \/ Loses(M, M1, ev, l, live)
         \/ \E l1 : Trades(M, M1, ev, l, l1, live)

(* bs1 are the books bs but for book s. *)
OnlyBook(s, bs, bs1) == \A t \in Symbols \ {s} : bs1[t] = bs[t]

(* One order more in book s, one less, one for another. *)
LEMMA MineSwaps ==
  ASSUME NEW bs, NEW bs1, NEW s \in Symbols, OnlyBook(s, bs, bs1),
         NEW A, NEW B, OrdersIn(bs1[s]) = (OrdersIn(bs[s]) \ A) \cup B,
         NEW b, NEW l
  PROVE  l \in Mine(bs1, b) <=>
           \/ l \in Mine(bs, b) /\ ~ \E x \in A : l = Ticket(s, x)
           \/ \E x \in B : l = Ticket(s, x) /\ x.account_id = b
  <1>1. ASSUME NEW t \in Symbols, NEW x \in OrdersIn(bs1[t]), l = Ticket(t, x),
               x.account_id = b, t # s
        PROVE  l \in Mine(bs, b) /\ ~ \E y \in A : l = Ticket(s, y)
    <2>1. x \in OrdersIn(bs[t])
      BY <1>1 DEF OnlyBook
    <2>2. l \in Mine(bs, b)
      BY <1>1, <2>1, MineIs
    <2>3. l.symbol = t
      BY <1>1, TicketParts
    <2> QED
      BY <1>1, <2>2, <2>3, TicketParts
  <1>2. ASSUME NEW x \in OrdersIn(bs1[s]), l = Ticket(s, x), x.account_id = b
        PROVE  \/ l \in Mine(bs, b) /\ ~ \E y \in A : l = Ticket(s, y)
               \/ \E y \in B : l = Ticket(s, y) /\ y.account_id = b
    <2>1. CASE x \in B
      BY <1>2, <2>1
    <2>2. CASE x \notin B
      <3>1. x \in OrdersIn(bs[s]) /\ x \notin A
        BY <1>2, <2>2
      <3>2. l \in Mine(bs, b)
        BY <1>2, <3>1, MineIs
      <3>3. l.order = x
        BY <1>2, TicketParts
      <3> QED
        BY <3>1, <3>2, <3>3, TicketParts
    <2> QED
      BY <2>1, <2>2
  <1>3. ASSUME l \in Mine(bs, b), ~ \E y \in A : l = Ticket(s, y)
        PROVE  l \in Mine(bs1, b)
    <2>1. PICK t \in Symbols : \E x \in OrdersIn(bs[t]) : l = Ticket(t, x) /\ x.account_id = b
      BY <1>3, MineIs
    <2>2. PICK x \in OrdersIn(bs[t]) : l = Ticket(t, x) /\ x.account_id = b
      BY <2>1
    <2>3. x \in OrdersIn(bs1[t])
      <3>1. CASE t # s
        BY <2>2, <3>1 DEF OnlyBook
      <3>2. CASE t = s
        BY <1>3, <2>2, <3>2
      <3> QED
        BY <3>1, <3>2
    <2> QED
      BY <2>2, <2>3, MineIs
  <1>4. ASSUME NEW y \in B, l = Ticket(s, y), y.account_id = b PROVE l \in Mine(bs1, b)
    <2>1. y \in OrdersIn(bs1[s])
      BY <1>4
    <2> QED
      BY <1>4, <2>1, MineIs
  <1>5. l \in Mine(bs1, b) =>
          \E t \in Symbols : \E x \in OrdersIn(bs1[t]) : l = Ticket(t, x) /\ x.account_id = b
    BY MineIs
  <1> QED
    BY <1>1, <1>2, <1>3, <1>4, <1>5

(* live says whether the order of an event that traded still rests. *)
TellsLive(ev, c, live) == ev.type = "Execute" => (live <=> ev.order_id \in LiveIds(c))

LEMMA StepChanges ==
  ASSUME NEW bs, GoodBooks(bs), NEW bs1, NEW s \in Symbols, OnlyBook(s, bs, bs1),
         NEW ev, NEW c, c = bs1[s], GoodBook(c), BookStep(bs[s], ev, c),
         NEW live, TellsLive(ev, c, live)
  PROVE  /\ ev.account_id \in Accounts
         /\ Changes(Mine(bs, ev.account_id), Mine(bs1, ev.account_id), ev, live)
         /\ \A b : b # ev.account_id => Mine(bs1, b) = Mine(bs, b)
  <1>1. PICK q, a : q = bs[s] /\ a = ev.account_id
    OBVIOUS
  <1>2. GoodBook(q)
    BY <1>1 DEF GoodBooks
  <1>3. PICK x : Joins(q, ev, c, x) \/ Leaves(q, ev, c, x) \/ \E y : Shrinks(q, ev, c, x, y)
    BY <1>1, <1>2, StepOrders
  <1>4. PICK l : l = Ticket(s, x)
    OBVIOUS
  <1>5. \A z : l = Ticket(s, z) <=> z = x
    BY <1>4, TicketParts
  <1>6. CASE Joins(q, ev, c, x)
    <2>1. /\ ev.type = "Add" /\ x.account_id = a /\ x.price = ev.price /\ x.qty = ev.qty
          /\ x \notin OrdersIn(q) /\ OrdersIn(c) = OrdersIn(q) \cup {x}
      BY <1>1, <1>6 DEF Joins, IsOf
    <2>2. PICK A, B : A = {} /\ B = {x}
      OBVIOUS
    <2>3. OrdersIn(bs1[s]) = (OrdersIn(bs[s]) \ A) \cup B
      BY <1>1, <2>1, <2>2
    <2>4. ASSUME NEW b, NEW k
          PROVE  k \in Mine(bs1, b) <=> k \in Mine(bs, b) \/ (k = l /\ a = b)
      <3>1. k \in Mine(bs1, b) <=>
              \/ k \in Mine(bs, b) /\ ~ \E z \in A : k = Ticket(s, z)
              \/ \E z \in B : k = Ticket(s, z) /\ z.account_id = b
        BY <2>3, MineSwaps
      <3>2. ~ \E z \in A : k = Ticket(s, z)
        BY <2>2
      <3>3. (\E z \in B : k = Ticket(s, z) /\ z.account_id = b) <=> k = l /\ a = b
        BY <1>4, <2>1, <2>2
      <3> QED
        BY <3>1, <3>2, <3>3
    <2>5. l \notin Mine(bs, a)
      <3> SUFFICES ASSUME l \in Mine(bs, a) PROVE FALSE
        OBVIOUS
      <3>1. PICK t \in Symbols : \E z \in OrdersIn(bs[t]) : l = Ticket(t, z)
        BY MineIs
      <3>2. PICK z \in OrdersIn(bs[t]) : l = Ticket(t, z)
        BY <3>1
      <3>3. l.symbol = s /\ l.order = x
        BY <1>4, TicketParts
      <3>4. l.symbol = t /\ l.order = z
        BY <3>2, TicketParts
      <3> QED
        BY <1>1, <2>1, <3>2, <3>3, <3>4
    <2>6. Mine(bs1, a) = Mine(bs, a) \cup {l} /\ \A b : b # a => Mine(bs1, b) = Mine(bs, b)
      <3>1. \A k : k \in Mine(bs1, a) <=> k \in Mine(bs, a) \cup {l}
        BY <2>4
      <3>2. ASSUME NEW b, b # a PROVE Mine(bs1, b) = Mine(bs, b)
        <4>1. \A k : k \in Mine(bs1, b) <=> k \in Mine(bs, b)
          BY <2>4, <3>2
        <4> QED
          BY <4>1
      <3> QED
        BY <3>1, <3>2
    <2>7. Worth(l) \in Nat /\ Worth(l) = Value(ev.price, ev.qty) /\ a \in Accounts
      <3>1. x \in OrdersIn(c)
        BY <2>1
      <3> QED
        BY <1>4, <2>1, <3>1, OrderWorth
    <2>8. Gains(Mine(bs, a), Mine(bs1, a), ev, l)
      BY <2>1, <2>5, <2>6, <2>7 DEF Gains
    <2> QED
      BY <1>1, <2>6, <2>7, <2>8 DEF Changes
  <1>7. CASE Leaves(q, ev, c, x)
    <2>1. /\ ev.type \in {"Cancel", "Execute"} /\ ev.order_id \notin LiveIds(c)
          /\ x.account_id = a /\ x.price = ev.price /\ x.qty = ev.qty
          /\ x \in OrdersIn(q) /\ OrdersIn(c) = OrdersIn(q) \ {x}
      BY <1>1, <1>7 DEF Leaves, IsOf
    <2>2. PICK A, B : A = {x} /\ B = {}
      OBVIOUS
    <2>3. OrdersIn(bs1[s]) = (OrdersIn(bs[s]) \ A) \cup B
      BY <1>1, <2>1, <2>2
    <2>5. l \in Mine(bs, a)
      BY <1>1, <1>4, <2>1, MineIs
    <2>4. ASSUME NEW b, NEW k
          PROVE  k \in Mine(bs1, b) <=> k \in Mine(bs, b) /\ k # l
      <3>1. k \in Mine(bs1, b) <=>
              \/ k \in Mine(bs, b) /\ ~ \E z \in A : k = Ticket(s, z)
              \/ \E z \in B : k = Ticket(s, z) /\ z.account_id = b
        BY <2>3, MineSwaps
      <3>2. ~ \E z \in B : k = Ticket(s, z) /\ z.account_id = b
        BY <2>2
      <3>3. (\E z \in A : k = Ticket(s, z)) <=> k = l
        BY <1>4, <2>2
      <3> QED
        BY <3>1, <3>2, <3>3
    <2>6. \A b : b # a => l \notin Mine(bs, b)
      BY <2>5 DEF Mine
    <2>7. Mine(bs1, a) = Mine(bs, a) \ {l} /\ \A b : b # a => Mine(bs1, b) = Mine(bs, b)
      BY <2>4, <2>6
    <2>8. Worth(l) = Value(ev.price, ev.qty) /\ a \in Accounts
      BY <1>2, <1>4, <2>1, OrderWorth
    <2>9. Loses(Mine(bs, a), Mine(bs1, a), ev, l, live)
      <3>1. ev.type = "Cancel" \/ (ev.type = "Execute" /\ ~ live)
        BY <2>1 DEF TellsLive
      <3> QED
        BY <2>5, <2>7, <2>8, <3>1 DEF Loses
    <2> QED
      BY <1>1, <2>7, <2>8, <2>9 DEF Changes
  <1>8. ASSUME NEW y, Shrinks(q, ev, c, x, y)
        PROVE  /\ a \in Accounts
               /\ Changes(Mine(bs, a), Mine(bs1, a), ev, live)
               /\ \A b : b # a => Mine(bs1, b) = Mine(bs, b)
    <2>1. /\ ev.type = "Execute" /\ ev.order_id \in LiveIds(c)
          /\ x.account_id = a /\ x.price = ev.price /\ x.qty = y.qty + ev.qty
          /\ y.account_id = a /\ y.price = ev.price
          /\ x \in OrdersIn(q) /\ y \notin OrdersIn(q)
          /\ OrdersIn(c) = (OrdersIn(q) \ {x}) \cup {y}
      BY <1>1, <1>8 DEF Shrinks, IsOf
    <2>2. PICK A, B, l1 : A = {x} /\ B = {y} /\ l1 = Ticket(s, y)
      OBVIOUS
    <2>3. OrdersIn(bs1[s]) = (OrdersIn(bs[s]) \ A) \cup B
      BY <1>1, <2>1, <2>2
    <2>5. l \in Mine(bs, a)
      BY <1>1, <1>4, <2>1, MineIs
    <2>10. l1 \notin Mine(bs, a)
      <3> SUFFICES ASSUME l1 \in Mine(bs, a) PROVE FALSE
        OBVIOUS
      <3>1. PICK t \in Symbols : \E z \in OrdersIn(bs[t]) : l1 = Ticket(t, z)
        BY MineIs
      <3>2. PICK z \in OrdersIn(bs[t]) : l1 = Ticket(t, z)
        BY <3>1
      <3>3. l1.symbol = s /\ l1.order = y
        BY <2>2, TicketParts
      <3>4. l1.symbol = t /\ l1.order = z
        BY <3>2, TicketParts
      <3> QED
        BY <1>1, <2>1, <3>2, <3>3, <3>4
    <2>4. ASSUME NEW b, NEW k
          PROVE  k \in Mine(bs1, b) <=>
                   \/ k \in Mine(bs, b) /\ k # l
                   \/ k = l1 /\ a = b
      <3>1. k \in Mine(bs1, b) <=>
              \/ k \in Mine(bs, b) /\ ~ \E z \in A : k = Ticket(s, z)
              \/ \E z \in B : k = Ticket(s, z) /\ z.account_id = b
        BY <2>3, MineSwaps
      <3>2. (\E z \in B : k = Ticket(s, z) /\ z.account_id = b) <=> k = l1 /\ a = b
        BY <2>1, <2>2
      <3>3. (\E z \in A : k = Ticket(s, z)) <=> k = l
        BY <1>4, <2>2
      <3> QED
        BY <3>1, <3>2, <3>3
    <2>6. \A b : b # a => l \notin Mine(bs, b)
      BY <2>5 DEF Mine
    <2>7. Mine(bs1, a) = (Mine(bs, a) \ {l}) \cup {l1}
      BY <2>4
    <2>8. \A b : b # a => Mine(bs1, b) = Mine(bs, b)
      BY <2>4, <2>6
    <2>9. /\ Worth(l1) \in Nat /\ Worth(l) = Worth(l1) + Value(ev.price, ev.qty)
          /\ Value(ev.price, ev.qty) \in Nat /\ a \in Accounts
      <3>1. /\ Worth(l) = Value(x.price, x.qty) /\ x.price \in Int /\ x.qty \in Nat
            /\ x.account_id \in Accounts
        BY <1>2, <1>4, <2>1, OrderWorth
      <3>2. Worth(l1) = Value(y.price, y.qty) /\ Worth(l1) \in Nat /\ y.qty \in Nat
        <4>1. y \in OrdersIn(c)
          BY <2>1
        <4> QED
          BY <2>2, <4>1, OrderWorth
      <3>3. ev.qty \in Nat
        BY <1>1, <2>1 DEF BookStep
      <3>4. PICK price, n, k : price = ev.price /\ n = y.qty /\ k = ev.qty
        OBVIOUS
      <3>5. Value(price, n + k) = Value(price, n) + Value(price, k)
        BY <2>1, <3>1, <3>2, <3>3, <3>4, ValueAdds
      <3>6. Value(price, k) \in Nat
        BY <2>1, <3>1, <3>3, <3>4, NotionalType
      <3> QED
        BY <2>1, <3>1, <3>2, <3>4, <3>5, <3>6
    <2>11. Trades(Mine(bs, a), Mine(bs1, a), ev, l, l1, live)
      <3>1. live
        BY <2>1 DEF TellsLive
      <3> QED
        BY <2>1, <2>5, <2>7, <2>9, <2>10, <3>1 DEF Trades
    <2> QED
      BY <2>8, <2>9, <2>11 DEF Changes
  <1> QED
    BY <1>1, <1>3, <1>6, <1>7, <1>8

(* What is held for the orders M: their number, and their value. *)
Counts(old, M) == IsFiniteSet(M) /\ old.open_orders = Cardinality(M)

Values(old, M) == old.open_notional = Total(M)

(* The account of an event afterwards. *)
Holds(old, ev, live) ==
  [old EXCEPT
     !.open_orders = CASE ev.type = "Add" -> old.open_orders + 1
                       [] ev.type = "Cancel" \/ (ev.type = "Execute" /\ ~ live) ->
                            AtLeast0(old.open_orders - 1)
                       [] OTHER -> old.open_orders,
     !.open_notional = IF ev.type = "Add"
                       THEN (old.open_notional + Notional(ev.price, ev.qty)) % NotionalModulus
                       ELSE AtLeast0(old.open_notional - Notional(ev.price, ev.qty))]

LEMMA CountStep ==
  ASSUME NEW M, NEW M1, NEW ev, NEW live, Changes(M, M1, ev, live),
         NEW old \in AccountsTyped, Counts(old, M), NEW new, new = Holds(old, ev, live)
  PROVE  Counts(new, M1)
  <1>1. PICK left : left = CASE ev.type = "Add" -> old.open_orders + 1
                             [] ev.type = "Cancel" \/ (ev.type = "Execute" /\ ~ live) ->
                                  AtLeast0(old.open_orders - 1)
                             [] OTHER -> old.open_orders
    OBVIOUS
  <1>2. new.open_orders = left
    BY <1>1 DEF Holds, AccountsTyped
  <1>3. IsFiniteSet(M) /\ old.open_orders = Cardinality(M) /\ Cardinality(M) \in Nat
    BY FS_CardinalityType DEF Counts
  <1>4. PICK l : \/ Gains(M, M1, ev, l) \/ Loses(M, M1, ev, l, live)
                 \/ \E l1 : Trades(M, M1, ev, l, l1, live)
    BY DEF Changes
  <1>5. CASE Gains(M, M1, ev, l)
    <2>1. left = old.open_orders + 1
      BY <1>1, <1>5 DEF Gains
    <2>2. IsFiniteSet(M1) /\ Cardinality(M1) = Cardinality(M) + 1
      BY <1>3, <1>5, FS_AddElement DEF Gains
    <2> QED
      BY <1>2, <1>3, <2>1, <2>2 DEF Counts
  <1>6. CASE Loses(M, M1, ev, l, live)
    <2>1. left = AtLeast0(old.open_orders - 1)
      BY <1>1, <1>6 DEF Loses
    <2>2. l \in M /\ M1 = M \ {l}
      BY <1>6 DEF Loses
    <2>3. IsFiniteSet(M1) /\ Cardinality(M1) = Cardinality(M) - 1 /\ Cardinality(M) # 0
      BY <1>3, <2>2, OneLess, FS_RemoveElement
    <2>4. AtLeast0(old.open_orders - 1) = Cardinality(M) - 1
      BY <1>3, <2>3 DEF AtLeast0
    <2> QED
      BY <1>2, <2>1, <2>3, <2>4 DEF Counts
  <1>7. ASSUME NEW l1, Trades(M, M1, ev, l, l1, live) PROVE Counts(new, M1)
    <2>1. left = old.open_orders
      BY <1>1, <1>7 DEF Trades
    <2>2. l \in M /\ l1 \notin M /\ M1 = (M \ {l}) \cup {l1}
      BY <1>7 DEF Trades
    <2>3. PICK W : W = M \ {l}
      OBVIOUS
    <2>4. IsFiniteSet(W) /\ Cardinality(W) = Cardinality(M) - 1 /\ l1 \notin W
      BY <1>3, <2>2, <2>3, OneLess, FS_RemoveElement
    <2>5. IsFiniteSet(M1) /\ Cardinality(M1) = Cardinality(W) + 1
      BY <2>2, <2>3, <2>4, FS_AddElement
    <2> QED
      BY <1>2, <1>3, <2>1, <2>4, <2>5 DEF Counts
  <1> QED
    BY <1>4, <1>5, <1>6, <1>7

LEMMA ValueStep ==
  ASSUME NEW M, Priced(M), NEW M1, NEW ev, NEW live, Changes(M, M1, ev, live),
         NEW old \in AccountsTyped, NEW new, new = Holds(old, ev, live)
  PROVE  /\ ev.type # "Add" => Total(M1) <= Total(M)
         /\ Values(old, M) /\ Total(M) < NotionalModulus /\ Total(M1) < NotionalModulus =>
              Values(new, M1)
  <1>1. PICK v, n, most, held :
          /\ v = Value(ev.price, ev.qty) /\ n = v % most /\ most = NotionalModulus
          /\ held = IF ev.type = "Add" THEN (old.open_notional + n) % most
                    ELSE AtLeast0(old.open_notional - n)
    OBVIOUS
  <1>2. new.open_notional = held
    BY <1>1 DEF Holds, AccountsTyped, Notional
  <1>3. most \in Nat \ {0} /\ Total(M) \in Nat
    BY <1>1, LimitAssumption, TotalOf
  <1>a. \A k \in Nat : k < most => k % most = k
    BY <1>3
  <1>4. PICK l : \/ Gains(M, M1, ev, l) \/ Loses(M, M1, ev, l, live)
                 \/ \E l1 : Trades(M, M1, ev, l, l1, live)
    BY DEF Changes
  <1>5. CASE Gains(M, M1, ev, l)
    <2>1. /\ ev.type = "Add" /\ l \notin M /\ M1 = M \cup {l} /\ Worth(l) \in Nat
          /\ Worth(l) = v
      BY <1>1, <1>5 DEF Gains
    <2>2. Total(M1) = v + Total(M)
      BY <2>1, TotalWith
    <2>3. ASSUME old.open_notional = Total(M), Total(M1) < most
          PROVE  held = Total(M1)
      <3>1. v \in Nat /\ v < most /\ Total(M1) \in Nat
        BY <1>3, <2>1, <2>2, <2>3
      <3>2. n = v
        BY <1>1, <1>a, <3>1
      <3>3. old.open_notional + n = Total(M1)
        BY <1>3, <2>2, <2>3, <3>1, <3>2
      <3>4. held = Total(M1) % most
        BY <1>1, <2>1, <3>3
      <3> QED
        BY <1>a, <2>3, <3>1, <3>4
    <2> QED
      BY <1>1, <1>2, <2>1, <2>3 DEF Values
  <1>6. CASE Loses(M, M1, ev, l, live)
    <2>1. ev.type # "Add" /\ l \in M /\ M1 = M \ {l} /\ Worth(l) = v
      BY <1>1, <1>6 DEF Loses
    <2>2. Total(M) = v + Total(M1) /\ Total(M1) \in Nat /\ v \in Nat
      <3>1. Priced(M1)
        BY <2>1, PartOfPriced
      <3> QED
        BY <2>1, <3>1, TotalOf DEF Priced
    <2>3. ASSUME old.open_notional = Total(M), Total(M) < most
          PROVE  held = Total(M1)
      <3>1. v < most
        BY <1>3, <2>2, <2>3
      <3>2. n = v
        BY <1>1, <1>a, <2>2, <3>1
      <3>3. held = AtLeast0(Total(M) - v)
        BY <1>1, <2>1, <2>3, <3>2
      <3> QED
        BY <2>2, <3>3 DEF AtLeast0
    <2> QED
      BY <1>1, <1>2, <2>1, <2>2, <2>3 DEF Values
  <1>7. ASSUME NEW l1, Trades(M, M1, ev, l, l1, live)
        PROVE  /\ ev.type # "Add" /\ Total(M1) <= Total(M)
               /\ old.open_notional = Total(M) /\ Total(M) < most => held = Total(M1)
    <2>1. /\ ev.type # "Add" /\ l \in M /\ l1 \notin M /\ M1 = (M \ {l}) \cup {l1}
          /\ Worth(l1) \in Nat /\ Worth(l) = Worth(l1) + v
      BY <1>1, <1>7 DEF Trades
    <2>2. PICK W : W = M \ {l}
      OBVIOUS
    <2>3. Priced(W) /\ l1 \notin W
      BY <2>1, <2>2, PartOfPriced
    <2>4. Total(M1) = Worth(l1) + Total(W) /\ Total(W) \in Nat
      BY <2>1, <2>2, <2>3, TotalWith, TotalOf
    <2>5. Total(M) = Worth(l) + Total(W)
      BY <2>1, <2>2, TotalOf
    <2>6. v \in Nat
      BY <1>1, <1>7 DEF Trades
    <2>7. Total(M) = v + Total(M1) /\ Total(M1) \in Nat
      BY <2>1, <2>4, <2>5, <2>6
    <2>8. ASSUME old.open_notional = Total(M), Total(M) < most
          PROVE  held = Total(M1)
      <3>1. v < most
        BY <1>3, <2>6, <2>7, <2>8
      <3>2. n = v
        BY <1>1, <1>a, <2>6, <3>1
      <3>3. held = AtLeast0(Total(M) - v)
        BY <1>1, <2>1, <2>8, <3>2
      <3> QED
        BY <2>6, <2>7, <3>3 DEF AtLeast0
    <2> QED
      BY <1>3, <2>1, <2>6, <2>7, <2>8
  <1> QED
    BY <1>1, <1>2, <1>4, <1>5, <1>6, <1>7 DEF Values

(* The same of all accounts. *)
CountsAgree(bs, ac) == \A a \in Accounts : Counts(ac[a], Mine(bs, a))

ValuesAgree(bs, ac) == \A a \in Accounts : Values(ac[a], Mine(bs, a))

(* What an account has in the books is worth less than a notional can hold. *)
Fits(bs) == \A a \in Accounts : Total(Mine(bs, a)) < NotionalModulus

(* pub is ev as it is published. *)
Publishes(pub, ev) ==
  /\ pub.type = ev.type /\ pub.order_id = ev.order_id /\ pub.account_id = ev.account_id
  /\ pub.price = ev.price /\ pub.qty = ev.qty

LEMMA PublishedChanges ==
  ASSUME NEW pub, NEW ev, Publishes(pub, ev), NEW M, NEW M1, NEW live, Changes(M, M1, ev, live)
  PROVE  Changes(M, M1, pub, live)
  BY DEF Publishes, Changes, Gains, Loses, Trades

LEMMA EventTracks ==
  ASSUME NEW bs, GoodBooks(bs), NEW bs1, NEW s \in Symbols, OnlyBook(s, bs, bs1),
         NEW ev, NEW c, c = bs1[s], GoodBook(c), BookStep(bs[s], ev, c),
         NEW live, TellsLive(ev, c, live), NEW pub, Publishes(pub, ev),
         NEW ac, GoodAccounts(ac), CountsAgree(bs, ac), NEW ac1, ac1 = OnMarketData(ac, pub, live)
  PROVE  /\ CountsAgree(bs1, ac1)
         /\ ev.type # "Add" /\ Fits(bs) => Fits(bs1)
         /\ ValuesAgree(bs, ac) /\ Fits(bs) /\ Fits(bs1) => ValuesAgree(bs1, ac1)
  <1>1. PICK a, old, new : a = pub.account_id /\ old = ac[a] /\ new = Holds(old, pub, live)
    OBVIOUS
  <1>2. ev.account_id = a /\ pub.type = ev.type
    BY <1>1 DEF Publishes
  <1>3. /\ a \in Accounts
        /\ Changes(Mine(bs, a), Mine(bs1, a), ev, live)
        /\ \A b : b # a => Mine(bs1, b) = Mine(bs, b)
    BY <1>2, StepChanges
  <1>4. PICK M, M1 : M = Mine(bs, a) /\ M1 = Mine(bs1, a)
    OBVIOUS
  <1>5. Changes(M, M1, pub, live)
    BY <1>3, <1>4, PublishedChanges
  <1>6. ac1 = [ac EXCEPT ![a] = new]
    BY <1>1 DEF OnMarketData, Holds
  <1>7. old \in AccountsTyped /\ ac1[a] = new /\ \A b \in Accounts : b # a => ac1[b] = ac[b]
    <2>1. ac \in [Accounts -> AccountsTyped]
      BY DEF GoodAccounts
    <2> QED
      BY <1>1, <1>3, <1>6, <2>1
  <1>8. Counts(old, M)
    BY <1>1, <1>3, <1>4 DEF CountsAgree
  <1>9. Counts(new, M1)
    BY <1>1, <1>5, <1>7, <1>8, CountStep
  <1>10. CountsAgree(bs1, ac1)
    BY <1>3, <1>4, <1>7, <1>9 DEF CountsAgree
  <1>11. Priced(M) /\ Priced(M1)
    <2>1. GoodBooks(bs1)
      BY DEF GoodBooks, OnlyBook
    <2> QED
      BY <1>4, <1>8, <1>9, <2>1, MinePriced DEF Counts
  <1>12. /\ pub.type # "Add" => Total(M1) <= Total(M)
         /\ Values(old, M) /\ Total(M) < NotionalModulus /\ Total(M1) < NotionalModulus =>
              Values(new, M1)
    BY <1>1, <1>5, <1>7, <1>11, ValueStep
  <1>13. ASSUME ev.type # "Add", Fits(bs) PROVE Fits(bs1)
    <2>1. Total(M1) <= Total(M) /\ Total(M) < NotionalModulus
      BY <1>2, <1>3, <1>4, <1>12, <1>13 DEF Fits
    <2>2. Total(M1) \in Nat /\ Total(M) \in Nat /\ NotionalModulus \in Nat
      BY <1>11, TotalOf, LimitAssumption
    <2>3. Total(M1) < NotionalModulus
      BY <2>1, <2>2
    <2> QED
      BY <1>3, <1>4, <1>13, <2>3 DEF Fits
  <1>14. ASSUME ValuesAgree(bs, ac), Fits(bs), Fits(bs1) PROVE ValuesAgree(bs1, ac1)
    <2>1. Values(new, M1)
      BY <1>1, <1>3, <1>4, <1>12, <1>14 DEF ValuesAgree, Fits
    <2> QED
      BY <1>3, <1>4, <1>7, <1>14, <2>1 DEF ValuesAgree
  <1> QED
    BY <1>10, <1>13, <1>14

(* What a stamped event says. *)
LEMMA StampedPublishes ==
  ASSUME NEW s, NEW md \in Seq(BookEvents), NEW evs, evs = Stamped(s, md), NEW k \in DOMAIN md
  PROVE  Publishes(evs[k], md[k])
  <1>1. PICK ev : ev = md[k]
    OBVIOUS
  <1>2. evs[k] = [type |-> ev.type, symbol_id |-> s, order_id |-> ev.order_id,
                  account_id |-> ev.account_id, side |-> ev.side, price |-> ev.price,
                  qty |-> ev.qty, reason |-> "None"]
    BY <1>1 DEF Stamped
  <1> QED
    BY <1>1, <1>2 DEF Publishes

(* The index knows whether an order of book s that traded still rests. *)
LEMMA IndexTellsLive ==
  ASSUME NEW m, GoodManager(m), Indexed(m), NEW n, GoodManager(n), Indexed(n),
         NEW s \in Symbols, \A t \in Symbols \ {s} : n.books[t] = m.books[t],
         NEW id \in LiveIds(m.books[s])
  PROVE  ContainsOrder(n, id) <=> id \in LiveIds(n.books[s])
  <1>1. id \in OrderIds /\ m.order_to_symbol[id] = s
    BY DEF Indexed, LiveIds
  <1>2. ASSUME id \in LiveIds(n.books[s]) PROVE ContainsOrder(n, id)
    <2>1. n.order_to_symbol[id] = s /\ s # kNoSymbol
      BY <1>2, NoSymbolIsNone DEF Indexed
    <2> QED
      BY <1>1, <2>1 DEF ContainsOrder
  <1>3. ASSUME ContainsOrder(n, id) PROVE id \in LiveIds(n.books[s])
    <2>1. PICK t : t = n.order_to_symbol[id]
      OBVIOUS
    <2>2. t \in Symbols /\ id \in LiveIds(n.books[t])
      BY <1>1, <1>3, <2>1 DEF ContainsOrder, GoodManager
    <2>3. t = s
      <3> SUFFICES ASSUME t # s PROVE FALSE
        OBVIOUS
      <3>1. id \in LiveIds(m.books[t])
        BY <2>2
      <3>2. m.order_to_symbol[id] = t
        BY <2>2, <3>1 DEF Indexed
      <3> QED
        BY <1>1, <3>2
    <2> QED
      BY <2>2, <2>3
  <1> QED
    BY <1>2, <1>3

(* The books after k of the events. *)
BooksAt(m, s, g, k) == [m.books EXCEPT ![s] = g[k]]

LEMMA BooksAtIs ==
  ASSUME NEW m, GoodManager(m), NEW s \in Symbols, NEW g, NEW k, NEW bs, bs = BooksAt(m, s, g, k),
         GoodBook(g[k])
  PROVE  /\ bs = [t \in Symbols |-> bs[t]]
         /\ bs[s] = g[k] /\ \A t \in Symbols \ {s} : bs[t] = m.books[t]
         /\ GoodBooks(bs)
  <1>1. m.books = [t \in Symbols |-> m.books[t]] /\ \A t \in Symbols : GoodBook(m.books[t])
    BY DEF GoodManager
  <1>2. /\ bs = [t \in Symbols |-> bs[t]]
        /\ bs[s] = g[k] /\ \A t \in Symbols \ {s} : bs[t] = m.books[t]
    BY <1>1 DEF BooksAt
  <1> QED
    BY <1>1, <1>2 DEF GoodBooks

(* The events of a call, taken one by one by the risk engine. *)
LEMMA TakenTracks ==
  ASSUME NEW m, GoodManager(m), Indexed(m), NEW n, GoodManager(n), Indexed(n),
         NEW s \in Symbols, NEW md, NEW evs, OneBookTells(s, md, evs, m, n),
         evs \in Seq(PublishedEvents), \A k \in DOMAIN evs : evs[k].account_id \in Accounts,
         NEW ac, GoodAccounts(ac), CountsAgree(m.books, ac), NEW ac1, ac1 = AccountForMd(ac, evs, n)
  PROVE  /\ CountsAgree(n.books, ac1)
         /\ ValuesAgree(m.books, ac) /\ Fits(m.books) /\ Fits(n.books) => ValuesAgree(n.books, ac1)
  <1>1. /\ md \in Seq(BookEvents) /\ evs = Stamped(s, md)
        /\ \A t \in Symbols \ {s} : n.books[t] = m.books[t]
        /\ \A k \in DOMAIN md : md[k].type # "Add" => md[k].order_id \in LiveIds(m.books[s])
        /\ Tells(md, m.books[s], n.books[s])
    BY DEF OneBookTells
  <1>2. PICK most : most = Len(md)
    OBVIOUS
  <1>3. most \in Nat /\ DOMAIN md = 1 .. most /\ DOMAIN evs = 1 .. most /\ Len(evs) = most
    <2>1. most \in Nat /\ DOMAIN md = 1 .. most
      BY <1>1, <1>2
    <2>2. DOMAIN evs = DOMAIN md
      BY <1>1, StampedType
    <2> QED
      BY <2>1, <2>2
  <1>4. PICK g : BookPath(g, m.books[s], md, n.books[s]) /\ Orderly(g, md, n.books[s])
    BY <1>1 DEF Tells
  <1>5. /\ g[0] = m.books[s] /\ g[most] = n.books[s]
        /\ \A k \in 0 .. most : GoodBook(g[k])
        /\ \A k \in 1 .. most : BookStep(g[k - 1], md[k], g[k])
        /\ \A k \in 1 .. most :
             /\ md[k].type = "Add" => k = most
             /\ md[k].type = "Execute" =>
                  (md[k].order_id \in LiveIds(g[k]) <=> md[k].order_id \in LiveIds(n.books[s]))
    BY <1>2, <1>4 DEF BookPath, Orderly
  <1>6. PICK h : h = CHOOSE f : Accounted(f, ac, evs, n, most)
    OBVIOUS
  <1>7. Accounted(h, ac, evs, n, most)
    BY <1>3, <1>6, AccountedExists
  <1>8. ac1 = h[most]
    BY <1>3, <1>6 DEF AccountForMd, Accounted, AccountStep
  <1>9. \A k \in 0 .. most : h[k] = AccountStep(h, ac, evs, n, k)
    BY <1>7 DEF Accounted
  <1>10. BooksAt(m, s, g, 0) = m.books
    <2>1. PICK bs : bs = BooksAt(m, s, g, 0)
      OBVIOUS
    <2>2. 0 \in 0 .. most
      BY <1>3
    <2>3. bs = [t \in Symbols |-> bs[t]] /\ \A t \in Symbols : bs[t] = m.books[t]
      BY <1>5, <2>1, <2>2, BooksAtIs
    <2>4. m.books = [t \in Symbols |-> m.books[t]]
      BY DEF GoodManager
    <2> QED
      BY <2>1, <2>3, <2>4
  <1>11. BooksAt(m, s, g, most) = n.books
    <2>1. PICK bs : bs = BooksAt(m, s, g, most)
      OBVIOUS
    <2>2. most \in 0 .. most
      BY <1>3
    <2>3. bs = [t \in Symbols |-> bs[t]] /\ \A t \in Symbols : bs[t] = n.books[t]
      BY <1>1, <1>5, <2>1, <2>2, BooksAtIs
    <2>4. n.books = [t \in Symbols |-> n.books[t]]
      BY DEF GoodManager
    <2> QED
      BY <2>1, <2>3, <2>4
  <1> DEFINE Worthy == ValuesAgree(m.books, ac) /\ Fits(m.books) /\ Fits(n.books)
             Kept(k) == /\ GoodAccounts(h[k]) /\ CountsAgree(BooksAt(m, s, g, k), h[k])
                        /\ Worthy => /\ ValuesAgree(BooksAt(m, s, g, k), h[k])
                                     /\ Fits(BooksAt(m, s, g, k))
             Bad == {k \in 0 .. most : ~ Kept(k)}
  <1>12. Bad = {}
    <2> SUFFICES ASSUME Bad # {} PROVE FALSE
      OBVIOUS
    <2>1. PICK k \in Bad : \A j \in Bad : k <= j
      <3>1. Bad \in SUBSET Nat
        OBVIOUS
      <3> HIDE DEF Bad
      <3> QED
        BY <3>1, LeastNumber
    <2>2. k # 0
      <3> SUFFICES ASSUME k = 0 PROVE FALSE
        OBVIOUS
      <3>1. h[k] = ac
        BY <1>9, <2>1 DEF AccountStep
      <3>2. BooksAt(m, s, g, k) = m.books
        BY <1>10
      <3>3. Kept(k)
        BY <3>1, <3>2
      <3> QED
        BY <2>1, <3>3
    <2>3. k - 1 \in 0 .. most /\ k - 1 \notin Bad /\ k \in 1 .. most /\ k \in 0 .. most
      BY <1>3, <2>1, <2>2
    <2>4. PICK bs, bs1, before, after, ev, pub, live, c :
            /\ bs = BooksAt(m, s, g, k - 1) /\ bs1 = BooksAt(m, s, g, k)
            /\ before = h[k - 1] /\ after = h[k] /\ ev = md[k] /\ pub = evs[k]
            /\ live = ContainsOrder(n, pub.order_id) /\ c = bs1[s]
      OBVIOUS
    <2>5. Kept(k - 1)
      BY <2>3
    <2>6. /\ GoodAccounts(before) /\ CountsAgree(bs, before)
          /\ Worthy => ValuesAgree(bs, before) /\ Fits(bs)
      BY <2>4, <2>5
    <2> HIDE DEF Bad, Kept, Worthy
    <2>7. after = OnMarketData(before, pub, live)
      BY <1>9, <2>2, <2>3, <2>4 DEF AccountStep
    <2>8. /\ bs[s] = g[k - 1] /\ \A t \in Symbols \ {s} : bs[t] = m.books[t]
          /\ GoodBooks(bs)
      BY <1>5, <2>3, <2>4, BooksAtIs
    <2>9. /\ bs1[s] = g[k] /\ \A t \in Symbols \ {s} : bs1[t] = m.books[t]
      BY <1>5, <2>3, <2>4, BooksAtIs
    <2>10. /\ OnlyBook(s, bs, bs1) /\ GoodBook(c) /\ BookStep(bs[s], ev, c)
      BY <1>5, <2>3, <2>4, <2>8, <2>9 DEF OnlyBook
    <2>11. Publishes(pub, ev)
      BY <1>1, <1>3, <2>3, <2>4, StampedPublishes
    <2>12. TellsLive(ev, c, live)
      <3> SUFFICES ASSUME ev.type = "Execute"
                   PROVE  live <=> ev.order_id \in LiveIds(c)
        BY DEF TellsLive
      <3>1. PICK id : id = ev.order_id
        OBVIOUS
      <3>2. id \in LiveIds(m.books[s])
        BY <1>1, <1>3, <2>3, <2>4, <3>1
      <3>3. ContainsOrder(n, id) <=> id \in LiveIds(n.books[s])
        BY <1>1, <3>2, IndexTellsLive
      <3>4. id \in LiveIds(c) <=> id \in LiveIds(n.books[s])
        BY <1>5, <2>3, <2>4, <2>9, <3>1
      <3>5. live <=> ContainsOrder(n, id)
        BY <2>4, <2>11, <3>1 DEF Publishes
      <3> QED
        BY <3>1, <3>3, <3>4, <3>5
    <2>13. GoodAccounts(after)
      <3>1. pub \in PublishedEvents /\ pub.account_id \in Accounts
        BY <1>3, <2>3, <2>4
      <3> QED
        BY <2>6, <2>7, <3>1, OnMarketDataDoes
    <2>14. /\ CountsAgree(bs1, after)
           /\ ev.type # "Add" /\ Fits(bs) => Fits(bs1)
           /\ ValuesAgree(bs, before) /\ Fits(bs) /\ Fits(bs1) => ValuesAgree(bs1, after)
      <3>1. GoodBooks(bs) /\ GoodAccounts(before) /\ CountsAgree(bs, before)
        BY <2>6, <2>8
      <3>2. c = bs1[s]
        BY <2>4
      <3> QED
        BY <2>7, <2>10, <2>11, <2>12, <3>1, <3>2, EventTracks
    <2>15. Worthy => Fits(bs1)
      <3>1. CASE ev.type # "Add"
        BY <2>6, <2>14, <3>1
      <3>2. CASE ev.type = "Add"
        <4>1. bs1 = n.books
          BY <1>5, <1>11, <2>3, <2>4, <3>2
        <4> QED
          BY <4>1 DEF Worthy
      <3> QED
        BY <3>1, <3>2
    <2>16. Kept(k)
      BY <2>4, <2>6, <2>13, <2>14, <2>15 DEF Kept
    <2> QED
      BY <2>1, <2>16 DEF Bad
  <1>13. Kept(most)
    <2>1. most \in 0 .. most
      BY <1>3
    <2> QED
      BY <1>12, <2>1
  <1> QED
    BY <1>8, <1>11, <1>13

(* What is counted does not depend on the messages of an account. *)
LEMMA SameHoldingsTracked ==
  ASSUME NEW bs, NEW ac, NEW ac1, SameHoldings(ac1, ac)
  PROVE  /\ CountsAgree(bs, ac) => CountsAgree(bs, ac1)
         /\ ValuesAgree(bs, ac) => ValuesAgree(bs, ac1)
  BY DEF SameHoldings, CountsAgree, ValuesAgree, Counts, Values

(* A new order is let through only below the limit of open orders. *)
LEMMA CheckCaps ==
  ASSUME NEW ac, GoodAccounts(ac), NEW cmd \in Command, cmd.account_id \in Accounts,
         cmd.type = "New", NEW known \in BOOLEAN, NEW now, NEW r,
         r = Check(ac, cmd, known, now), r.reason = "None"
  PROVE  ac[cmd.account_id].open_orders < max_open_orders_per_account
  <1>1. PICK old, refusal, limited, first :
          /\ old = ac[cmd.account_id] /\ refusal = OrderRefusal(old, cmd, known)
          /\ limited = (Len(StillRecent(old.recent_msgs, now)) >= max_msgs_per_window)
          /\ first = r.accounts
    OBVIOUS
  <1>2. r.reason = IF limited THEN "RiskRateLimit" ELSE refusal
    BY <1>1 DEF Check
  <1>3. refusal = "None"
    BY <1>2
  <1>4. ~ (old.open_orders >= max_open_orders_per_account)
    BY <1>1, <1>3 DEF OrderRefusal
  <1>5. old.open_orders \in Nat /\ max_open_orders_per_account \in Nat
    BY <1>1, LimitAssumption DEF GoodAccounts, AccountsTyped
  <1> QED
    BY <1>1, <1>4, <1>5

(* An accepted command executed, and its events went to the risk engine. *)
Executes(cmd, m, ac, n, ac2) ==
  \E ac1, c :
    /\ GoodAccounts(ac1) /\ SameHoldings(ac1, ac) /\ Executable(m, cmd)
    /\ cmd.type = "New" => ac[cmd.account_id].open_orders < max_open_orders_per_account
    /\ c = Execute(m, cmd) /\ c.reject = "None"
    /\ n = c.manager /\ ac2 = AccountForMd(ac1, c.md, n)

LEMMA ApplyExecutes ==
  ASSUME NEW e, GoodExchange(e), NEW sc, Applicable(sc), NEW cmd, cmd = sc.cmd,
         NEW r, r = ApplySequenced(e, sc), r.accepted
  PROVE  Executes(cmd, e.manager, e.accounts, r.exchange.manager, r.exchange.accounts)
  <1>1. PICK ns, nm, m, ac, now, known :
          /\ ns = e.next_seq /\ nm = e.next_md_seq /\ m = e.manager /\ ac = e.accounts
          /\ now = sc.recv_ts_ns /\ known = ContainsOrder(m, cmd.cancel_order_id)
    OBVIOUS
  <1>2. /\ e = ExchangeOf(ns, nm, m, ac) /\ GoodManager(m) /\ GoodAccounts(ac)
    BY <1>1 DEF GoodExchange, ExchangeShaped
  <1>3. PICK ns1, risk, ac1, reason, e1 :
          /\ ns1 = SeqAfter(ns, sc.seq) /\ risk = RiskOf(m, ac, sc)
          /\ ac1 = risk.accounts /\ reason = risk.reason
          /\ e1 = ExchangeOf(ns1, nm, m, ac1) /\ r = Checked(e1, cmd, reason)
    BY <1>2, ApplyIs
  <1>4. /\ cmd \in Command /\ cmd.account_id \in Accounts /\ now \in Nat
        /\ cmd.type # "Cancel" => cmd.order_id \in OrderIds
    BY <1>1 DEF Applicable
  <1>5. known \in BOOLEAN
    BY <1>1 DEF ContainsOrder
  <1>6. risk = Check(ac, cmd, known, now)
    BY <1>1, <1>3 DEF RiskOf
  <1>7. /\ GoodAccounts(ac1) /\ SameHoldings(ac1, ac)
        /\ reason = "None" => (cmd.type # "New" => known)
    BY <1>2, <1>3, <1>4, <1>5, <1>6, CheckDoes
  <1>8. PICK c : c = Execute(m, cmd)
    OBVIOUS
  <1>9. /\ reason = "None" /\ ~ NoBook(cmd) /\ c.reject = "None"
        /\ r = Taken(ns1, nm, c.manager, ac1, c.md)
    <2>1. \/ r = Refused(ns1, nm, m, ac1, cmd, reason)
          \/ r = Thrown(ns1, nm, m, ac1)
          \/ r = Refused(ns1, nm, c.manager, ac1, cmd, c.reject)
          \/ /\ reason = "None" /\ ~ NoBook(cmd) /\ c.reject = "None"
             /\ r = Taken(ns1, nm, c.manager, ac1, c.md)
      BY <1>3, <1>8, CheckedIs
    <2>2. r # Refused(ns1, nm, m, ac1, cmd, reason)
      <3>1. PICK no : no = Refused(ns1, nm, m, ac1, cmd, reason)
        OBVIOUS
      <3>2. ~ no.accepted
        BY <3>1, RefusedParts
      <3> QED
        BY <3>1, <3>2
    <2>3. r # Refused(ns1, nm, c.manager, ac1, cmd, c.reject)
      <3>1. PICK n, why : n = c.manager /\ why = c.reject
        OBVIOUS
      <3>2. r # Refused(ns1, nm, n, ac1, cmd, why)
        <4>1. PICK no : no = Refused(ns1, nm, n, ac1, cmd, why)
          OBVIOUS
        <4>2. ~ no.accepted
          BY <4>1, RefusedParts
        <4> QED
          BY <4>1, <4>2
      <3> QED
        BY <3>1, <3>2
    <2>4. r # Thrown(ns1, nm, m, ac1)
      BY ThrownParts
    <2> QED
      BY <2>1, <2>2, <2>3, <2>4
  <1>10. PICK n, md : n = c.manager /\ md = c.md
    OBVIOUS
  <1>11. r.exchange.manager = n /\ r.exchange.accounts = AccountForMd(ac1, md, n)
    <2>1. PICK nm1, ac2 : nm1 = nm + Len(md) /\ ac2 = AccountForMd(ac1, md, n)
      OBVIOUS
    <2>2. r = Taken(ns1, nm, n, ac1, md)
      BY <1>9, <1>10
    <2>3. r.exchange = ExchangeOf(ns1, nm1, n, ac2)
      BY <2>1, <2>2, TakenParts
    <2> QED
      BY <2>1, <2>3, ExchangeParts
  <1>12. Executable(m, cmd)
    BY <1>1, <1>4, <1>7, <1>9 DEF Executable, NoBook
  <1>13. cmd.type = "New" => ac[cmd.account_id].open_orders < max_open_orders_per_account
    BY <1>2, <1>3, <1>4, <1>5, <1>6, <1>9, CheckCaps
  <1> QED
    BY <1>1, <1>7, <1>8, <1>9, <1>10, <1>11, <1>12, <1>13 DEF Executes

LEMMA ExecutesTracks ==
  ASSUME NEW m, GoodManager(m), Indexed(m), NEW cmd, Tidy(m, cmd), NEW ac, CountsAgree(m.books, ac),
         NEW n, NEW ac2, Executes(cmd, m, ac, n, ac2)
  PROVE  /\ CountsAgree(n.books, ac2)
         /\ ValuesAgree(m.books, ac) /\ Fits(m.books) /\ Fits(n.books) => ValuesAgree(n.books, ac2)
  <1>1. PICK ac1, c : /\ GoodAccounts(ac1) /\ SameHoldings(ac1, ac) /\ Executable(m, cmd)
                      /\ c = Execute(m, cmd)
                      /\ n = c.manager /\ ac2 = AccountForMd(ac1, c.md, n)
    BY DEF Executes
  <1>2. PICK evs : evs = c.md
    OBVIOUS
  <1>3. ManagerDoes(c, m, cmd) /\ Indexed(n)
    BY <1>1, ExecuteDoes
  <1>4. /\ GoodManager(n) /\ evs \in Seq(PublishedEvents)
        /\ \A k \in DOMAIN evs : evs[k].account_id \in Accounts
        /\ \E s \in Symbols : \E md : OneBookTells(s, md, evs, m, n)
    BY <1>1, <1>2, <1>3 DEF ManagerDoes
  <1>5. PICK s \in Symbols : \E md : OneBookTells(s, md, evs, m, n)
    BY <1>4
  <1>6. PICK md : OneBookTells(s, md, evs, m, n)
    BY <1>5
  <1>7. CountsAgree(m.books, ac1) /\ (ValuesAgree(m.books, ac) => ValuesAgree(m.books, ac1))
    BY <1>1, SameHoldingsTracked
  <1>8. ac2 = AccountForMd(ac1, evs, n)
    BY <1>1, <1>2
  <1> QED
    BY <1>1, <1>3, <1>4, <1>6, <1>7, <1>8, TakenTracks

(* What a sequenced command leaves, if clients keep to Obeys. *)
LEMMA SequencesTracks ==
  ASSUME Disciplined, GoodExchange(exchange), Indexed(exchange.manager),
         NEW cmd, NEW sc, NEW r, Sequences(cmd, sc, r)
  PROVE  /\ Tidy(exchange.manager, cmd) /\ last'.cmd = cmd
         /\ \/ /\ exchange'.manager = exchange.manager
               /\ SameHoldings(exchange'.accounts, exchange.accounts)
            \/ Executes(cmd, exchange.manager, exchange.accounts,
                        exchange'.manager, exchange'.accounts)
  <1>1. PICK e : e = NextSeq
    OBVIOUS
  <1>2. /\ GoodExchange(e) /\ e.manager = exchange.manager /\ e.accounts = exchange.accounts
    BY <1>1, NextSeqIs
  <1>3. /\ sc.cmd = cmd /\ Applicable(sc)
        /\ r = ApplySequenced(e, sc) /\ Answer(cmd, r)
        /\ Obeys(cmd) /\ Validate(cmd) = "None"
    BY <1>1 DEF Sequences
  <1>4. exchange' = r.exchange
    BY <1>3, AnswerIs
  <1>5. last'.cmd = cmd
    <2>1. PICK accepted, reason, md, thrown :
            /\ accepted = r.accepted /\ reason = r.reason /\ md = r.md /\ thrown = r.thrown
      OBVIOUS
    <2>2. last' = [cmd |-> cmd, accepted |-> accepted, reason |-> reason, md |-> md,
                   thrown |-> thrown]
      BY <1>3, <2>1, Zenon DEF Answer
    <2> QED
      BY <2>2
  <1>6. Tidy(exchange.manager, cmd)
    <2>1. cmd.type = "Replace" => cmd.qty # 0
      BY <1>3 DEF Validate
    <2> QED
      BY <1>3, <2>1 DEF Obeys, Tidy
  <1>7. CASE r.accepted
    BY <1>2, <1>3, <1>4, <1>5, <1>6, <1>7, ApplyExecutes
  <1>8. CASE ~ r.accepted
    <2>1. /\ SameHoldings(r.exchange.accounts, e.accounts)
          /\ r.exchange.manager = e.manager
      BY <1>2, <1>3, <1>6, <1>8, ApplyDoes
    <2> QED
      BY <1>2, <1>4, <1>5, <1>6, <2>1
  <1> QED
    BY <1>7, <1>8

-----------------------------------------------------------------------------
(* What the risk engine holds against an account is what it has in the books. *)

CountInv == TidyInv /\ CountsAgree(exchange.manager.books, exchange.accounts)

ValueInv == CountInv /\ ValuesAgree(exchange.manager.books, exchange.accounts)

BooksFit == Fits(exchange.manager.books)

LEMMA InitValueInv == Init => ValueInv
  <1> SUFFICES ASSUME Init PROVE ValueInv
    OBVIOUS
  <1>1. TidyInv
    BY InitExchangeInv DEF TidyInv
  <1>2. PICK bs, ac : bs = exchange.manager.books /\ ac = exchange.accounts
    OBVIOUS
  <1>3. exchange.manager = EmptyManager /\ ac = [a \in Accounts |-> NewAccount]
    BY <1>2, NewExchangeIs, ExchangeParts DEF Init
  <1>4. \A s \in Symbols : bs[s] = EmptyQueues
    BY <1>2, <1>3 DEF EmptyManager
  <1>5. \A s \in Symbols : OrdersIn(bs[s]) = {}
    BY <1>4, EmptyGood DEF OrdersIn
  <1>6. \A a : Mine(bs, a) = {}
    BY <1>5, MineIs
  <1>7. \A a \in Accounts : ac[a].open_orders = 0 /\ ac[a].open_notional = 0
    BY <1>3 DEF NewAccount
  <1>8. IsFiniteSet({}) /\ Cardinality({}) = 0
    BY FS_EmptySet
  <1>9. Total({}) = 0
    <2>1. Priced({})
      BY <1>8 DEF Priced
    <2> QED
      BY <2>1, TotalOf
  <1>10. CountsAgree(bs, ac) /\ ValuesAgree(bs, ac)
    BY <1>6, <1>7, <1>8, <1>9 DEF CountsAgree, Counts, ValuesAgree, Values
  <1> QED
    BY <1>1, <1>2, <1>10 DEF ValueInv, CountInv

LEMMA NextCounts ==
  ASSUME Disciplined
  PROVE  /\ CountInv /\ [Next]_vars => CountInv'
         /\ ValueInv /\ BooksFit /\ BooksFit' /\ [Next]_vars => ValueInv'
  <1>1. TidyInv /\ [Next]_vars => TidyInv'
    BY NextTidyInv
  <1>2. ASSUME CountInv, [Next]_vars
        PROVE  /\ CountsAgree(exchange'.manager.books, exchange'.accounts)
               /\ ValueInv /\ BooksFit /\ BooksFit' =>
                    ValuesAgree(exchange'.manager.books, exchange'.accounts)
    <2>1. PICK m, n, ac, ac2 : /\ m = exchange.manager /\ n = exchange'.manager
                               /\ ac = exchange.accounts /\ ac2 = exchange'.accounts
      OBVIOUS
    <2>2. /\ GoodExchange(exchange) /\ exchange.next_seq \in Nat /\ Indexed(m)
          /\ GoodManager(m) /\ CountsAgree(m.books, ac)
      BY <1>2, <2>1 DEF CountInv, TidyInv, ExchangeInv, GoodExchange
    <2> DEFINE Goal == /\ CountsAgree(n.books, ac2)
                       /\ ValuesAgree(m.books, ac) /\ Fits(m.books) /\ Fits(n.books) =>
                            ValuesAgree(n.books, ac2)
    <2>3. ASSUME NEW cmd, NEW sc, NEW r, Sequences(cmd, sc, r) PROVE Goal
      <3>1. /\ Tidy(m, cmd)
            /\ \/ n = m /\ SameHoldings(ac2, ac)
               \/ Executes(cmd, m, ac, n, ac2)
        BY <2>1, <2>2, <2>3, SequencesTracks
      <3>2. CASE n = m /\ SameHoldings(ac2, ac)
        BY <2>2, <3>2, SameHoldingsTracked
      <3>3. CASE Executes(cmd, m, ac, n, ac2)
        BY <2>2, <3>1, <3>3, ExecutesTracks
      <3> QED
        BY <3>1, <3>2, <3>3
    <2>4. ASSUME NEW cmd, NEW reason, NEW r, RefusesFrame(cmd, reason, r) PROVE Goal
      <3>1. n = m /\ ac2 = ac
        BY <2>1, <2>2, <2>4, RefusesKeeps
      <3> QED
        BY <2>2, <3>1
    <2>5. ASSUME Next PROVE Goal
      <3> HIDE DEF Goal
      <3> QED
        BY <2>2, <2>3, <2>4, <2>5, NextIs
    <2>6. ASSUME UNCHANGED vars PROVE Goal
      <3>1. n = m /\ ac2 = ac
        BY <2>1, <2>6 DEF vars
      <3> QED
        BY <2>2, <3>1
    <2>7. Goal
      <3> HIDE DEF Goal
      <3> QED
        BY <1>2, <2>5, <2>6
    <2> QED
      BY <2>1, <2>7 DEF ValueInv, BooksFit
  <1> QED
    BY <1>1, <1>2 DEF CountInv, ValueInv

LEMMA CountInvariance == ASSUME Disciplined PROVE Spec => []CountInv
  <1>1. Init => CountInv
    BY InitValueInv DEF ValueInv
  <1>2. CountInv /\ [Next]_vars => CountInv'
    BY NextCounts
  <1> QED
    BY <1>1, <1>2, PTL DEF Spec

LEMMA LiveOrdersAre ==
  ASSUME NEW a
  PROVE  {l \in LiveOrders : l.order.account_id = a} = Mine(exchange.manager.books, a)
  BY DEF LiveOrders, Mine, RestingIn, books

(* What each account has in the books is worth less than a notional can hold. *)
TotalsFit ==
  \A a \in Accounts :
    MapThenSumSet(LAMBDA l : Value(l.order.price, l.order.qty),
                  {l \in LiveOrders : l.order.account_id = a}) < NotionalModulus

(***************************************************************************)
(* If clients give no id to two resting orders and replace within the      *)
(* ladder, then for as long as what each account has in the books is worth *)
(* less than 2^64, the risk engine, which sees events alone, holds against *)
(* each account the number of its orders and what they are worth: through  *)
(* partial fills, trades of several orders and replacements, and though it *)
(* takes the events of a command with the index as the whole command left  *)
(* it (RiskEngine::on_market_data, RiskTracksBooks).                       *)
(***************************************************************************)
THEOREM RiskCorrect ==
  ASSUME Disciplined PROVE Spec /\ []TotalsFit => []RiskTracksBooks
  <1>1. TotalsFit => BooksFit
    <2> SUFFICES ASSUME TotalsFit, NEW a \in Accounts
                 PROVE  Total(Mine(exchange.manager.books, a)) < NotionalModulus
      BY DEF BooksFit, Fits
    <2>1. PICK mine : mine = {l \in LiveOrders : l.order.account_id = a}
      OBVIOUS
    <2>2. MapThenSumSet(LAMBDA l : Value(l.order.price, l.order.qty), mine) < NotionalModulus
      BY <2>1 DEF TotalsFit
    <2>3. Total(mine) < NotionalModulus
      BY <2>2, TotalIs
    <2> QED
      BY <2>1, <2>3, LiveOrdersAre
  <1>2. ValueInv => RiskTracksBooks
    <2> SUFFICES ASSUME ValueInv, NEW a \in Accounts
                 PROVE  LET mine == {l \in LiveOrders : l.order.account_id = a}
                        IN  /\ exchange.accounts[a].open_orders = Cardinality(mine)
                            /\ exchange.accounts[a].open_notional =
                                 MapThenSumSet(LAMBDA l : Value(l.order.price, l.order.qty),
                                               mine)
      BY Zenon DEF RiskTracksBooks
    <2> DEFINE mine == {l \in LiveOrders : l.order.account_id = a}
    <2>1. mine = Mine(exchange.manager.books, a)
      BY LiveOrdersAre
    <2> HIDE DEF mine
    <2>2. /\ exchange.accounts[a].open_orders = Cardinality(mine)
          /\ exchange.accounts[a].open_notional = Total(mine)
      BY <2>1 DEF ValueInv, CountInv, CountsAgree, Counts, ValuesAgree, Values
    <2>3. /\ exchange.accounts[a].open_orders = Cardinality(mine)
          /\ exchange.accounts[a].open_notional =
               MapThenSumSet(LAMBDA l : Value(l.order.price, l.order.qty), mine)
      BY <2>2, TotalIs
    <2> QED
      BY <2>3 DEF mine
  <1>3. ValueInv /\ BooksFit /\ BooksFit' /\ [Next]_vars => ValueInv'
    BY NextCounts
  <1> QED
    BY <1>1, <1>2, <1>3, InitValueInv, PTL DEF Spec

-----------------------------------------------------------------------------
(* The number of the orders of an account. *)

SameId(l, k) == l.order.order_id = k.order.order_id

LEMMA MineIsLive ==
  ASSUME NEW bs, GoodBooks(bs), NEW a, NEW l \in Mine(bs, a)
  PROVE  \E s \in Symbols : \E x \in OrdersIn(bs[s]) :
           /\ l = Ticket(s, x) /\ x.account_id = a
           /\ x.order_id = l.order.order_id /\ x.order_id \in LiveIds(bs[s])
           /\ x = OrderOf(bs[s], x.order_id)
  <1>1. PICK s \in Symbols : \E x \in OrdersIn(bs[s]) : l = Ticket(s, x) /\ x.account_id = a
    BY MineIs
  <1>2. PICK x \in OrdersIn(bs[s]) : l = Ticket(s, x) /\ x.account_id = a
    BY <1>1
  <1>3. x.order_id \in LiveIds(bs[s]) /\ x = OrderOf(bs[s], x.order_id)
    BY OrdersAreLive DEF GoodBooks
  <1>4. l.order = x
    BY <1>2, TicketParts
  <1> QED
    BY <1>2, <1>3, <1>4

(* An id rests once in all the books. *)
LEMMA OneById ==
  ASSUME NEW n, GoodManager(n), Indexed(n), NEW a, NEW l \in Mine(n.books, a),
         NEW k \in Mine(n.books, a), SameId(l, k)
  PROVE  l = k
  <1>1. PICK bs : bs = n.books
    OBVIOUS
  <1>2. GoodBooks(bs)
    BY <1>1 DEF GoodManager, GoodBooks
  <1>3. PICK s \in Symbols : \E x \in OrdersIn(bs[s]) :
           /\ l = Ticket(s, x) /\ x.order_id = l.order.order_id
           /\ x.order_id \in LiveIds(bs[s]) /\ x = OrderOf(bs[s], x.order_id)
    BY <1>1, <1>2, MineIsLive
  <1>4. PICK x \in OrdersIn(bs[s]) :
           /\ l = Ticket(s, x) /\ x.order_id = l.order.order_id
           /\ x.order_id \in LiveIds(bs[s]) /\ x = OrderOf(bs[s], x.order_id)
    BY <1>3
  <1>5. PICK t \in Symbols : \E y \in OrdersIn(bs[t]) :
           /\ k = Ticket(t, y) /\ y.order_id = k.order.order_id
           /\ y.order_id \in LiveIds(bs[t]) /\ y = OrderOf(bs[t], y.order_id)
    BY <1>1, <1>2, MineIsLive
  <1>6. PICK y \in OrdersIn(bs[t]) :
           /\ k = Ticket(t, y) /\ y.order_id = k.order.order_id
           /\ y.order_id \in LiveIds(bs[t]) /\ y = OrderOf(bs[t], y.order_id)
    BY <1>5
  <1>7. x.order_id = y.order_id
    BY <1>4, <1>6 DEF SameId
  <1>8. n.order_to_symbol[x.order_id] = s /\ n.order_to_symbol[y.order_id] = t
    BY <1>1, <1>4, <1>6 DEF Indexed
  <1> QED
    BY <1>4, <1>6, <1>7, <1>8

(* Orders that all have an order with the same id in B are no more than those of B. *)
LEMMA NoMoreById ==
  ASSUME NEW n, GoodManager(n), Indexed(n), NEW a, NEW A \in SUBSET Mine(n.books, a),
         NEW B, IsFiniteSet(B), \A l \in A : \E k \in B : SameId(l, k)
  PROVE  IsFiniteSet(A) /\ Cardinality(A) <= Cardinality(B)
  <1>1. PICK f : f = [l \in A |-> CHOOSE k \in B : SameId(l, k)]
    OBVIOUS
  <1>2. \A l \in A : f[l] \in B /\ SameId(l, f[l])
    BY <1>1
  <1>3. f \in [A -> B]
    BY <1>1, <1>2
  <1>4. ASSUME NEW l \in A, NEW k \in A, f[l] = f[k] PROVE l = k
    <2>1. SameId(l, k)
      BY <1>2, <1>4 DEF SameId
    <2> QED
      BY <2>1, OneById
  <1>5. f \in Injection(A, B)
    BY <1>3, <1>4 DEF Injection, IsInjective
  <1> QED
    BY <1>5, FS_Injection

(* All but one of the orders. *)
LEMMA OneMoreById ==
  ASSUME NEW n, GoodManager(n), Indexed(n), NEW a, NEW id, NEW M1, M1 = Mine(n.books, a),
         NEW A \in SUBSET M1, \A l \in M1 : l \in A <=> l.order.order_id # id,
         IsFiniteSet(A)
  PROVE  IsFiniteSet(M1) /\ Cardinality(M1) <= Cardinality(A) + 1
  <1>1. Cardinality(A) \in Nat
    BY FS_CardinalityType
  <1>2. CASE A = M1
    <2>1. IsFiniteSet(M1) /\ Cardinality(M1) = Cardinality(A)
      BY <1>2, Zenon
    <2> QED
      BY <1>1, <2>1
  <1>3. CASE A # M1
    <2>1. PICK l \in M1 : l.order.order_id = id
      BY <1>3
    <2>2. \A k \in M1 : k.order.order_id = id => k = l
      BY <2>1, OneById DEF SameId
    <2>3. M1 = A \cup {l} /\ l \notin A
      BY <2>1, <2>2
    <2>4. IsFiniteSet(M1) /\ Cardinality(M1) = Cardinality(A) + 1
      <3>1. IsFiniteSet(A \cup {l}) /\ Cardinality(A \cup {l}) = Cardinality(A) + 1
        BY <2>3, FS_AddElement
      <3> QED
        BY <2>3, <3>1
    <2> QED
      BY <1>1, <2>4
  <1> QED
    BY <1>2, <1>3

LEMMA StemOrder ==
  ASSUME NEW q, GoodBook(q), NEW q0, GoodBook(q0), NEW x \in OrdersIn(q)
  PROVE  /\ StemsFrom(q, q0) =>
              \E y \in OrdersIn(q0) : y.order_id = x.order_id /\ y.account_id = x.account_id
         /\ \A o : StemsFromOr(q, q0, o) =>
              \/ \E y \in OrdersIn(q0) : y.order_id = x.order_id /\ y.account_id = x.account_id
              \/ x.order_id = o.order_id /\ x.account_id = o.account_id
  <1>1. PICK s \in Sides, p \in Band :
          \E k \in DOMAIN q[s][p] : x = RestingAs(q[s][p][k], s, p)
    BY OrdersInIs
  <1>2. PICK k \in DOMAIN q[s][p] : x = RestingAs(q[s][p][k], s, p)
    BY <1>1
  <1>3. x.order_id = q[s][p][k].order_id /\ x.account_id = q[s][p][k].account_id
    BY <1>2 DEF RestingAs
  <1>4. ASSUME NEW j \in DOMAIN q0[s][p],
               q[s][p][k].order_id = q0[s][p][j].order_id,
               q[s][p][k].account_id = q0[s][p][j].account_id
        PROVE  \E y \in OrdersIn(q0) : y.order_id = x.order_id /\ y.account_id = x.account_id
    <2>1. PICK y : y = RestingAs(q0[s][p][j], s, p)
      OBVIOUS
    <2>2. y \in OrdersIn(q0)
      BY <2>1, OrdersInIs
    <2>3. y.order_id = q0[s][p][j].order_id /\ y.account_id = q0[s][p][j].account_id
      BY <2>1 DEF RestingAs
    <2> QED
      BY <1>3, <1>4, <2>2, <2>3
  <1>5. StemsFrom(q, q0) =>
          \E j \in DOMAIN q0[s][p] : /\ q[s][p][k].order_id = q0[s][p][j].order_id
                                     /\ q[s][p][k].account_id = q0[s][p][j].account_id
    BY DEF StemsFrom
  <1>6. \A o : StemsFromOr(q, q0, o) =>
          \/ \E j \in DOMAIN q0[s][p] : /\ q[s][p][k].order_id = q0[s][p][j].order_id
                                        /\ q[s][p][k].account_id = q0[s][p][j].account_id
          \/ q[s][p][k].order_id = o.order_id /\ q[s][p][k].account_id = o.account_id
    BY DEF StemsFromOr
  <1> QED
    BY <1>3, <1>4, <1>5, <1>6

(* The orders of an account after a call had their id before, or are the command's. *)
LEMMA StemTickets ==
  ASSUME NEW m, GoodManager(m), NEW n, GoodManager(n), NEW a, NEW l \in Mine(n.books, a)
  PROVE  /\ ManagerKeeps(n, m) => \E k \in Mine(m.books, a) : SameId(l, k)
         /\ \A cmd : ManagerStems(n, m, cmd) =>
              \/ \E k \in Mine(m.books, a) : SameId(l, k)
              \/ l.order.order_id = cmd.order_id /\ cmd.account_id = a
  <1>1. GoodBooks(n.books)
    BY DEF GoodManager, GoodBooks
  <1>2. PICK s \in Symbols : \E x \in OrdersIn(n.books[s]) :
          l = Ticket(s, x) /\ x.account_id = a /\ x.order_id = l.order.order_id
    BY <1>1, MineIsLive
  <1>3. PICK x \in OrdersIn(n.books[s]) :
          l = Ticket(s, x) /\ x.account_id = a /\ x.order_id = l.order.order_id
    BY <1>2
  <1>4. ASSUME NEW y \in OrdersIn(m.books[s]), y.order_id = x.order_id,
               y.account_id = x.account_id
        PROVE  \E k \in Mine(m.books, a) : SameId(l, k)
    <2>1. PICK k : k = Ticket(s, y)
      OBVIOUS
    <2>2. k \in Mine(m.books, a)
      BY <1>3, <1>4, <2>1, MineIs
    <2>3. k.order = y
      BY <2>1, TicketParts
    <2> QED
      BY <1>3, <1>4, <2>2, <2>3 DEF SameId
  <1>5. GoodBook(n.books[s]) /\ GoodBook(m.books[s])
    BY DEF GoodManager
  <1>6. ManagerKeeps(n, m) =>
          \E y \in OrdersIn(m.books[s]) : y.order_id = x.order_id /\ y.account_id = x.account_id
    BY <1>5, StemOrder DEF ManagerKeeps
  <1>7. ASSUME NEW cmd, ManagerStems(n, m, cmd)
        PROVE  \/ \E y \in OrdersIn(m.books[s]) :
                    y.order_id = x.order_id /\ y.account_id = x.account_id
               \/ x.order_id = cmd.order_id /\ x.account_id = cmd.account_id
    BY <1>5, <1>7, StemOrder DEF ManagerStems
  <1> QED
    BY <1>3, <1>4, <1>6, <1>7

(* After a replacement rest the other orders and perhaps the new one. *)
LEMMA ReplaceLeaves ==
  ASSUME NEW q, GoodBook(q), NEW old \in LiveIds(q), NEW o \in Sent, o.price \in Band,
         NEW c, c = ReplaceCall(q, old, o)
  PROVE  LiveIds(c.queues) \subseteq (LiveIds(q) \ {old}) \cup {o.order_id}
  <1>1. PICK dropped, others : dropped = {old} /\ others = LiveIds(q) \ {old}
    OBVIOUS
  <1>2. o.price \in Band /\ old \in LiveIds(q) =>
          /\ c.reject = AddRefusal(others, o)
          /\ LiveIds(c.queues) \subseteq others \cup {o.order_id}
    BY <1>1, ReplaceCallDoes
  <1> QED
    BY <1>1, <1>2

(* A replacement's target rests in the end only if it is the new order. *)
LEMMA ReplaceLetsGo ==
  ASSUME NEW m, GoodManager(m), Indexed(m), NEW cmd, Executable(m, cmd), cmd.type = "Replace",
         PriceInBand(cmd.price), NEW n, n = Execute(m, cmd).manager, GoodManager(n)
  PROVE  /\ \E k \in RestingIn(m.books) : k.order.order_id = cmd.cancel_order_id
         /\ \A a : \A l \in Mine(n.books, a) :
              l.order.order_id = cmd.cancel_order_id => cmd.order_id = cmd.cancel_order_id
  <1>1. PICK old, s, q, o, call, dropped, others :
          /\ old = cmd.cancel_order_id /\ s = m.order_to_symbol[old] /\ q = m.books[s]
          /\ o = OrderFrom(cmd) /\ call = ReplaceCall(q, old, o)
          /\ dropped = {old} /\ others = LiveIds(q) \ {old}
    OBVIOUS
  <1>2. /\ cmd \in Command /\ cmd.order_id \in OrderIds /\ cmd.account_id \in Accounts
        /\ old \in OrderIds /\ s # kNoSymbol
    BY <1>1 DEF Executable, ContainsOrder
  <1>3. s \in Symbols /\ GoodBook(q) /\ old \in LiveIds(q)
    BY <1>1, <1>2 DEF GoodManager
  <1>4. o \in Sent /\ o.order_id = cmd.order_id /\ o.price = cmd.price
    BY <1>1, <1>2, OrderFromSent
  <1>5. LiveIds(call.queues) \subseteq others \cup {o.order_id}
    <2>1. o.price \in Band
      BY <1>4 DEF PriceInBand
    <2>2. call = ReplaceCall(q, old, o) /\ dropped = {old} /\ others = LiveIds(q) \ {old}
      BY <1>1
    <2>3. GoodBook(q) /\ old \in LiveIds(q) /\ o \in Sent
      BY <1>3, <1>4
    <2>4. LiveIds(call.queues) \subseteq (LiveIds(q) \ {old}) \cup {o.order_id}
      BY <2>1, <2>2, <2>3, ReplaceLeaves
    <2> QED
      BY <2>2, <2>4
  <1>6. n.books = BooksAfter(m, s, call)
    <2>1. PICK id0 : id0 = cmd.order_id
      OBVIOUS
    <2>2. n = Booked(m, s, call, dropped, id0).manager
      BY <1>1, <1>2, <2>1 DEF Execute, ReplaceOrder
    <2> QED
      BY <2>2, BookedManager
  <1>7. n.books[s] = call.queues /\ \A t \in Symbols \ {s} : n.books[t] = m.books[t]
    <2>1. m.books = [t \in Symbols |-> m.books[t]]
      BY DEF GoodManager
    <2> QED
      BY <1>3, <1>6, <2>1 DEF BooksAfter
  <1>8. ASSUME NEW a, NEW l \in Mine(n.books, a), l.order.order_id = old
        PROVE  cmd.order_id = old
    <2>1. GoodBooks(n.books)
      BY DEF GoodManager, GoodBooks
    <2>2. PICK t \in Symbols : \E x \in OrdersIn(n.books[t]) :
            x.order_id = l.order.order_id /\ x.order_id \in LiveIds(n.books[t])
      BY <2>1, MineIsLive
    <2>3. old \in LiveIds(n.books[t])
      BY <1>8, <2>2
    <2>4. t = s
      <3> SUFFICES ASSUME t # s PROVE FALSE
        OBVIOUS
      <3>1. old \in LiveIds(m.books[t])
        BY <1>7, <2>3
      <3> QED
        BY <1>1, <3>1 DEF Indexed
    <2>5. old \in others \cup {o.order_id}
      BY <1>5, <1>7, <2>3, <2>4
    <2> QED
      BY <1>1, <1>4, <2>5
  <1>9. \E k \in RestingIn(m.books) : k.order.order_id = old
    <2>1. PICK x, k, a : x = OrderOf(q, old) /\ k = Ticket(s, x) /\ a = x.account_id
      OBVIOUS
    <2>2. x \in OrdersIn(q) /\ x.order_id = old
      BY <1>3, <2>1, OrderIs
    <2>4. s \in Symbols /\ x \in OrdersIn(m.books[s])
      BY <1>1, <1>3, <2>2
    <2>5. k \in Mine(m.books, a)
      BY <2>1, <2>4, MineIs
    <2>3. k \in Mine(m.books, a) /\ k.order = x
      BY <2>1, <2>5, TicketParts
    <2> QED
      BY <2>2, <2>3 DEF Mine
  <1> QED
    BY <1>1, <1>8, <1>9

(* Which account a command gives one order more, and when. *)
LEMMA ExecutesCaps ==
  ASSUME NEW m, GoodManager(m), Indexed(m), NEW cmd, Tidy(m, cmd), NEW ac, CountsAgree(m.books, ac),
         NEW n, NEW ac2, Executes(cmd, m, ac, n, ac2), NEW a \in Accounts,
         NEW M, M = Mine(m.books, a), NEW M1, M1 = Mine(n.books, a)
  PROVE  /\ IsFiniteSet(M1) /\ Cardinality(M1) <= Cardinality(M) + 1
         /\ Cardinality(M) < Cardinality(M1) =>
              \/ cmd.type = "New" /\ ac[a].open_orders < max_open_orders_per_account
              \/ /\ cmd.type = "Replace"
                 /\ \E l \in RestingIn(m.books) : /\ l.order.order_id = cmd.cancel_order_id
                                                  /\ l.order.account_id # a
  <1>1. PICK c : /\ Executable(m, cmd) /\ c = Execute(m, cmd) /\ n = c.manager
                 /\ cmd.type = "New" =>
                      ac[cmd.account_id].open_orders < max_open_orders_per_account
    BY DEF Executes
  <1>2. ManagerDoes(c, m, cmd) /\ Indexed(n)
    BY <1>1, ExecuteDoes
  <1>3. /\ GoodManager(n) /\ ManagerStems(n, m, cmd)
        /\ cmd.type = "Cancel" => ManagerKeeps(n, m)
    BY <1>1, <1>2 DEF ManagerDoes
  <1>4. IsFiniteSet(M) /\ Cardinality(M) \in Nat
    BY FS_CardinalityType DEF CountsAgree, Counts
  <1>5. PICK id, A : id = cmd.order_id /\ A = {l \in M1 : l.order.order_id # id}
    OBVIOUS
  <1>6. \A l \in A : \E k \in M : SameId(l, k)
    BY <1>3, <1>5, StemTickets
  <1>7. A \in SUBSET Mine(n.books, a)
    BY <1>5
  <1>8. IsFiniteSet(A) /\ Cardinality(A) <= Cardinality(M)
    BY <1>2, <1>3, <1>4, <1>6, <1>7, NoMoreById
  <1>9. IsFiniteSet(M1) /\ Cardinality(M1) <= Cardinality(A) + 1
    <2>1. A \in SUBSET M1 /\ \A l \in M1 : l \in A <=> l.order.order_id # id
      BY <1>5
    <2> QED
      BY <1>2, <1>3, <1>8, <2>1, OneMoreById
  <1>10. Cardinality(M1) \in Nat /\ Cardinality(A) \in Nat
    BY <1>8, <1>9, FS_CardinalityType
  <1>11. ASSUME \A l \in M1 : \E k \in M : SameId(l, k)
         PROVE  ~ (Cardinality(M) < Cardinality(M1))
    <2>1. M1 \in SUBSET Mine(n.books, a)
      OBVIOUS
    <2>2. Cardinality(M1) <= Cardinality(M)
      BY <1>2, <1>3, <1>4, <1>11, <2>1, NoMoreById
    <2> QED
      BY <1>4, <1>10, <2>2
  <1>12. CASE cmd.type = "New"
    <2>1. CASE cmd.account_id = a
      BY <1>1, <1>4, <1>8, <1>9, <1>10, <1>12, <2>1
    <2>2. CASE cmd.account_id # a
      <3>1. \A l \in M1 : \E k \in M : SameId(l, k)
        BY <1>3, <2>2, StemTickets
      <3> QED
        BY <1>4, <1>8, <1>9, <1>10, <1>11, <3>1
    <2> QED
      BY <2>1, <2>2
  <1>13. CASE cmd.type = "Cancel"
    <2>1. \A l \in M1 : \E k \in M : SameId(l, k)
      BY <1>3, <1>13, StemTickets
    <2> QED
      BY <1>4, <1>8, <1>9, <1>10, <1>11, <2>1
  <1>14. CASE cmd.type = "Replace"
    <2>1. PICK old : old = cmd.cancel_order_id
      OBVIOUS
    <2>2. PriceInBand(cmd.price)
      BY <1>14 DEF Tidy
    <2>3. /\ \E k \in RestingIn(m.books) : k.order.order_id = old
          /\ \A l \in M1 : l.order.order_id = old => id = old
      BY <1>1, <1>3, <1>5, <1>14, <2>1, <2>2, ReplaceLetsGo
    <2>4. PICK k0 \in RestingIn(m.books) : k0.order.order_id = old
      BY <2>3
    <2>5. CASE k0.order.account_id # a
      BY <1>4, <1>8, <1>9, <1>10, <1>14, <2>1, <2>4, <2>5
    <2>6. CASE k0.order.account_id = a
      <3>1. k0 \in M
        BY <2>4, <2>6 DEF Mine
      <3>2. PICK B : B = M \ {k0}
        OBVIOUS
      <3>3. IsFiniteSet(B) /\ Cardinality(B) = Cardinality(M) - 1
        BY <1>4, <3>1, <3>2, FS_RemoveElement
      <3>4. \A l \in A : \E k \in B : SameId(l, k)
        <4> TAKE l \in A
        <4>1. PICK k \in M : SameId(l, k)
          BY <1>6
        <4>2. k # k0
          <5> SUFFICES ASSUME k = k0 PROVE FALSE
            OBVIOUS
          <5>1. l.order.order_id = old
            BY <2>4, <4>1 DEF SameId
          <5> QED
            BY <1>5, <2>3, <5>1
        <4> QED
          BY <3>2, <4>1, <4>2
      <3>5. Cardinality(A) <= Cardinality(B)
        BY <1>2, <1>3, <1>7, <3>3, <3>4, NoMoreById
      <3>6. ~ (Cardinality(M) < Cardinality(M1))
        BY <1>4, <1>9, <1>10, <3>3, <3>5
      <3> QED
        BY <1>4, <1>8, <1>9, <1>10, <3>6
    <2> QED
      BY <2>5, <2>6
  <1>15. cmd.type \in {"New", "Cancel", "Replace"}
    BY <1>1 DEF Executable, Command
  <1> QED
    BY <1>12, <1>13, <1>14, <1>15

(* What a step does to the number of the orders of an account. *)
LEMMA NextCaps ==
  ASSUME Disciplined, CountInv, Next, NEW a \in Accounts,
         NEW M, M = Mine(exchange.manager.books, a),
         NEW M1, M1 = Mine(exchange'.manager.books, a)
  PROVE  /\ Cardinality(M1) <= Cardinality(M) + 1
         /\ Cardinality(M) < Cardinality(M1) =>
              \/ /\ last'.cmd.type = "New"
                 /\ exchange.accounts[a].open_orders < max_open_orders_per_account
              \/ /\ last'.cmd.type = "Replace"
                 /\ \E l \in LiveOrders : /\ l.order.order_id = last'.cmd.cancel_order_id
                                          /\ l.order.account_id # a
  <1>1. PICK m, n, ac, ac2 : /\ m = exchange.manager /\ n = exchange'.manager
                             /\ ac = exchange.accounts /\ ac2 = exchange'.accounts
    OBVIOUS
  <1>2. /\ GoodExchange(exchange) /\ exchange.next_seq \in Nat /\ Indexed(m)
        /\ GoodManager(m) /\ CountsAgree(m.books, ac)
    BY <1>1 DEF CountInv, TidyInv, ExchangeInv, GoodExchange
  <1>3. Cardinality(M) \in Nat
    BY <1>1, <1>2, FS_CardinalityType DEF CountsAgree, Counts
  <1>4. LiveOrders = RestingIn(m.books)
    BY <1>1 DEF LiveOrders, RestingIn, books
  <1> DEFINE Goal ==
        /\ Cardinality(M1) <= Cardinality(M) + 1
        /\ Cardinality(M) < Cardinality(M1) =>
             \/ /\ last'.cmd.type = "New"
                /\ exchange.accounts[a].open_orders < max_open_orders_per_account
             \/ /\ last'.cmd.type = "Replace"
                /\ \E l \in LiveOrders : /\ l.order.order_id = last'.cmd.cancel_order_id
                                         /\ l.order.account_id # a
  <1>5. ASSUME n = m PROVE Goal
    <2>1. M1 = M
      BY <1>1, <1>5
    <2> QED
      BY <1>3, <2>1
  <1>6. ASSUME NEW cmd, NEW sc, NEW r, Sequences(cmd, sc, r) PROVE Goal
    <2>1. /\ Tidy(m, cmd) /\ last'.cmd = cmd
          /\ \/ n = m
             \/ Executes(cmd, m, ac, n, ac2)
      BY <1>1, <1>2, <1>6, SequencesTracks
    <2>2. CASE n = m
      BY <1>5, <2>2
    <2>3. CASE Executes(cmd, m, ac, n, ac2)
      <3>1. /\ Cardinality(M1) <= Cardinality(M) + 1
            /\ Cardinality(M) < Cardinality(M1) =>
                 \/ cmd.type = "New" /\ ac[a].open_orders < max_open_orders_per_account
                 \/ /\ cmd.type = "Replace"
                    /\ \E l \in RestingIn(m.books) :
                         /\ l.order.order_id = cmd.cancel_order_id
                         /\ l.order.account_id # a
        BY <1>1, <1>2, <2>1, <2>3, ExecutesCaps
      <3> QED
        BY <1>1, <1>4, <2>1, <3>1
    <2> QED
      BY <2>1, <2>2, <2>3
  <1>7. ASSUME NEW cmd, NEW reason, NEW r, RefusesFrame(cmd, reason, r) PROVE Goal
    BY <1>1, <1>2, <1>5, <1>7, RefusesKeeps
  <1> QED
    BY <1>2, <1>6, <1>7, NextIs

(***************************************************************************)
(* For such clients an account that has reached its limit of open orders   *)
(* gets one more only by replacing an order of another account: the risk   *)
(* engine caps new orders alone (RiskEngine::check, OpenOrdersCapped), and *)
(* a replacement of one's own order, which leaves its limit unchecked,     *)
(* never adds one.                                                         *)
(***************************************************************************)
THEOREM OpenOrdersStayCapped == ASSUME Disciplined PROVE Spec => OpenOrdersCapped
  <1>1. ASSUME CountInv, CountInv', Next, NEW a \in Accounts,
               exchange.accounts[a].open_orders >= max_open_orders_per_account,
               exchange'.accounts[a].open_orders > exchange.accounts[a].open_orders
        PROVE  /\ last'.cmd.type = "Replace"
               /\ \E l \in LiveOrders : /\ l.order.order_id = last'.cmd.cancel_order_id
                                        /\ l.order.account_id # a
    <2>1. PICK M, M1 : /\ M = Mine(exchange.manager.books, a)
                       /\ M1 = Mine(exchange'.manager.books, a)
      OBVIOUS
    <2>2. /\ exchange.accounts[a].open_orders = Cardinality(M) /\ Cardinality(M) \in Nat
          /\ exchange'.accounts[a].open_orders = Cardinality(M1) /\ Cardinality(M1) \in Nat
      BY <1>1, <2>1, FS_CardinalityType DEF CountInv, CountsAgree, Counts
    <2>3. Cardinality(M) < Cardinality(M1)
      BY <1>1, <2>2
    <2>4. ~ (exchange.accounts[a].open_orders < max_open_orders_per_account)
      BY <1>1, <2>2, LimitAssumption
    <2> QED
      BY <1>1, <2>1, <2>3, <2>4, NextCaps
  <1>2. CountInv /\ CountInv' /\ [Next]_vars =>
          [\A a \in Accounts :
             /\ exchange.accounts[a].open_orders >= max_open_orders_per_account
             /\ exchange'.accounts[a].open_orders > exchange.accounts[a].open_orders
             => /\ last'.cmd.type = "Replace"
                /\ \E l \in LiveOrders : /\ l.order.order_id = last'.cmd.cancel_order_id
                                         /\ l.order.account_id # a]_vars
    BY <1>1
  <1> QED
    BY <1>2, CountInvariance, PTL DEF Spec, OpenOrdersCapped

-----------------------------------------------------------------------------
(* What an account can have in the books after so many calls. *)

(* A sum of so many values, each at most most. *)
LEMMA TotalAtMost ==
  ASSUME NEW S, Priced(S), NEW most \in Nat, \A l \in S : Worth(l) <= most
  PROVE  Total(S) <= Cardinality(S) * most
  <1> DEFINE Bad == {U \in SUBSET S : ~ (Total(U) <= Cardinality(U) * most)}
  <1>1. Bad = {}
    <2> SUFFICES ASSUME Bad # {} PROVE FALSE
      OBVIOUS
    <2>1. PICK U \in Bad : \A W \in Bad : ~ (Cardinality(W) < Cardinality(U))
      <3>1. Bad \in SUBSET (SUBSET S)
        OBVIOUS
      <3> HIDE DEF Bad
      <3> QED
        BY <3>1, SmallestSet
    <2>2. U \in SUBSET S /\ Priced(U) /\ ~ (Total(U) <= Cardinality(U) * most)
      BY <2>1, PartOfPriced
    <2>3. CASE U = {}
      <3>1. Total(U) = 0 /\ Cardinality(U) = 0
        BY <2>2, <2>3, TotalOf, FS_EmptySet
      <3> QED
        BY <2>2, <3>1
    <2>4. CASE U # {}
      <3>1. PICK x : x \in U
        BY <2>4
      <3>2. PICK W : W = U \ {x}
        OBVIOUS
      <3>3. PICK n, k : n = Cardinality(U) /\ k = Cardinality(W)
        OBVIOUS
      <3>4. n \in Nat \ {0} /\ k = n - 1
        BY <2>2, <3>1, <3>2, <3>3, OneLess DEF Priced
      <3>5. W \in SUBSET S /\ Priced(W) /\ W \notin Bad
        <4>1. W \in SUBSET S /\ Priced(W)
          BY <2>2, <3>2, PartOfPriced
        <4>2. k < n
          BY <3>4
        <4> QED
          BY <2>1, <3>3, <4>1, <4>2
      <3>6. Total(W) <= k * most
        BY <3>3, <3>5
      <3>7. /\ Total(U) = Worth(x) + Total(W) /\ Total(W) \in Nat
            /\ Worth(x) \in Nat /\ Worth(x) <= most
        BY <2>2, <3>1, <3>2, <3>5, TotalOf DEF Priced
      <3>8. k * most + most = n * most /\ k * most \in Nat
        BY <3>4
      <3>9. PICK part, whole : part = k * most /\ whole = n * most
        OBVIOUS
      <3>10. Total(U) <= whole
        BY <3>6, <3>7, <3>8, <3>9
      <3> QED
        BY <2>2, <3>3, <3>9, <3>10
    <2> QED
      BY <2>3, <2>4
  <1> QED
    BY <1>1

(* No order of a book within the limits is worth more than the limit. *)
LEMMA WithinIsWorth ==
  ASSUME NEW bs, GoodBooks(bs), \A s \in Symbols : BookWithin(bs[s]), NEW a,
         NEW l \in Mine(bs, a)
  PROVE  Worth(l) <= max_order_notional
  <1>1. PICK s \in Symbols : \E x \in OrdersIn(bs[s]) : l = Ticket(s, x)
    BY MineIs
  <1>2. PICK x \in OrdersIn(bs[s]) : l = Ticket(s, x)
    BY <1>1
  <1>3. PICK q : q = bs[s]
    OBVIOUS
  <1>4. GoodBook(q) /\ BookWithin(q) /\ x \in OrdersIn(q)
    BY <1>2, <1>3 DEF GoodBooks
  <1>5. PICK t \in Sides, p \in Band :
          \E k \in DOMAIN q[t][p] : x = RestingAs(q[t][p][k], t, p)
    BY <1>4, OrdersInIs
  <1>6. PICK k \in DOMAIN q[t][p] : x = RestingAs(q[t][p][k], t, p)
    BY <1>5
  <1>7. x.price = p /\ x.qty = q[t][p][k].qty
    BY <1>6 DEF RestingAs
  <1>8. Value(p, q[t][p][k].qty) <= max_order_notional
    BY <1>4, <1>6 DEF BookWithin, LineWithin
  <1>9. Worth(l) = Value(x.price, x.qty)
    BY <1>2, <1>4, OrderWorth
  <1> QED
    BY <1>7, <1>8, <1>9

(* No account has more orders than there were calls, all of them within the limits. *)
SizeInv ==
  /\ CountInv /\ LimitInv
  /\ \A a \in Accounts : Cardinality(Mine(exchange.manager.books, a)) < exchange.next_seq

(* A notional holds what so many orders, each within the limit, are worth. *)
RunFits == MaxSeq * max_order_notional < NotionalModulus

LEMMA NextSeqGrows ==
  ASSUME ExchangeInv, Next
  PROVE  exchange'.next_seq = exchange.next_seq + 1
  <1>1. GoodExchange(exchange) /\ exchange.next_seq \in Nat
    BY DEF ExchangeInv, GoodExchange
  <1>2. \A cmd, sc, r : Sequences(cmd, sc, r) => exchange'.next_seq = exchange.next_seq + 1
    BY <1>1, SequencesKeeps
  <1>3. \A cmd, reason, r :
          RefusesFrame(cmd, reason, r) => exchange'.next_seq = exchange.next_seq + 1
    BY <1>1, RefusesKeeps
  <1> QED
    BY <1>1, <1>2, <1>3, NextIs

LEMMA SizeInvariance == ASSUME Disciplined, LadderDoesNotWrap PROVE Spec => []SizeInv
  <1>1. Init => SizeInv
    <2> SUFFICES ASSUME Init PROVE SizeInv
      OBVIOUS
    <2>1. CountInv /\ LimitInv
      BY InitValueInv, InitLimitInv DEF ValueInv
    <2>2. exchange.next_seq = 1
      BY NewExchangeIs, ExchangeParts DEF Init
    <2>3. \A a \in Accounts :
            Cardinality(Mine(exchange.manager.books, a)) = exchange.accounts[a].open_orders
      BY <2>1 DEF CountInv, CountsAgree, Counts
    <2>4. exchange.accounts = [a \in Accounts |-> NewAccount]
      BY NewExchangeIs, ExchangeParts DEF Init
    <2>5. \A a \in Accounts : exchange.accounts[a].open_orders = 0
      BY <2>4 DEF NewAccount
    <2> QED
      BY <2>1, <2>2, <2>3, <2>5 DEF SizeInv
  <1>2. SizeInv /\ [Next]_vars => SizeInv'
    <2> SUFFICES ASSUME SizeInv, [Next]_vars PROVE SizeInv'
      OBVIOUS
    <2>1. CountInv' /\ LimitInv'
      BY NextCounts, NextLimitInv DEF SizeInv
    <2>2. ASSUME NEW a \in Accounts
          PROVE  Cardinality(Mine(exchange'.manager.books, a)) < exchange'.next_seq
      <3>1. PICK M, M1, n : /\ M = Mine(exchange.manager.books, a)
                            /\ M1 = Mine(exchange'.manager.books, a)
                            /\ n = exchange.next_seq
        OBVIOUS
      <3>2. n \in Nat /\ Cardinality(M) < n
        BY <3>1 DEF SizeInv, CountInv, TidyInv, ExchangeInv, GoodExchange
      <3>3. IsFiniteSet(M) /\ IsFiniteSet(M1)
        BY <2>1, <3>1 DEF SizeInv, CountInv, CountsAgree, Counts
      <3>4. Cardinality(M) \in Nat /\ Cardinality(M1) \in Nat
        BY <3>3, FS_CardinalityType
      <3>5. CASE Next
        <4>1. exchange'.next_seq = n + 1
          BY <3>1, <3>5, NextSeqGrows DEF SizeInv, CountInv, TidyInv
        <4>2. Cardinality(M1) <= Cardinality(M) + 1
          BY <3>1, <3>5, NextCaps DEF SizeInv
        <4> QED
          BY <3>1, <3>2, <3>4, <4>1, <4>2
      <3>6. CASE UNCHANGED vars
        BY <3>1, <3>2, <3>6 DEF vars
      <3> QED
        BY <3>5, <3>6
    <2> QED
      BY <2>1, <2>2 DEF SizeInv
  <1> QED
    BY <1>1, <1>2, PTL DEF Spec

LEMMA SizeFits == ASSUME RunFits, SizeInv PROVE TotalsFit
  <1> SUFFICES ASSUME NEW a \in Accounts, NEW mine,
                      mine = {l \in LiveOrders : l.order.account_id = a}
               PROVE  MapThenSumSet(LAMBDA l : Value(l.order.price, l.order.qty), mine)
                        < NotionalModulus
    BY DEF TotalsFit
  <1>1. PICK bs : bs = exchange.manager.books
    OBVIOUS
  <1>2. mine = Mine(bs, a)
    BY <1>1, LiveOrdersAre
  <1>3. GoodBooks(bs) /\ \A s \in Symbols : BookWithin(bs[s])
    BY <1>1 DEF SizeInv, LimitInv, ExchangeInv, GoodExchange, GoodManager, GoodBooks
  <1>4. Priced(mine)
    <2>1. IsFiniteSet(mine)
      BY <1>1, <1>2 DEF SizeInv, CountInv, CountsAgree, Counts
    <2> QED
      BY <1>2, <1>3, <2>1, MinePriced
  <1>5. \A l \in mine : Worth(l) <= max_order_notional
    BY <1>2, <1>3, WithinIsWorth
  <1>6. PICK n, most, top : n = Cardinality(mine) /\ most = max_order_notional /\ top = MaxSeq
    OBVIOUS
  <1>7. most \in Nat /\ top \in Nat /\ NotionalModulus \in Nat
    BY <1>6, LimitAssumption, CallAssumption
  <1>8. n \in Nat /\ n <= top
    <2>1. n \in Nat
      BY <1>4, <1>6, FS_CardinalityType DEF Priced
    <2>2. n < exchange.next_seq
      BY <1>1, <1>2, <1>6 DEF SizeInv
    <2>3. exchange.next_seq \in Nat /\ exchange.next_seq <= top + 1
      BY <1>6 DEF SizeInv, LimitInv, ExchangeInv, GoodExchange
    <2> QED
      BY <1>7, <2>1, <2>2, <2>3
  <1>9. Total(mine) <= n * most /\ Total(mine) \in Nat
    BY <1>4, <1>5, <1>6, <1>7, TotalAtMost, TotalOf
  <1>10. n * most <= top * most /\ n * most \in Nat /\ top * most \in Nat
    BY <1>7, <1>8
  <1>11. top * most < NotionalModulus
    BY <1>6 DEF RunFits
  <1>12. Total(mine) < NotionalModulus
    <2>1. PICK x, y : x = n * most /\ y = top * most
      OBVIOUS
    <2> QED
      BY <1>7, <1>9, <1>10, <1>11, <2>1
  <1> QED
    BY <1>12, TotalIs

(***************************************************************************)
(* With the same clients, if no value of one order wraps and the calls are *)
(* no more than a notional of 64 bits holds orders of the largest value -  *)
(* 1.8 thousand million with the defaults -, the risk engine always holds  *)
(* against each account what it has in the books: no account can have more *)
(* orders than there were calls, though a replacement is not checked       *)
(* against the limit of open orders (RiskEngine::on_market_data,           *)
(* RiskTracksBooks).                                                       *)
(***************************************************************************)
THEOREM RiskCorrectInRuns ==
  ASSUME Disciplined, LadderDoesNotWrap, RunFits PROVE Spec => []RiskTracksBooks
  <1>1. SizeInv => TotalsFit
    BY SizeFits
  <1> QED
    BY <1>1, SizeInvariance, RiskCorrect, PTL
=============================================================================
