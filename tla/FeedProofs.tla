------------------------------ MODULE FeedProofs ------------------------------
(***************************************************************************)
(* The subscriber is never anywhere but in the past of the exchange:       *)
(* proved for a transport that loses, repeats and reorders, across a       *)
(* restart of the exchange, for every set of symbols, ids and commands.    *)
(* And the benchmark: its load generator knows what rests, and its         *)
(* verification passes.                                                    *)
(***************************************************************************)
EXTENDS BenchWorkload, ExchangeProofs

(* m with q for its book s, and with the index that belongs to it. *)
IndexWith(m, s, q) ==
  [id \in OrderIds |-> IF id \in LiveIds(q) THEN s
                       ELSE IF m.order_to_symbol[id] = s THEN kNoSymbol
                       ELSE m.order_to_symbol[id]]

ManagerWith(m, s, q) == ManagerOf([m.books EXCEPT ![s] = q], IndexWith(m, s, q))

(* What apply_event answers when it succeeds and leaves n. *)
Applied(n) == [ok |-> TRUE, manager |-> n]

(* g[k] is the manager after k of the frames, none of which fails. *)
ManagerPath(g, m, frames, n) ==
  /\ g[0] = m /\ g[Len(frames)] = n
  /\ \A k \in 1 .. Len(frames) : ApplyEvent(g[k - 1], frames[k].ev) = Applied(g[k])

(* The frames, one by one, make n of m. *)
Leads(m, frames, n) == \E g : ManagerPath(g, m, frames, n)

(* w with c for its book s, and index. *)
Rebooked(w, s, c, index) ==
  [books |-> [w.books EXCEPT ![s] = c], order_to_symbol |-> index]

(* index is that of w but for the entry of id, which tells whether it rests in c. *)
Reindexes(index, w, id, s, c) ==
  index = [w.order_to_symbol EXCEPT ![id] = IF id \in LiveIds(c) THEN s ELSE kNoSymbol]

(* c as the book s of m has the other ids q has, and id is in no other book. *)
OnlyAbout(id, m, s, q, c) ==
  /\ \A x \in OrderIds \ {id} : x \in LiveIds(c) <=> x \in LiveIds(q)
  /\ id \notin LiveIds(c) => m.order_to_symbol[id] \in {s, kNoSymbol}

-----------------------------------------------------------------------------
(* Managers. *)

(* A manager whose index is complete is known by its books. *)
LEMMA KnownByBooks ==
  ASSUME NEW m, GoodManager(m), Indexed(m), NEW n, GoodManager(n), Indexed(n),
         NEW s \in Symbols, \A t \in Symbols \ {s} : n.books[t] = m.books[t],
         NEW q, q = n.books[s]
  PROVE  ManagerWith(m, s, q) = n
  <1>1. /\ m.books = [t \in Symbols |-> m.books[t]] /\ n.books = [t \in Symbols |-> n.books[t]]
        /\ n = ManagerOf(n.books, n.order_to_symbol)
        /\ m.order_to_symbol \in [OrderIds -> Symbols \cup {kNoSymbol}]
        /\ n.order_to_symbol \in [OrderIds -> Symbols \cup {kNoSymbol}]
    BY DEF GoodManager, ManagerOf
  <1>2. n.books = [m.books EXCEPT ![s] = q]
    <2>1. PICK bs : bs = [m.books EXCEPT ![s] = q]
      OBVIOUS
    <2>2. bs = [t \in Symbols |-> IF t = s THEN q ELSE m.books[t]]
      BY <1>1, <2>1
    <2> QED
      BY <1>1, <2>1, <2>2
  <1>3. ASSUME NEW id \in OrderIds
        PROVE  n.order_to_symbol[id] = IndexWith(m, s, q)[id]
    <2>1. PICK x, y : x = m.order_to_symbol[id] /\ y = n.order_to_symbol[id]
      OBVIOUS
    <2>2. /\ x \in Symbols \cup {kNoSymbol} /\ y \in Symbols \cup {kNoSymbol}
          /\ x # kNoSymbol => id \in LiveIds(m.books[x])
          /\ y # kNoSymbol => id \in LiveIds(n.books[y])
      BY <1>1, <2>1 DEF GoodManager
    <2>3. \A t \in Symbols : /\ id \in LiveIds(m.books[t]) => x = t
                             /\ id \in LiveIds(n.books[t]) => y = t
      BY <2>1 DEF Indexed
    <2>4. y = IF id \in LiveIds(q) THEN s ELSE IF x = s THEN kNoSymbol ELSE x
      <3>1. CASE id \in LiveIds(q)
        BY <2>3, <3>1
      <3>2. CASE id \notin LiveIds(q) /\ x \in Symbols \ {s}
        BY <2>2, <2>3, <3>2, NoSymbolIsNone
      <3>3. CASE id \notin LiveIds(q) /\ x \notin Symbols \ {s}
        <4>1. y \notin Symbols
          BY <2>2, <2>3, <3>3, NoSymbolIsNone
        <4> QED
          BY <2>2, <3>3, <4>1
      <3> QED
        BY <3>1, <3>2, <3>3
    <2> QED
      BY <2>1, <2>4 DEF IndexWith
  <1>4. n.order_to_symbol = IndexWith(m, s, q)
    BY <1>1, <1>3 DEF IndexWith
  <1> QED
    BY <1>1, <1>2, <1>4 DEF ManagerWith

(* Changing a book and one entry of the index keeps them together if the *)
(* book changed for no other id.                                         *)
LEMMA WithAnother ==
  ASSUME NEW m, GoodManager(m), NEW s \in Symbols, NEW q, NEW c, NEW id \in OrderIds,
         OnlyAbout(id, m, s, q, c), NEW w, w = ManagerWith(m, s, q),
         NEW index, Reindexes(index, w, id, s, c)
  PROVE  w.books[s] = q /\ Rebooked(w, s, c, index) = ManagerWith(m, s, c)
  <1>1. PICK bs, old : bs = [m.books EXCEPT ![s] = q] /\ old = IndexWith(m, s, q)
    OBVIOUS
  <1>2. w = [books |-> bs, order_to_symbol |-> old]
    BY <1>1 DEF ManagerWith, ManagerOf
  <1>3. w.books = bs /\ w.order_to_symbol = old
    BY <1>2
  <1>4. m.books = [t \in Symbols |-> m.books[t]]
    BY DEF GoodManager
  <1>5. bs[s] = q /\ [bs EXCEPT ![s] = c] = [m.books EXCEPT ![s] = c]
    BY <1>1, <1>4
  <1>6. index = IndexWith(m, s, c)
    <2>0. PICK entry : /\ entry = IF id \in LiveIds(c) THEN s ELSE kNoSymbol
                       /\ index = [w.order_to_symbol EXCEPT ![id] = entry]
      BY DEF Reindexes
    <2>1. \A x \in OrderIds : index[x] = IndexWith(m, s, c)[x]
      <3> SUFFICES ASSUME NEW x \in OrderIds PROVE index[x] = IndexWith(m, s, c)[x]
        OBVIOUS
      <3>1. old = [y \in OrderIds |-> old[y]]
        BY <1>1 DEF IndexWith
      <3>2. CASE x = id
        <4>1. index[x] = entry
          BY <1>3, <2>0, <3>1, <3>2
        <4> QED
          BY <2>0, <3>2, <4>1 DEF IndexWith, OnlyAbout
      <3>3. CASE x # id
        <4>1. index[x] = old[x]
          BY <1>3, <2>0, <3>1, <3>3
        <4>2. x \in LiveIds(c) <=> x \in LiveIds(q)
          BY <3>3 DEF OnlyAbout
        <4> QED
          BY <1>1, <4>1, <4>2 DEF IndexWith
      <3> QED
        BY <3>2, <3>3
    <2>2. index = [x \in OrderIds |-> index[x]]
      BY <1>1, <1>3, <2>0 DEF IndexWith
    <2> QED
      BY <2>1, <2>2 DEF IndexWith
  <1> QED
    BY <1>3, <1>5, <1>6 DEF ManagerWith, ManagerOf, Rebooked

-----------------------------------------------------------------------------
(* One event. *)

(* The event ev of book s, stamped. *)
StampedAs(out, s, ev) ==
  /\ out.type = ev.type /\ out.symbol_id = s /\ out.order_id = ev.order_id
  /\ out.account_id = ev.account_id /\ out.side = ev.side /\ out.price = ev.price
  /\ out.qty = ev.qty

(* A subscriber with the book before an event has the book after it. *)
LEMMA EventApplied ==
  ASSUME NEW m, GoodManager(m), Indexed(m), NEW s \in Symbols,
         NEW q, GoodBook(q), NEW c, GoodBook(c), NEW ev \in BookEvents, BookStep(q, ev, c),
         ev.type # "Add" => ev.order_id \in LiveIds(m.books[s]),
         NEW out, StampedAs(out, s, ev), NEW w, w = ManagerWith(m, s, q)
  PROVE  ApplyEvent(w, out) = Applied(ManagerWith(m, s, c))
  <1>1. PICK id, qty : id = ev.order_id /\ qty = ev.qty
    OBVIOUS
  <1>2. id \in OrderIds /\ out.order_id = id /\ out.qty = qty /\ out.symbol_id = s
        /\ out.type = ev.type
    BY <1>1 DEF BookEvents, StampedAs
  <1>3. ev.type # "Add" => m.order_to_symbol[id] = s
    BY <1>1 DEF Indexed
  <1>4. PICK index : Reindexes(index, w, id, s, c)
    BY DEF Reindexes
  <1>5. ASSUME OnlyAbout(id, m, s, q, c)
        PROVE  w.books[s] = q /\ Rebooked(w, s, c, index) = ManagerWith(m, s, c)
    BY <1>2, <1>4, <1>5, WithAnother
  <1>6. ASSUME id \in LiveIds(q) PROVE w.order_to_symbol[id] = s /\ s # kNoSymbol
    BY <1>2, <1>6, NoSymbolIsNone DEF ManagerWith, ManagerOf, IndexWith
  <1>7. CASE ev.type = "Add"
    <2>1. MayJoin(ev) /\ id \notin LiveIds(q) /\ c = Joined(q, ev)
      BY <1>1, <1>7 DEF BookStep
    <2>2. LiveIds(c) = LiveIds(q) \cup {id}
      BY <1>1, <2>1, JoinedGood
    <2>3. w.books[s] = q /\ Rebooked(w, s, c, index) = ManagerWith(m, s, c)
      BY <1>5, <2>2 DEF OnlyAbout
    <2>4. c = Joined(q, out)
      BY <2>1 DEF Joined, StampedAs
    <2>5. PICK call : call = FeedAddCall(q, out)
      OBVIOUS
    <2>6. call.ok = TRUE /\ call.queues = c
      <3>1. out.order_id \notin LiveIds(q) /\ out.qty # 0 /\ PriceInBand(out.price)
        BY <1>2, <2>1 DEF MayJoin, PriceInBand, StampedAs
      <3> QED
        BY <2>4, <2>5, <3>1 DEF FeedAddCall
    <2>7. FeedAdd(w, out) = FeedBooked(w, s, call, id)
      BY <1>2, <2>3, <2>5 DEF FeedAdd
    <2>8. FeedBooked(w, s, call, id) = Applied(ManagerWith(m, s, c))
      BY <1>4, <2>3, <2>6 DEF FeedBooked, Applied, Rebooked, Reindexes
    <2> QED
      BY <1>2, <1>7, <2>7, <2>8 DEF ApplyEvent
  <1>8. CASE ev.type = "Execute"
    <2>1. id \in LiveIds(q) /\ qty \in Nat \ {0} /\ c = Reduced(q, id, qty)
      BY <1>1, <1>8 DEF BookStep
    <2>2. LiveIds(c) = LiveIds(q) \ {id} \/ LiveIds(c) = LiveIds(q)
      BY <2>1, ReducedGood
    <2>3. w.books[s] = q /\ Rebooked(w, s, c, index) = ManagerWith(m, s, c)
      BY <1>3, <1>5, <1>8, <2>2 DEF OnlyAbout
    <2>5. PICK call : call = FeedExecuteCall(q, id, qty)
      OBVIOUS
    <2>6. call.ok = TRUE /\ call.queues = c
      BY <2>1, <2>5 DEF FeedExecuteCall
    <2>7. FeedExecute(w, out) = FeedBooked(w, s, call, id)
      BY <1>2, <1>6, <2>1, <2>3, <2>5 DEF FeedExecute
    <2>8. FeedBooked(w, s, call, id) = Applied(ManagerWith(m, s, c))
      BY <1>4, <2>3, <2>6 DEF FeedBooked, Applied, Rebooked, Reindexes
    <2> QED
      BY <1>2, <1>8, <2>7, <2>8 DEF ApplyEvent
  <1>9. CASE ev.type = "Cancel"
    <2>1. id \in LiveIds(q) /\ c = Without(q, id)
      BY <1>1, <1>9 DEF BookStep
    <2>2. LiveIds(c) = LiveIds(q) \ {id}
      BY <2>1, WithoutGood
    <2>3. w.books[s] = q /\ Rebooked(w, s, c, index) = ManagerWith(m, s, c)
      BY <1>3, <1>5, <1>9, <2>2 DEF OnlyAbout
    <2>5. PICK call : call = CancelCall(q, id)
      OBVIOUS
    <2>6. call.queues = c /\ call.reject = "None"
      BY <2>1, <2>5, CancelCallDoes
    <2>7. CancelOrder(w, id) = CancelFrom(w, s, id, call)
      BY <1>6, <2>1, <2>3, <2>5 DEF CancelOrder
    <2>8. index = [w.order_to_symbol EXCEPT ![id] = kNoSymbol]
      BY <1>4, <2>2 DEF Reindexes
    <2>9. PICK n, md : n = ManagerWith(m, s, c) /\ md = Stamped(s, call.md)
      OBVIOUS
    <2>10. CancelFrom(w, s, id, call) = Outcome(n, md, "None")
      BY <2>3, <2>6, <2>8, <2>9 DEF CancelFrom, Rebooked
    <2>11. FeedCancelled(Outcome(n, md, "None")) = Applied(n)
      BY DEF FeedCancelled, Outcome, Applied
    <2> QED
      BY <1>2, <1>9, <2>7, <2>9, <2>10, <2>11 DEF ApplyEvent
  <1> QED
    BY <1>7, <1>8, <1>9 DEF BookStep

-----------------------------------------------------------------------------
(* The events of a call, and of several. *)

(* Events, numbered. *)
LEMMA NumberedParts ==
  ASSUME NEW S, NEW evs \in Seq(S), NEW first, NEW md, md = Numbered(evs, first)
  PROVE  Len(md) = Len(evs) /\ \A k \in 1 .. Len(evs) : md[k].ev = evs[k]
  <1>1. PICK most, T : most = Len(evs) /\ T = {md[k] : k \in 1 .. most}
    OBVIOUS
  <1>2. most \in Nat /\ DOMAIN evs = 1 .. most
    BY <1>1
  <1>3. md = [k \in 1 .. most |-> [seq |-> first + k - 1, ev |-> evs[k]]]
    BY <1>2 DEF Numbered
  <1>4. DOMAIN md = 1 .. most
    BY <1>3
  <1>5. md \in [1 .. most -> T]
    <2>1. md = [k \in 1 .. most |-> md[k]]
      BY <1>3
    <2>2. \A k \in 1 .. most : md[k] \in T
      BY <1>1
    <2> QED
      BY <2>1, <2>2
  <1>6. md \in Seq(T)
    BY <1>2, <1>5
  <1>7. Len(md) = most
    BY <1>2, <1>4, <1>6
  <1> QED
    BY <1>1, <1>3, <1>7

(* A subscriber with the manager before a call has the one after it once it *)
(* has taken the events.                                                    *)
LEMMA CallApplied ==
  ASSUME NEW m, GoodManager(m), Indexed(m), NEW n, GoodManager(n), Indexed(n),
         NEW md, NEW first, NumberedTells(md, first, m, n)
  PROVE  Leads(m, md, n)
  <1>1. PICK evs : md = Numbered(evs, first) /\ ManagerTells(evs, m, n)
    BY DEF NumberedTells
  <1>2. PICK most : most = Len(evs)
    OBVIOUS
  <1>3. most \in Nat /\ DOMAIN evs = 1 .. most
    BY <1>1, <1>2 DEF ManagerTells
  <1>4. Len(md) = most /\ \A k \in 1 .. most : md[k].ev = evs[k]
    <2>1. evs \in Seq(PublishedEvents)
      BY <1>1 DEF ManagerTells
    <2> QED
      BY <1>1, <1>2, <2>1, NumberedParts
  <1>5. CASE n = m /\ \A k \in DOMAIN evs : evs[k].type = "Reject"
    <2>1. PICK g : g = [k \in 0 .. most |-> m]
      OBVIOUS
    <2>2. \A k \in 0 .. most : g[k] = m
      BY <2>1
    <2>3. ASSUME NEW k \in 1 .. most PROVE ApplyEvent(g[k - 1], md[k].ev) = Applied(g[k])
      <3>1. md[k].ev.type = "Reject" /\ k \in 0 .. most /\ k - 1 \in 0 .. most
        BY <1>3, <1>4, <1>5
      <3>2. g[k] = m /\ g[k - 1] = m
        BY <2>2, <3>1
      <3> QED
        BY <3>1, <3>2 DEF ApplyEvent, Applied
    <2>4. g[0] = m /\ g[most] = n
      BY <1>3, <1>5, <2>2
    <2>5. ManagerPath(g, m, md, n)
      BY <1>4, <2>3, <2>4 DEF ManagerPath
    <2> QED
      BY <2>5 DEF Leads
  <1>6. CASE \E s \in Symbols : \E told : OneBookTells(s, told, evs, m, n)
    <2>0. PICK s \in Symbols : \E x : OneBookTells(s, x, evs, m, n)
      BY <1>6
    <2>1. PICK told : OneBookTells(s, told, evs, m, n)
      BY <2>0
    <2>2. /\ told \in Seq(BookEvents) /\ evs = Stamped(s, told)
          /\ Tells(told, m.books[s], n.books[s])
          /\ \A t \in Symbols \ {s} : n.books[t] = m.books[t]
          /\ \A k \in DOMAIN told : told[k].type # "Add" => told[k].order_id \in LiveIds(m.books[s])
      BY <2>1 DEF OneBookTells
    <2>3. /\ DOMAIN told = 1 .. most /\ Len(told) = most
          /\ \A k \in 1 .. most : told[k] \in BookEvents
      <3>1. DOMAIN evs = DOMAIN told
        BY <2>2 DEF Stamped
      <3> QED
        BY <1>3, <2>2, <3>1
    <2>4. \A k \in 1 .. most : StampedAs(evs[k], s, told[k])
      BY <2>2, <2>3 DEF Stamped, StampedAs
    <2>5. PICK b, c : b = m.books[s] /\ c = n.books[s]
      OBVIOUS
    <2>6. PICK h : BookPath(h, b, told, c)
      BY <2>2, <2>5 DEF Tells
    <2>7. /\ h[0] = b /\ h[most] = c /\ \A k \in 0 .. most : GoodBook(h[k])
          /\ \A k \in 1 .. most : BookStep(h[k - 1], told[k], h[k])
      BY <2>3, <2>6 DEF BookPath
    <2>8. PICK g : g = [k \in 0 .. most |-> ManagerWith(m, s, h[k])]
      OBVIOUS
    <2>9. \A k \in 0 .. most : g[k] = ManagerWith(m, s, h[k])
      BY <2>8
    <2>10. g[0] = m
      <3>1. ManagerWith(m, s, b) = m
        BY <2>5, KnownByBooks
      <3> QED
        BY <1>3, <2>7, <2>9, <3>1
    <2>11. g[most] = n
      <3>1. ManagerWith(m, s, c) = n
        BY <2>2, <2>5, KnownByBooks
      <3> QED
        BY <1>3, <2>7, <2>9, <3>1
    <2>12. ASSUME NEW k \in 1 .. most PROVE ApplyEvent(g[k - 1], md[k].ev) = Applied(g[k])
      <3>1. PICK x, y, ev, out, w : /\ x = h[k - 1] /\ y = h[k] /\ ev = told[k] /\ out = evs[k]
                                    /\ w = ManagerWith(m, s, x)
        OBVIOUS
      <3>2. k \in 0 .. most /\ k - 1 \in 0 .. most
        BY <1>3
      <3>3. /\ GoodBook(x) /\ GoodBook(y) /\ ev \in BookEvents /\ BookStep(x, ev, y)
            /\ StampedAs(out, s, ev)
            /\ ev.type # "Add" => ev.order_id \in LiveIds(m.books[s])
        BY <2>2, <2>3, <2>4, <2>7, <3>1, <3>2
      <3>4. ApplyEvent(w, out) = Applied(ManagerWith(m, s, y))
        BY <3>1, <3>3, EventApplied
      <3>5. g[k - 1] = w /\ g[k] = ManagerWith(m, s, y) /\ md[k].ev = out
        BY <1>4, <2>9, <3>1, <3>2
      <3> QED
        BY <3>4, <3>5
    <2>13. ManagerPath(g, m, md, n)
      BY <1>4, <2>10, <2>11, <2>12 DEF ManagerPath
    <2> QED
      BY <2>13 DEF Leads
  <1> QED
    BY <1>1, <1>5, <1>6 DEF ManagerTells

LEMMA NothingLeads == ASSUME NEW m PROVE Leads(m, <<>>, m)
  <1>1. PICK g, frames : g = [k \in 0 .. 0 |-> m] /\ frames = <<>>
    OBVIOUS
  <1>2. Len(frames) = 0 /\ g[0] = m /\ 1 .. 0 = {}
    BY <1>1
  <1>3. ManagerPath(g, m, frames, m)
    BY <1>2 DEF ManagerPath
  <1> QED
    BY <1>1, <1>3 DEF Leads

(* One after the other. *)
LEMMA BothLead ==
  ASSUME NEW S, NEW md1 \in Seq(S), NEW md2 \in Seq(S), NEW m, NEW b, NEW n,
         Leads(m, md1, b), Leads(b, md2, n), NEW md, md = md1 \o md2
  PROVE  Leads(m, md, n)
  <1>1. PICK g, h : ManagerPath(g, m, md1, b) /\ ManagerPath(h, b, md2, n)
    BY DEF Leads
  <1>2. PICK i, j : i = Len(md1) /\ j = Len(md2)
    OBVIOUS
  <1>3. /\ i \in Nat /\ j \in Nat /\ Len(md) = i + j
        /\ \A k \in 1 .. i + j : md[k] = IF k <= i THEN md1[k] ELSE md2[k - i]
    BY <1>2, ConcatProperties
  <1>4. PICK f : f = [k \in 0 .. i + j |-> IF k <= i THEN g[k] ELSE h[k - i]]
    OBVIOUS
  <1>5. /\ g[0] = m /\ g[i] = b
        /\ \A k \in 1 .. i : ApplyEvent(g[k - 1], md1[k].ev) = Applied(g[k])
    BY <1>1, <1>2 DEF ManagerPath
  <1>6. /\ h[0] = b /\ h[j] = n
        /\ \A k \in 1 .. j : ApplyEvent(h[k - 1], md2[k].ev) = Applied(h[k])
    BY <1>1, <1>2 DEF ManagerPath
  <1>7. \A k \in 0 .. i : f[k] = g[k]
    BY <1>3, <1>4
  <1>8. ASSUME NEW k \in 0 .. j PROVE f[i + k] = h[k]
    <2>1. CASE k = 0
      <3>1. i + k = i /\ i \in 0 .. i
        BY <1>3, <2>1
      <3> QED
        BY <1>5, <1>6, <1>7, <2>1, <3>1
    <2>2. CASE k # 0
      <3>1. i + k \in 0 .. i + j /\ ~ (i + k <= i) /\ (i + k) - i = k
        BY <1>3, <2>2
      <3> QED
        BY <1>4, <3>1
    <2> QED
      BY <2>1, <2>2
  <1>9. f[0] = m /\ f[i + j] = n
    <2>1. 0 \in 0 .. i /\ j \in 0 .. j
      BY <1>3
    <2> QED
      BY <1>5, <1>6, <1>7, <1>8, <2>1
  <1>10. ASSUME NEW k \in 1 .. i + j PROVE ApplyEvent(f[k - 1], md[k].ev) = Applied(f[k])
    <2>1. CASE k <= i
      <3>1. k \in 0 .. i /\ k - 1 \in 0 .. i /\ k \in 1 .. i /\ md[k] = md1[k]
        BY <1>3, <2>1
      <3>2. f[k] = g[k] /\ f[k - 1] = g[k - 1]
        BY <1>7, <3>1
      <3> QED
        BY <1>5, <3>1, <3>2
    <2>2. CASE ~ (k <= i)
      <3>1. PICK l : l = k - i
        OBVIOUS
      <3>2. /\ l \in 1 .. j /\ l \in 0 .. j /\ l - 1 \in 0 .. j
            /\ i + l = k /\ i + (l - 1) = k - 1
        BY <1>3, <2>2, <3>1
      <3>3. f[k] = h[l] /\ f[k - 1] = h[l - 1]
        BY <1>8, <3>2
      <3>4. md[k] = md2[l]
        BY <1>3, <2>2, <3>1
      <3> QED
        BY <1>6, <3>2, <3>3, <3>4
    <2> QED
      BY <2>1, <2>2
  <1>11. ManagerPath(f, m, md, n)
    BY <1>3, <1>9, <1>10 DEF ManagerPath
  <1> QED
    BY <1>11 DEF Leads

(* The first of the frames succeeds, and the others lead on. *)
LEMMA FirstLeads ==
  ASSUME NEW S, NEW md \in Seq(S), md # <<>>, NEW m, NEW n, Leads(m, md, n),
         NEW rest, rest = SubSeq(md, 2, Len(md))
  PROVE  \E b : ApplyEvent(m, md[1].ev) = Applied(b) /\ Leads(b, rest, n)
  <1>1. PICK g : ManagerPath(g, m, md, n)
    BY DEF Leads
  <1>2. PICK i, b : i = Len(md) /\ b = g[1]
    OBVIOUS
  <1>3. i \in Nat /\ i >= 1 /\ 1 \in 1 .. i
    BY <1>2
  <1>4. /\ g[0] = m /\ g[i] = n
        /\ \A k \in 1 .. i : ApplyEvent(g[k - 1], md[k].ev) = Applied(g[k])
    BY <1>1, <1>2 DEF ManagerPath
  <1>5. ApplyEvent(m, md[1].ev) = Applied(b)
    <2>1. ApplyEvent(g[1 - 1], md[1].ev) = Applied(g[1])
      BY <1>3, <1>4
    <2>2. 1 - 1 = 0
      OBVIOUS
    <2> QED
      BY <1>2, <1>4, <2>1, <2>2
  <1>6. Len(rest) = i - 1 /\ \A k \in 1 .. i - 1 : rest[k] = md[k + 1]
    <2>1. /\ Len(rest) = i - 2 + 1
          /\ \A k \in 1 .. i - 2 + 1 : rest[k] = md[2 + k - 1]
      BY <1>2, <1>3, SubSeqProperties
    <2>2. i - 2 + 1 = i - 1 /\ \A k \in 1 .. i - 1 : 2 + k - 1 = k + 1
      BY <1>3
    <2> QED
      BY <2>1, <2>2
  <1>7. PICK h : h = [k \in 0 .. i - 1 |-> g[k + 1]]
    OBVIOUS
  <1>8. \A k \in 0 .. i - 1 : h[k] = g[k + 1]
    BY <1>7
  <1>9. h[0] = b /\ h[i - 1] = n
    <2>1. 0 \in 0 .. i - 1 /\ i - 1 \in 0 .. i - 1 /\ 0 + 1 = 1 /\ (i - 1) + 1 = i
      BY <1>3
    <2> QED
      BY <1>2, <1>4, <1>8, <2>1
  <1>10. ASSUME NEW k \in 1 .. i - 1 PROVE ApplyEvent(h[k - 1], rest[k].ev) = Applied(h[k])
    <2>1. /\ k \in 0 .. i - 1 /\ k - 1 \in 0 .. i - 1 /\ (k - 1) + 1 = k
          /\ k + 1 \in 1 .. i /\ (k + 1) - 1 = k
      BY <1>3
    <2>2. h[k - 1] = g[k] /\ h[k] = g[k + 1] /\ rest[k] = md[k + 1]
      BY <1>6, <1>8, <2>1
    <2>3. ApplyEvent(g[(k + 1) - 1], md[k + 1].ev) = Applied(g[k + 1])
      BY <1>4, <2>1
    <2> QED
      BY <2>1, <2>2, <2>3
  <1>11. ManagerPath(h, b, rest, n)
    BY <1>6, <1>9, <1>10 DEF ManagerPath
  <1> QED
    BY <1>5, <1>11 DEF Leads

(* after is CaughtUp as a function of the number of frames taken. *)
CatchesUp(after, m, frames, n) ==
  after = [k \in 0 .. n |->
             IF k = 0 THEN m ELSE ApplyEvent(after[k - 1], frames[k].ev).manager]

(* Where the frames lead is where a subscriber that takes them gets. *)
LEMMA LeadsIsCaughtUp ==
  ASSUME NEW S, NEW frames \in Seq(S), NEW m, NEW n, Leads(m, frames, n)
  PROVE  CaughtUp(m, frames) = n
  <1>1. PICK g : ManagerPath(g, m, frames, n)
    BY DEF Leads
  <1>2. PICK most : most = Len(frames)
    OBVIOUS
  <1>3. /\ most \in Nat /\ g[0] = m /\ g[most] = n
        /\ \A k \in 1 .. most : ApplyEvent(g[k - 1], frames[k].ev) = Applied(g[k])
    BY <1>1, <1>2 DEF ManagerPath
  <1>4. \A k \in 1 .. most : ApplyEvent(g[k - 1], frames[k].ev).manager = g[k]
    <2>1. \A x : Applied(x).manager = x
      BY DEF Applied
    <2> QED
      BY <1>3, <2>1
  <1>5. \E after : CatchesUp(after, m, frames, most)
    <2>1. PICK h : h = [k \in 0 .. most |-> g[k]]
      OBVIOUS
    <2>2. \A k \in 0 .. most :
            g[k] = IF k = 0 THEN m ELSE ApplyEvent(h[k - 1], frames[k].ev).manager
      <3> TAKE k \in 0 .. most
      <3>1. CASE k = 0
        BY <1>3, <3>1
      <3>2. CASE k # 0
        <4>1. k \in 1 .. most /\ k - 1 \in 0 .. most
          BY <1>3, <3>2
        <4>2. h[k - 1] = g[k - 1]
          BY <2>1, <4>1
        <4> QED
          BY <1>4, <3>2, <4>1, <4>2
      <3> QED
        BY <3>1, <3>2
    <2>3. CatchesUp(h, m, frames, most)
      BY <2>1, <2>2 DEF CatchesUp
    <2> QED
      BY <2>3
  <1>6. PICK after : after = CHOOSE f : CatchesUp(f, m, frames, most)
    OBVIOUS
  <1>7. CatchesUp(after, m, frames, most)
    BY <1>5, <1>6
  <1>8. CaughtUp(m, frames) = after[most]
    BY <1>2, <1>6 DEF CaughtUp, CatchesUp
  <1>9. \A k \in 0 .. most :
          after[k] = IF k = 0 THEN m ELSE ApplyEvent(after[k - 1], frames[k].ev).manager
    <2>1. PICK f : f = [k \in 0 .. most |->
                          IF k = 0 THEN m ELSE ApplyEvent(after[k - 1], frames[k].ev).manager]
      OBVIOUS
    <2>2. after = f
      BY <1>7, <2>1 DEF CatchesUp
    <2> QED
      BY <2>1, <2>2
  <1> DEFINE Bad == {k \in 0 .. most : after[k] # g[k]}
  <1>10. Bad = {}
    <2> SUFFICES ASSUME Bad # {} PROVE FALSE
      OBVIOUS
    <2>1. PICK k \in Bad : \A j \in Bad : k <= j
      <3>1. Bad \in SUBSET Nat
        OBVIOUS
      <3> HIDE DEF Bad
      <3> QED
        BY <3>1, LeastNumber
    <2>2. k \in 0 .. most /\ after[k] # g[k]
      BY <2>1
    <2>3. k # 0
      BY <1>3, <1>9, <2>2
    <2>4. k - 1 \in 0 .. most /\ k - 1 \notin Bad /\ k \in 1 .. most
      BY <1>3, <2>1, <2>2, <2>3
    <2>5. after[k - 1] = g[k - 1]
      BY <2>4
    <2>6. after[k] = ApplyEvent(after[k - 1], frames[k].ev).manager
      BY <1>9, <2>2, <2>3
    <2> QED
      BY <1>4, <2>2, <2>4, <2>5, <2>6
  <1>11. after[most] = g[most]
    <2>1. most \in 0 .. most
      BY <1>3
    <2> QED
      BY <1>10, <2>1
  <1> QED
    BY <1>3, <1>8, <1>11

-----------------------------------------------------------------------------
(* The subscriber, the frames it is behind and the frames on their way. *)

Following ==
  /\ ~ subscriber.failed
  /\ subscriber.expected \in Nat \ {0}
  /\ MdFrom(behind, subscriber.expected)
  /\ subscriber.expected + Len(behind) = followed.next_md_seq
  /\ Leads(subscriber.manager, behind, followed.manager)
  /\ \A f \in wire : /\ f.seq \in Nat
                     /\ f.seq < subscriber.expected \/ \E k \in DOMAIN behind : f = behind[k]

(***************************************************************************)
(* A frame on its way is one the subscriber is behind, or has a number it  *)
(* has passed: that is what keeps a new run from being taken for the old.  *)
(***************************************************************************)
FeedInv ==
  /\ TidyInv
  /\ era \in {"first", "restarted", "overtaken"}
  /\ era = "first" => /\ followed.manager = exchange.manager
                      /\ followed.next_md_seq = exchange.next_md_seq
  /\ era = "restarted" => exchange.next_md_seq <= subscriber.expected
  /\ era # "overtaken" => Following

LEMMA FeedInitInv == FeedInit => FeedInv
  <1> SUFFICES ASSUME FeedInit PROVE FeedInv
    OBVIOUS
  <1>1. TidyInv /\ exchange = NewExchange
    BY InitExchangeInv DEF FeedInit, Init, TidyInv
  <1>2. /\ exchange.manager = EmptyManager /\ exchange.next_md_seq = 1
    BY <1>1, NewExchangeIs
  <1>3. followed.manager = EmptyManager /\ followed.next_md_seq = 1
    BY <1>1, <1>2 DEF FeedInit, Moment
  <1>4. /\ subscriber.manager = EmptyManager /\ subscriber.expected = 1
        /\ ~ subscriber.failed
    BY DEF FeedInit, NewSubscriber
  <1>5. behind = <<>> /\ wire = {} /\ era = "first"
    BY DEF FeedInit
  <1>6. behind \in Seq(Stamps) /\ DOMAIN behind = {} /\ Len(behind) = 0
    BY <1>5
  <1>7. Leads(subscriber.manager, behind, followed.manager)
    BY <1>3, <1>4, <1>5, NothingLeads
  <1>8. Following
    BY <1>3, <1>4, <1>5, <1>6, <1>7 DEF Following, MdFrom
  <1> QED
    BY <1>1, <1>2, <1>3, <1>5, <1>8 DEF FeedInv

(* md has the events of md1 and those of md2, numbered from first. *)
HasBoth(md, first, md1, md2) ==
  /\ MdFrom(md, first) /\ Len(md) = Len(md1) + Len(md2)
  /\ \A k \in DOMAIN md1 : k \in DOMAIN md /\ md[k] = md1[k]
  /\ \A k \in DOMAIN md2 : \E j \in DOMAIN md : md[j] = md2[k]

LEMMA MdFromBoth ==
  ASSUME NEW first \in Nat, NEW md1, MdFrom(md1, first),
         NEW next, next = first + Len(md1), NEW md2, MdFrom(md2, next), NEW md, md = md1 \o md2
  PROVE  HasBoth(md, first, md1, md2)
  <1>1. PICK i, j : i = Len(md1) /\ j = Len(md2)
    OBVIOUS
  <1>2. md1 \in Seq(Stamps) /\ md2 \in Seq(Stamps)
    BY DEF MdFrom
  <1>3. /\ md \in Seq(Stamps) /\ i \in Nat /\ j \in Nat /\ Len(md) = i + j
        /\ \A k \in 1 .. i + j : md[k] = IF k <= i THEN md1[k] ELSE md2[k - i]
    BY <1>1, <1>2, ConcatProperties
  <1>4. DOMAIN md = 1 .. i + j /\ DOMAIN md1 = 1 .. i /\ DOMAIN md2 = 1 .. j
    BY <1>1, <1>2, <1>3
  <1>5. /\ \A k \in 1 .. i : md1[k].seq = first + k - 1
        /\ \A k \in 1 .. j : md2[k].seq = first + i + k - 1
    BY <1>1, <1>4 DEF MdFrom
  <1>6. ASSUME NEW k \in 1 .. i + j PROVE md[k].seq = first + k - 1
    <2>1. CASE k <= i
      <3>1. k \in 1 .. i /\ md[k] = md1[k]
        BY <1>3, <2>1
      <3> QED
        BY <1>5, <3>1
    <2>2. CASE ~ (k <= i)
      <3>1. PICK l : l = k - i
        OBVIOUS
      <3>2. l \in 1 .. j /\ first + i + l - 1 = first + k - 1 /\ md[k] = md2[l]
        BY <1>3, <2>2, <3>1
      <3> QED
        BY <1>5, <3>2
    <2> QED
      BY <2>1, <2>2
  <1>7. \A k \in 1 .. i : k \in 1 .. i + j /\ md[k] = md1[k]
    BY <1>3
  <1>8. ASSUME NEW k \in 1 .. j PROVE \E l \in 1 .. i + j : md[l] = md2[k]
    <2>1. PICK l : l = i + k
      OBVIOUS
    <2>2. l \in 1 .. i + j /\ ~ (l <= i) /\ l - i = k
      BY <1>3, <2>1
    <2>3. md[l] = md2[l - i]
      BY <1>3, <2>2
    <2> QED
      BY <2>2, <2>3
  <1> QED
    BY <1>1, <1>3, <1>4, <1>6, <1>7, <1>8 DEF MdFrom, HasBoth

(* The events of a call are those the subscriber is then behind, or, after a *)
(* restart, have numbers it has passed.                                      *)
LEMMA PublishKeeps ==
  ASSUME Disciplined, FeedInv, era # "overtaken", Publish
  PROVE  FeedInv'
  <1>1. TidyInv /\ Following /\ Next /\ subscriber' = subscriber
    BY DEF FeedInv, Publish
  <1>2. TidyInv'
    BY <1>1, NextTidyInv
  <1>3. PICK md, x, y, m, n : /\ md = last'.md /\ x = exchange.next_md_seq
                              /\ y = exchange'.next_md_seq
                              /\ m = exchange.manager /\ n = exchange'.manager
    OBVIOUS
  <1>4. y = x + Len(md) /\ NumberedTells(md, x, m, n)
    BY <1>1, <1>3, NextTells
  <1>5. /\ x \in Nat \ {0} /\ GoodManager(m) /\ Indexed(m) /\ GoodManager(n) /\ Indexed(n)
        /\ MdFrom(md, y - Len(md))
    BY <1>1, <1>2, <1>3 DEF TidyInv, ExchangeInv, GoodExchange
  <1>6. md \in Seq(Stamps) /\ Len(md) \in Nat /\ DOMAIN md = 1 .. Len(md) /\ MdFrom(md, x)
    <2>1. md \in Seq(Stamps)
      BY <1>5 DEF MdFrom
    <2>2. Len(md) \in Nat /\ DOMAIN md = 1 .. Len(md)
      BY <2>1
    <2>3. y - Len(md) = x
      BY <1>4, <1>5, <2>2
    <2> QED
      BY <1>5, <2>1, <2>2, <2>3
  <1>7. wire' = wire \cup {md[k] : k \in DOMAIN md}
    BY <1>3 DEF Publish
  <1>8. /\ subscriber.expected \in Nat \ {0} /\ MdFrom(behind, subscriber.expected)
        /\ subscriber.expected + Len(behind) = followed.next_md_seq
        /\ Leads(subscriber.manager, behind, followed.manager)
        /\ \A f \in wire : /\ f.seq \in Nat
                           /\ \/ f.seq < subscriber.expected
                              \/ \E k \in DOMAIN behind : f = behind[k]
    BY <1>1 DEF Following
  <1>9. \A k \in DOMAIN md : md[k].seq \in Nat /\ md[k].seq = x + k - 1
    <2>1. \A k \in DOMAIN md : md[k] \in Stamps /\ md[k].seq = x + k - 1
      BY <1>6 DEF MdFrom
    <2> QED
      BY <2>1 DEF Stamps
  <1>10. CASE era = "first"
    <2>1. /\ followed' = Moment(exchange') /\ behind' = behind \o md /\ era' = "first"
      BY <1>3, <1>10 DEF Publish, Overtakes
    <2>2. followed'.manager = n /\ followed'.next_md_seq = y
      BY <1>3, <2>1 DEF Moment
    <2>3. followed.manager = m /\ followed.next_md_seq = x
      BY <1>3, <1>10 DEF FeedInv
    <2>4. PICK b, b1, at : b = behind /\ b1 = behind' /\ at = subscriber.expected
      OBVIOUS
    <2>5. /\ MdFrom(b1, at) /\ Len(b1) = Len(b) + Len(md)
          /\ \A k \in DOMAIN b : k \in DOMAIN b1 /\ b1[k] = b[k]
          /\ \A k \in DOMAIN md : \E j \in DOMAIN b1 : b1[j] = md[k]
      <3>1. at \in Nat /\ MdFrom(b, at) /\ x = at + Len(b) /\ MdFrom(md, x) /\ b1 = b \o md
        BY <1>6, <1>8, <2>1, <2>3, <2>4
      <3>2. HasBoth(b1, at, b, md)
        BY <3>1, MdFromBoth
      <3> QED
        BY <3>2 DEF HasBoth
    <2>6. at + Len(b1) = y
      <3>1. at \in Nat /\ Len(b) \in Nat /\ Len(md) \in Nat /\ at + Len(b) = x
        <4>1. b \in Seq(Stamps)
          BY <1>8, <2>4 DEF MdFrom
        <4> QED
          BY <1>6, <1>8, <2>3, <2>4, <4>1
      <3> QED
        BY <1>4, <2>5, <3>1
    <2>7. Leads(subscriber.manager, b1, n)
      <3>1. PICK s : s = subscriber.manager
        OBVIOUS
      <3>2. Leads(m, md, n)
        BY <1>4, <1>5, CallApplied
      <3>3. /\ Leads(s, b, m) /\ b \in Seq(Stamps) /\ md \in Seq(Stamps) /\ b1 = b \o md
        BY <1>6, <1>8, <2>1, <2>3, <2>4, <3>1 DEF MdFrom
      <3> QED
        BY <3>1, <3>2, <3>3, BothLead
    <2>8. ASSUME NEW f \in wire'
          PROVE  f.seq \in Nat /\ (f.seq < at \/ \E k \in DOMAIN b1 : f = b1[k])
      <3>1. CASE f \in wire
        BY <1>8, <2>4, <2>5, <3>1
      <3>2. CASE f \notin wire
        <4>1. PICK k \in DOMAIN md : f = md[k]
          BY <1>7, <3>2
        <4> QED
          BY <1>9, <2>5, <4>1
      <3> QED
        BY <3>1, <3>2
    <2>9. Following'
      BY <1>1, <1>8, <2>2, <2>4, <2>5, <2>6, <2>7, <2>8 DEF Following
    <2> QED
      BY <1>2, <1>3, <2>1, <2>2, <2>9 DEF FeedInv
  <1>11. CASE era = "restarted"
    <2>1. /\ followed' = followed /\ behind' = behind
          /\ era' = IF y > subscriber.expected THEN "overtaken" ELSE "restarted"
      BY <1>3, <1>11 DEF Publish, Overtakes
    <2>2. CASE y > subscriber.expected
      BY <1>2, <2>1, <2>2 DEF FeedInv
    <2>3. CASE ~ (y > subscriber.expected)
      <3>1. y \in Nat /\ y <= subscriber.expected
        BY <1>4, <1>5, <1>6, <1>8, <2>3
      <3>2. ASSUME NEW f \in wire'
            PROVE  /\ f.seq \in Nat
                   /\ f.seq < subscriber.expected \/ \E k \in DOMAIN behind : f = behind[k]
        <4>1. CASE f \in wire
          BY <1>8, <4>1
        <4>2. CASE f \notin wire
          <5>1. PICK k \in DOMAIN md : f = md[k]
            BY <1>7, <4>2
          <5>2. f.seq \in Nat /\ f.seq = x + k - 1 /\ k \in 1 .. Len(md)
            BY <1>6, <1>9, <5>1
          <5>3. f.seq < y
            BY <1>4, <1>5, <1>6, <5>2
          <5> QED
            BY <1>8, <3>1, <5>2, <5>3
        <4> QED
          BY <4>1, <4>2
      <3>3. Following'
        BY <1>1, <1>8, <2>1, <3>2 DEF Following
      <3>4. era' = "restarted"
        BY <2>1, <2>3
      <3> QED
        BY <1>1, <1>2, <1>3, <3>1, <3>3, <3>4 DEF FeedInv
    <2> QED
      BY <2>2, <2>3
  <1> QED
    BY <1>10, <1>11 DEF FeedInv

(* The old run stays as the subscriber follows it, and the new one is behind it. *)
LEMMA RestartKeeps ==
  ASSUME FeedInv, TidyInv', Restart
  PROVE  FeedInv'
  <1>1. /\ era = "first" /\ era' = "restarted" /\ exchange' = NewExchange
        /\ UNCHANGED <<wire, subscriber, followed, behind>>
    BY DEF Restart
  <1>2. exchange'.next_md_seq = 1
    BY <1>1, NewExchangeIs
  <1>3. Following
    BY <1>1 DEF FeedInv
  <1>4. Following'
    BY <1>1, <1>3 DEF Following
  <1>5. subscriber.expected \in Nat /\ 1 <= subscriber.expected
    BY <1>3 DEF Following
  <1> QED
    BY <1>1, <1>2, <1>4, <1>5 DEF FeedInv

(* rest has the events of md but for the one numbered first. *)
HasRest(rest, first, md) ==
  /\ MdFrom(rest, first + 1) /\ Len(rest) = Len(md) - 1
  /\ \A k \in DOMAIN md : md[k].seq = first \/ \E j \in DOMAIN rest : rest[j] = md[k]

LEMMA MdFromRest ==
  ASSUME NEW first \in Nat, NEW md, MdFrom(md, first), md # <<>>,
         NEW rest, rest = SubSeq(md, 2, Len(md))
  PROVE  HasRest(rest, first, md)
  <1>1. PICK n : n = Len(md)
    OBVIOUS
  <1>2. /\ md \in Seq(Stamps) /\ n \in Nat /\ n >= 1 /\ DOMAIN md = 1 .. n
        /\ \A k \in 1 .. n : md[k].seq = first + k - 1
    <2>1. md \in Seq(Stamps) /\ \A k \in DOMAIN md : md[k].seq = first + k - 1
      BY DEF MdFrom
    <2>2. n \in Nat /\ n >= 1 /\ DOMAIN md = 1 .. n
      BY <1>1, <2>1
    <2> QED
      BY <2>1, <2>2
  <1>3. rest \in Seq(Stamps) /\ Len(rest) = n - 1 /\ \A k \in 1 .. n - 1 : rest[k] = md[k + 1]
    <2>1. /\ rest \in Seq(Stamps) /\ Len(rest) = n - 2 + 1
          /\ \A k \in 1 .. n - 2 + 1 : rest[k] = md[2 + k - 1]
      BY <1>1, <1>2, SubSeqProperties
    <2>2. n - 2 + 1 = n - 1 /\ \A k \in 1 .. n - 1 : 2 + k - 1 = k + 1
      BY <1>2
    <2> QED
      BY <2>1, <2>2
  <1>4. DOMAIN rest = 1 .. n - 1
    BY <1>2, <1>3
  <1>5. ASSUME NEW k \in 1 .. n - 1 PROVE rest[k].seq = (first + 1) + k - 1
    <2>1. k + 1 \in 1 .. n /\ first + (k + 1) - 1 = (first + 1) + k - 1
      BY <1>2
    <2>2. md[k + 1].seq = first + (k + 1) - 1
      BY <1>2, <2>1
    <2> QED
      BY <1>3, <2>1, <2>2
  <1>6. md[1].seq = first
    <2>1. 1 \in 1 .. n /\ first + 1 - 1 = first
      BY <1>2
    <2> QED
      BY <1>2, <2>1
  <1>7. ASSUME NEW k \in 1 .. n, k # 1 PROVE \E j \in 1 .. n - 1 : rest[j] = md[k]
    <2>1. k - 1 \in 1 .. n - 1 /\ (k - 1) + 1 = k
      BY <1>2, <1>7
    <2>2. rest[k - 1] = md[(k - 1) + 1]
      BY <1>3, <2>1
    <2> QED
      BY <2>1, <2>2
  <1> QED
    BY <1>1, <1>2, <1>3, <1>4, <1>5, <1>6, <1>7 DEF MdFrom, HasRest

(* All of a sequence. *)
LEMMA WholeSubSeq ==
  ASSUME NEW S, NEW md \in Seq(S)
  PROVE  SubSeq(md, 1, Len(md)) = md
  OBVIOUS

(* A frame that arrives is the next the subscriber is behind, or changes nothing. *)
LEMMA ReceiveKeeps ==
  ASSUME FeedInv, era # "overtaken", NEW f \in wire, Receive(f), wire' \subseteq wire
  PROVE  FeedInv'
  <1>1. /\ TidyInv /\ Following
        /\ exchange' = exchange /\ last' = last /\ era' = era /\ followed' = followed
        /\ subscriber' = ApplyFrame(subscriber, f)
        /\ behind' = SubSeq(behind, subscriber'.expected - subscriber.expected + 1, Len(behind))
    BY DEF FeedInv, Receive, vars
  <1>2. TidyInv'
    BY <1>1 DEF TidyInv, ExchangeInv
  <1>3. PICK at, b, m, n : /\ at = subscriber.expected /\ b = behind
                           /\ m = subscriber.manager /\ n = followed.manager
    OBVIOUS
  <1>4. /\ at \in Nat \ {0} /\ MdFrom(b, at) /\ b \in Seq(Stamps) /\ Leads(m, b, n)
        /\ at + Len(b) = followed.next_md_seq /\ ~ subscriber.failed
        /\ \A g \in wire : g.seq \in Nat /\ (g.seq < at \/ \E k \in DOMAIN b : g = b[k])
    BY <1>1, <1>3 DEF Following, MdFrom
  <1>5. CASE f.seq # at
    <2>1. subscriber' = subscriber
      BY <1>1, <1>3, <1>5 DEF ApplyFrame
    <2>2. behind' = behind
      <3>1. at - at + 1 = 1
        BY <1>4
      <3>2. SubSeq(b, 1, Len(b)) = b
        BY <1>4, WholeSubSeq
      <3> QED
        BY <1>1, <1>3, <2>1, <3>1, <3>2
    <2>3. Following'
      BY <1>1, <2>1, <2>2 DEF Following
    <2> QED
      BY <1>1, <1>2, <2>1, <2>3 DEF FeedInv
  <1>6. CASE f.seq = at
    <2>1. PICK i \in DOMAIN b : f = b[i]
      BY <1>4, <1>6
    <2>2. b # <<>> /\ Len(b) \in Nat
      BY <1>4, <2>1
    <2>3. PICK rest : rest = SubSeq(b, 2, Len(b))
      OBVIOUS
    <2>4. /\ MdFrom(rest, at + 1) /\ Len(rest) = Len(b) - 1
          /\ \A k \in DOMAIN b : b[k].seq = at \/ \E j \in DOMAIN rest : rest[j] = b[k]
      <3>1. at \in Nat /\ MdFrom(b, at) /\ b # <<>> /\ rest = SubSeq(b, 2, Len(b))
        BY <1>4, <2>2, <2>3
      <3>2. HasRest(rest, at, b)
        BY <3>1, MdFromRest
      <3> QED
        BY <3>2 DEF HasRest
    <2>5. f = b[1]
      <3>1. b[i].seq = at + i - 1 /\ i \in 1 .. Len(b)
        BY <1>4, <2>1 DEF MdFrom
      <3>2. i = 1
        BY <1>4, <1>6, <2>1, <2>2, <3>1
      <3> QED
        BY <2>1, <3>2
    <2>6. PICK c : ApplyEvent(m, b[1].ev) = Applied(c) /\ Leads(c, rest, n)
      BY <1>4, <2>2, <2>3, FirstLeads
    <2>7. subscriber' = Counted(subscriber, at, Applied(c))
      BY <1>1, <1>3, <1>6, <2>5, <2>6 DEF ApplyFrame
    <2>8. /\ subscriber'.manager = c /\ subscriber'.expected = at + 1
          /\ ~ subscriber'.failed
      BY <1>4, <2>7 DEF Counted, Applied
    <2>9. behind' = rest
      <3>1. (at + 1) - at + 1 = 2
        BY <1>4
      <3> QED
        BY <1>1, <1>3, <2>3, <2>8, <3>1
    <2>10. (at + 1) + Len(rest) = followed.next_md_seq /\ at + 1 \in Nat \ {0}
      BY <1>4, <2>2, <2>4
    <2>11. ASSUME NEW g \in wire'
           PROVE  g.seq \in Nat /\ (g.seq < at + 1 \/ \E k \in DOMAIN rest : g = rest[k])
      <3>1. g.seq \in Nat /\ (g.seq < at \/ \E k \in DOMAIN b : g = b[k])
        BY <1>4
      <3>2. CASE g.seq < at
        BY <1>4, <3>1, <3>2
      <3>3. CASE \E k \in DOMAIN b : g = b[k]
        <4>1. g.seq = at \/ \E j \in DOMAIN rest : rest[j] = g
          BY <2>4, <3>3
        <4> QED
          BY <1>4, <3>1, <4>1
      <3> QED
        BY <3>1, <3>2, <3>3
    <2>12. Following'
      <3>1. /\ MdFrom(behind', subscriber'.expected)
            /\ Leads(subscriber'.manager, behind', followed'.manager)
        BY <1>1, <1>3, <2>4, <2>6, <2>8, <2>9
      <3>2. /\ subscriber'.expected + Len(behind') = followed'.next_md_seq
            /\ subscriber'.expected \in Nat \ {0}
        BY <1>1, <2>8, <2>9, <2>10
      <3> QED
        BY <2>8, <2>9, <2>11, <3>1, <3>2 DEF Following
    <2>13. era = "restarted" => exchange'.next_md_seq <= at + 1
      <3>1. exchange.next_md_seq \in Nat
        BY <1>1 DEF TidyInv, ExchangeInv, GoodExchange
      <3> QED
        BY <1>1, <1>3, <1>4, <3>1 DEF FeedInv
    <2> QED
      BY <1>1, <1>2, <2>8, <2>12, <2>13 DEF FeedInv
  <1> QED
    BY <1>5, <1>6

LEMMA LoseKeeps ==
  ASSUME FeedInv, era # "overtaken", Lose
  PROVE  FeedInv'
  <1>1. /\ TidyInv /\ Following /\ wire' \subseteq wire
        /\ UNCHANGED <<exchange, last, subscriber, era, followed, behind>>
    BY DEF FeedInv, Lose, vars
  <1>2. TidyInv'
    BY <1>1 DEF TidyInv, ExchangeInv
  <1>3. Following'
    BY <1>1 DEF Following
  <1> QED
    BY <1>1, <1>2, <1>3 DEF FeedInv

LEMMA FeedNextInv == ASSUME Disciplined PROVE FeedInv /\ [FeedNext]_feedVars => FeedInv'
  <1>1. Started' => TidyInv'
    <2>1. Started => TidyInv
      BY StartedInv DEF TidyInv
    <2> QED
      BY <2>1, PTL
  <1> SUFFICES ASSUME FeedInv, [FeedNext]_feedVars PROVE FeedInv'
    OBVIOUS
  <1>2. CASE FeedNext
    <2>1. era # "overtaken"
      BY <1>2 DEF FeedNext
    <2>2. CASE Publish
      BY <2>1, <2>2, PublishKeeps
    <2>3. CASE Restart
      <3>1. Started'
        BY <2>3 DEF Restart, Started
      <3> QED
        BY <1>1, <2>3, <3>1, RestartKeeps
    <2>4. CASE Deliver
      <3>1. PICK f \in wire : Receive(f) /\ wire' = wire \ {f}
        BY <2>4 DEF Deliver
      <3> QED
        BY <2>1, <3>1, ReceiveKeeps
    <2>5. CASE Duplicate
      <3>1. PICK f \in wire : Receive(f) /\ wire' = wire
        BY <2>5 DEF Duplicate
      <3> QED
        BY <2>1, <3>1, ReceiveKeeps
    <2>6. CASE Lose
      BY <2>1, <2>6, LoseKeeps
    <2> QED
      BY <1>2, <2>2, <2>3, <2>4, <2>5, <2>6 DEF FeedNext
  <1>3. CASE UNCHANGED feedVars
    <2>1. UNCHANGED <<exchange, last, wire, subscriber, era, followed, behind>>
      BY <1>3 DEF feedVars, vars
    <2>2. TidyInv'
      BY <2>1 DEF FeedInv, TidyInv, ExchangeInv
    <2>3. Following => Following'
      BY <2>1 DEF Following
    <2> QED
      BY <2>1, <2>2, <2>3 DEF FeedInv
  <1> QED
    BY <1>2, <1>3

LEMMA FeedInvariance == ASSUME Disciplined PROVE MdSpec => []FeedInv
  <1>1. FeedInit => FeedInv
    BY FeedInitInv
  <1>2. FeedInv /\ [FeedNext]_feedVars => FeedInv'
    BY FeedNextInv
  <1> QED
    BY <1>1, <1>2, PTL DEF MdSpec

(***************************************************************************)
(* If clients keep to Obeys, a subscriber never leaves the past of the     *)
(* exchange, whatever the transport loses, repeats or reorders: it has     *)
(* applied without an error a prefix of what the exchange published, and   *)
(* the events it has not taken lead to the books and the index of the      *)
(* exchange.  When the exchange restarts under it, the frames of the new   *)
(* run do not touch it until their numbers come to the one it expects      *)
(* (SubscriberBook::apply_frame, FeedDecoder::decode, SubscriberIsPrefix). *)
(***************************************************************************)
THEOREM FeedCorrect == ASSUME Disciplined PROVE MdSpec => []SubscriberIsPrefix
  <1>1. FeedInv => SubscriberIsPrefix
    <2> SUFFICES ASSUME FeedInv, era # "overtaken"
                 PROVE  /\ ~ subscriber.failed
                        /\ subscriber.expected + Len(behind) = followed.next_md_seq
                        /\ CaughtUp(subscriber.manager, behind) = followed.manager
      BY DEF SubscriberIsPrefix
    <2>1. /\ ~ subscriber.failed /\ behind \in Seq(Stamps)
          /\ subscriber.expected + Len(behind) = followed.next_md_seq
          /\ Leads(subscriber.manager, behind, followed.manager)
      BY DEF FeedInv, Following, MdFrom
    <2>2. CaughtUp(subscriber.manager, behind) = followed.manager
      BY <2>1, LeadsIsCaughtUp
    <2> QED
      BY <2>1, <2>2
  <1> QED
    BY <1>1, FeedInvariance, PTL

(***************************************************************************)
(* If clients keep to Obeys, a subscriber that has every event has the     *)
(* books of the exchange, every order in its place (SubscriberAgrees,      *)
(* tests/exsim_tests.cpp:79).  Of other clients this is false: see the run *)
(* feed_replace.                                                           *)
(***************************************************************************)
THEOREM SubscriberCorrect == ASSUME Disciplined PROVE MdSpec => []SubscriberAgrees
  <1>1. FeedInv => SubscriberAgrees
    <2> SUFFICES ASSUME FeedInv, era = "first", subscriber.expected = exchange.next_md_seq
                 PROVE  subscriber.manager.books = exchange.manager.books
      BY DEF SubscriberAgrees
    <2>1. /\ subscriber.expected \in Nat /\ behind \in Seq(Stamps)
          /\ subscriber.expected + Len(behind) = followed.next_md_seq
          /\ Leads(subscriber.manager, behind, followed.manager)
          /\ followed.manager = exchange.manager
          /\ followed.next_md_seq = exchange.next_md_seq
      BY DEF FeedInv, Following, MdFrom
    <2>2. Len(behind) = 0
      BY <2>1
    <2>3. PICK g : ManagerPath(g, subscriber.manager, behind, followed.manager)
      BY <2>1 DEF Leads
    <2>4. subscriber.manager = followed.manager
      BY <2>2, <2>3 DEF ManagerPath
    <2> QED
      BY <2>1, <2>4
  <1> QED
    BY <1>1, FeedInvariance, PTL

-----------------------------------------------------------------------------
(* The load generator: its list of live orders. *)

(* t lists the ids, each once and where it says. *)
Tracking(t, ids) ==
  /\ t = [ids |-> t.ids, pos |-> t.pos]
  /\ t.ids \in Seq(OrderIds) /\ ids \subseteq OrderIds
  /\ t.pos = [id \in ids |-> t.pos[id]]
  /\ \A id \in ids : t.pos[id] \in 1 .. Len(t.ids) /\ t.ids[t.pos[id]] = id
  /\ \A k \in 1 .. Len(t.ids) : t.ids[k] \in ids /\ t.pos[t.ids[k]] = k

LEMMA NothingTracked == Tracking([ids |-> <<>>, pos |-> <<>>], {})
  <1>1. PICK t, list, pos : list = <<>> /\ pos = <<>> /\ t = [ids |-> list, pos |-> pos]
    OBVIOUS
  <1>2. list \in Seq(OrderIds) /\ Len(list) = 0 /\ pos = [id \in {} |-> pos[id]]
    BY <1>1
  <1>3. t.ids = list /\ t.pos = pos
    BY <1>1
  <1>4. Tracking(t, {})
    BY <1>1, <1>2, <1>3 DEF Tracking
  <1> QED
    BY <1>1, <1>4

LEMMA TrackAddDoes ==
  ASSUME NEW ids, NEW t, Tracking(t, ids), NEW id \in OrderIds,
         NEW t1, t1 = TrackAdd(t, id), NEW more, more = ids \cup {id}
  PROVE  Tracking(t1, more)
  <1>1. PICK list, pos, n : list = t.ids /\ pos = t.pos /\ n = Len(list)
    OBVIOUS
  <1>2. /\ t = [ids |-> list, pos |-> pos] /\ list \in Seq(OrderIds) /\ ids \subseteq OrderIds
        /\ pos = [x \in ids |-> pos[x]] /\ n \in Nat
        /\ \A x \in ids : pos[x] \in 1 .. n /\ list[pos[x]] = x
        /\ \A k \in 1 .. n : list[k] \in ids /\ pos[list[k]] = k
    BY <1>1 DEF Tracking
  <1>3. DOMAIN t.pos = ids
    BY <1>1, <1>2
  <1>4. CASE id \in ids
    <2>1. t1 = t /\ more = ids
      BY <1>3, <1>4 DEF TrackAdd
    <2> QED
      BY <2>1
  <1>5. CASE id \notin ids
    <2>1. PICK list1, pos1 : /\ list1 = Append(list, id)
                             /\ pos1 = [x \in ids \cup {id} |-> IF x = id THEN n + 1 ELSE pos[x]]
      OBVIOUS
    <2>2. t1 = [ids |-> list1, pos |-> pos1]
      BY <1>1, <1>3, <1>5, <2>1 DEF TrackAdd
    <2>3. t1.ids = list1 /\ t1.pos = pos1
      BY <2>2
    <2>4. /\ list1 \in Seq(OrderIds) /\ Len(list1) = n + 1 /\ list1[n + 1] = id
          /\ \A k \in 1 .. n : list1[k] = list[k]
      BY <1>1, <1>2, <2>1
    <2>5. /\ pos1 = [x \in more |-> pos1[x]] /\ pos1[id] = n + 1
          /\ \A x \in ids : pos1[x] = pos[x]
      BY <1>5, <2>1
    <2>6. ASSUME NEW x \in more
          PROVE  pos1[x] \in 1 .. n + 1 /\ list1[pos1[x]] = x
      <3>1. CASE x = id
        BY <1>2, <2>4, <2>5, <3>1
      <3>2. CASE x \in ids
        <4>1. PICK k : k = pos[x]
          OBVIOUS
        <4>2. k \in 1 .. n /\ list[k] = x /\ pos1[x] = k
          BY <1>2, <2>5, <3>2, <4>1
        <4>3. k \in 1 .. n + 1 /\ list1[k] = x
          BY <1>2, <2>4, <4>2
        <4> QED
          BY <4>2, <4>3
      <3> QED
        BY <3>1, <3>2
    <2>7. ASSUME NEW k \in 1 .. n + 1
          PROVE  list1[k] \in more /\ pos1[list1[k]] = k
      <3>1. CASE k = n + 1
        BY <2>4, <2>5, <3>1
      <3>2. CASE k # n + 1
        <4>1. k \in 1 .. n
          BY <1>2, <3>2
        <4>2. PICK x : x = list[k]
          OBVIOUS
        <4>3. x \in ids /\ pos[x] = k /\ list1[k] = x /\ pos1[x] = pos[x]
          BY <1>2, <2>4, <2>5, <4>1, <4>2
        <4> QED
          BY <4>3
      <3> QED
        BY <3>1, <3>2
    <2>8. more \subseteq OrderIds
      BY <1>2
    <2> QED
      BY <2>2, <2>3, <2>4, <2>5, <2>6, <2>7, <2>8 DEF Tracking
  <1> QED
    BY <1>4, <1>5

(* The last id moves to the place of the one removed. *)
LEMMA TrackRemoveDoes ==
  ASSUME NEW ids, NEW t, Tracking(t, ids), NEW id,
         NEW t1, t1 = TrackRemove(t, id), NEW fewer, fewer = ids \ {id}
  PROVE  Tracking(t1, fewer)
  <1>1. PICK list, pos, n : list = t.ids /\ pos = t.pos /\ n = Len(list)
    OBVIOUS
  <1>2. /\ t = [ids |-> list, pos |-> pos] /\ list \in Seq(OrderIds) /\ ids \subseteq OrderIds
        /\ pos = [x \in ids |-> pos[x]] /\ n \in Nat
        /\ \A x \in ids : pos[x] \in 1 .. n /\ list[pos[x]] = x
        /\ \A k \in 1 .. n : list[k] \in ids /\ pos[list[k]] = k
    BY <1>1 DEF Tracking
  <1>3. DOMAIN t.pos = ids
    BY <1>1, <1>2
  <1>4. CASE id \notin ids
    <2>1. t1 = t /\ fewer = ids
      BY <1>3, <1>4 DEF TrackRemove
    <2> QED
      BY <2>1
  <1>5. CASE id \in ids
    <2>1. PICK p, final : p = pos[id] /\ final = list[n]
      OBVIOUS
    <2>2. /\ p \in 1 .. n /\ n \in 1 .. n /\ list[p] = id
          /\ final \in ids /\ pos[final] = n
      <3>1. p \in 1 .. n /\ list[p] = id
        BY <1>2, <1>5, <2>1
      <3>2. n \in 1 .. n
        BY <1>2, <3>1
      <3> QED
        BY <1>2, <2>1, <3>1, <3>2
    <2>3. PICK whole, list1, moved, pos1 :
            /\ whole = [list EXCEPT ![p] = final]
            /\ list1 = SubSeq(whole, 1, n - 1)
            /\ moved = [pos EXCEPT ![final] = p]
            /\ pos1 = [x \in ids \ {id} |-> moved[x]]
      OBVIOUS
    <2>4. t1 = [ids |-> list1, pos |-> pos1]
      BY <1>1, <1>3, <1>5, <2>1, <2>3 DEF TrackRemove
    <2>5. t1.ids = list1 /\ t1.pos = pos1
      BY <2>4
    <2>6. /\ whole \in Seq(OrderIds) /\ Len(whole) = n
          /\ \A k \in 1 .. n : whole[k] = IF k = p THEN final ELSE list[k]
      BY <1>1, <1>2, <2>2, <2>3
    <2>7. /\ list1 \in Seq(OrderIds) /\ Len(list1) = n - 1
          /\ \A k \in 1 .. n - 1 : list1[k] = IF k = p THEN final ELSE list[k]
      <3>1. /\ list1 \in Seq(OrderIds) /\ Len(list1) = n - 1
            /\ \A k \in 1 .. n - 1 : list1[k] = whole[k]
        BY <1>2, <2>2, <2>3, <2>6
      <3>2. \A k \in 1 .. n - 1 : k \in 1 .. n
        BY <1>2
      <3> QED
        BY <2>6, <3>1, <3>2
    <2>8. \A x \in ids : moved[x] = IF x = final THEN p ELSE pos[x]
      BY <1>2, <2>2, <2>3
    <2>9. /\ pos1 = [x \in fewer |-> pos1[x]]
          /\ \A x \in fewer : pos1[x] = IF x = final THEN p ELSE pos[x]
      BY <2>3, <2>8
    <2>10. ASSUME NEW x \in fewer
           PROVE  pos1[x] \in 1 .. n - 1 /\ list1[pos1[x]] = x
      <3>1. x \in ids /\ x # id
        OBVIOUS
      <3>2. CASE x = final
        <4>1. p # n
          BY <1>2, <2>1, <2>2, <3>1, <3>2
        <4>2. p \in 1 .. n - 1 /\ pos1[x] = p
          BY <1>2, <2>2, <2>9, <3>2, <4>1
        <4>3. list1[p] = final
          BY <2>7, <4>2
        <4> QED
          BY <3>2, <4>2, <4>3
      <3>3. CASE x # final
        <4>1. PICK k : k = pos[x]
          OBVIOUS
        <4>2. k \in 1 .. n /\ list[k] = x /\ pos1[x] = k
          BY <1>2, <2>9, <3>1, <3>3, <4>1
        <4>3. k # n /\ k # p
          BY <2>1, <2>2, <3>1, <3>3, <4>2
        <4>4. k \in 1 .. n - 1
          BY <1>2, <4>2, <4>3
        <4>5. list1[k] = list[k]
          BY <2>7, <4>3, <4>4
        <4> QED
          BY <4>2, <4>4, <4>5
      <3> QED
        BY <3>2, <3>3
    <2>11. ASSUME NEW k \in 1 .. n - 1
           PROVE  list1[k] \in fewer /\ pos1[list1[k]] = k
      <3>0. k \in 1 .. n /\ k # n
        BY <1>2
      <3>1. CASE k = p
        <4>1. final # id
          BY <2>1, <2>2, <3>0, <3>1
        <4>2. final \in fewer /\ list1[k] = final
          BY <2>2, <2>7, <3>1, <4>1
        <4> QED
          BY <2>9, <3>1, <4>2
      <3>2. CASE k # p
        <4>1. PICK x : x = list[k]
          OBVIOUS
        <4>2. x \in ids /\ pos[x] = k /\ list1[k] = x
          BY <1>2, <2>7, <3>0, <3>2, <4>1
        <4>3. x # id /\ x # final
          BY <2>1, <2>2, <3>0, <3>2, <4>2
        <4> QED
          BY <2>9, <4>2, <4>3
      <3> QED
        BY <3>1, <3>2
    <2>12. fewer \subseteq OrderIds
      BY <1>2
    <2>13. Len(t1.ids) = n - 1
      BY <2>5, <2>7
    <2> QED
      BY <2>4, <2>5, <2>7, <2>9, <2>10, <2>11, <2>12, <2>13 DEF Tracking
  <1> QED
    BY <1>4, <1>5

TrackStep(g, t, frames, m, k) == IF k = 0 THEN t ELSE Track(g[k - 1], frames[k].ev, m)

(* g is what is tracked as a function of the number of events looked at. *)
Tracks(g, t, frames, m, n) == g = [k \in 0 .. n |-> TrackStep(g, t, frames, m, k)]

LEMMA TracksExists ==
  ASSUME NEW t, NEW frames, NEW m, NEW most \in Nat
  PROVE  \E g : Tracks(g, t, frames, m, most)
  <1> DEFINE Bad == {n \in 0 .. most : ~ \E g : Tracks(g, t, frames, m, n)}
  <1>1. SUFFICES ASSUME Bad # {} PROVE FALSE
    OBVIOUS
  <1>2. PICK n \in Bad : \A j \in Bad : n <= j
    <2>1. Bad \in SUBSET Nat
      OBVIOUS
    <2> HIDE DEF Bad
    <2> QED
      BY <1>1, <2>1, LeastNumber
  <1>3. n # 0
    <2> SUFFICES ASSUME n = 0 PROVE FALSE
      OBVIOUS
    <2>1. PICK g : g = [k \in 0 .. n |-> t]
      OBVIOUS
    <2>2. Tracks(g, t, frames, m, n)
      BY <2>1 DEF Tracks, TrackStep
    <2> QED
      BY <2>2
  <1>4. n - 1 \in 0 .. most /\ n - 1 \notin Bad /\ n \in Nat
    BY <1>2, <1>3
  <1>5. PICK g : Tracks(g, t, frames, m, n - 1)
    BY <1>4
  <1>6. PICK h : h = [k \in 0 .. n |-> IF k = n THEN TrackStep(g, t, frames, m, n) ELSE g[k]]
    OBVIOUS
  <1>7. \A k \in 0 .. n - 1 : h[k] = g[k]
    BY <1>4, <1>6
  <1>8. \A k \in 0 .. n - 1 : g[k] = TrackStep(g, t, frames, m, k)
    BY <1>5 DEF Tracks
  <1>9. \A k \in 0 .. n : h[k] = TrackStep(h, t, frames, m, k)
    <2> TAKE k \in 0 .. n
    <2>1. CASE k = n
      <3>1. h[k] = TrackStep(g, t, frames, m, n)
        BY <1>6, <2>1
      <3>2. n - 1 \in 0 .. n - 1
        BY <1>3, <1>4
      <3>3. h[n - 1] = g[n - 1]
        BY <1>7, <3>2
      <3> QED
        BY <2>1, <3>1, <3>3 DEF TrackStep
    <2>2. CASE k # n
      <3>1. k \in 0 .. n - 1
        BY <1>4, <2>2
      <3>2. h[k] = TrackStep(g, t, frames, m, k)
        BY <1>7, <1>8, <3>1
      <3>3. k # 0 => h[k - 1] = g[k - 1]
        BY <1>4, <1>7, <3>1
      <3> QED
        BY <3>2, <3>3 DEF TrackStep
    <2> QED
      BY <2>1, <2>2
  <1>10. Tracks(h, t, frames, m, n)
    <2>1. h = [k \in 0 .. n |-> h[k]]
      BY <1>6
    <2> QED
      BY <1>9, <2>1, Zenon DEF Tracks
  <1> QED
    BY <1>10

(* Whoever tracks live[k - 1] tracks live[k] once it has looked at frame k. *)
StepsTrack(live, frames, m, n) ==
  \A k \in 1 .. n : \A t :
    Tracking(t, live[k - 1]) => Tracking(Track(t, frames[k].ev, m), live[k])

LEMMA TracksAlong ==
  ASSUME NEW t, NEW frames, NEW m, NEW most \in Nat, most = Len(frames), NEW live,
         Tracking(t, live[0]), StepsTrack(live, frames, m, most)
  PROVE  Tracking(TrackedAfter(t, frames, m), live[most])
  <1>1. PICK h : h = CHOOSE g : Tracks(g, t, frames, m, most)
    OBVIOUS
  <1>2. Tracks(h, t, frames, m, most)
    BY <1>1, TracksExists
  <1>3. TrackedAfter(t, frames, m) = h[most]
    BY <1>1 DEF TrackedAfter, Tracks, TrackStep
  <1>4. \A k \in 0 .. most : h[k] = TrackStep(h, t, frames, m, k)
    BY <1>2 DEF Tracks
  <1> DEFINE Bad == {k \in 0 .. most : ~ Tracking(h[k], live[k])}
  <1>5. Bad = {}
    <2> SUFFICES ASSUME Bad # {} PROVE FALSE
      OBVIOUS
    <2>1. PICK k \in Bad : \A j \in Bad : k <= j
      <3>1. Bad \in SUBSET Nat
        OBVIOUS
      <3> HIDE DEF Bad
      <3> QED
        BY <3>1, LeastNumber
    <2>2. k \in 0 .. most /\ ~ Tracking(h[k], live[k])
      BY <2>1
    <2>3. k # 0
      BY <1>4, <2>2 DEF TrackStep
    <2>4. k - 1 \in 0 .. most /\ k - 1 \notin Bad /\ k \in 1 .. most
      BY <2>1, <2>2, <2>3
    <2>5. Tracking(h[k - 1], live[k - 1])
      BY <2>4
    <2>6. h[k] = Track(h[k - 1], frames[k].ev, m)
      BY <1>4, <2>2, <2>3 DEF TrackStep
    <2>7. Tracking(h[k], live[k])
      BY <2>4, <2>5, <2>6 DEF StepsTrack
    <2> QED
      BY <2>2, <2>7
  <1>6. Tracking(h[most], live[most])
    <2>1. most \in 0 .. most
      OBVIOUS
    <2> QED
      BY <1>5, <2>1
  <1> QED
    BY <1>3, <1>6

(* The ids of the orders that rest in the books. *)
LiveIn(bs) == UNION {LiveIds(bs[s]) : s \in Symbols}

LEMMA LiveInIs ==
  ASSUME NEW m, GoodManager(m), Indexed(m)
  PROVE  LiveIn(m.books) = {id \in OrderIds : ContainsOrder(m, id)}
  <1>1. ASSUME NEW id, id \in LiveIn(m.books)
        PROVE  id \in OrderIds /\ ContainsOrder(m, id)
    <2>1. PICK s \in Symbols : id \in LiveIds(m.books[s])
      BY <1>1 DEF LiveIn
    <2>2. id \in OrderIds
      BY <2>1 DEF LiveIds
    <2>3. m.order_to_symbol[id] = s /\ s # kNoSymbol
      BY <2>1, NoSymbolIsNone DEF Indexed
    <2> QED
      BY <2>2, <2>3 DEF ContainsOrder
  <1>2. ASSUME NEW id \in OrderIds, ContainsOrder(m, id)
        PROVE  id \in LiveIn(m.books)
    <2>1. PICK s : s = m.order_to_symbol[id]
      OBVIOUS
    <2>2. s \in Symbols /\ id \in LiveIds(m.books[s])
      BY <1>2, <2>1 DEF ContainsOrder, GoodManager
    <2> QED
      BY <2>2 DEF LiveIn
  <1> QED
    BY <1>1, <1>2

(* What an event that changes one book does to them. *)
LEMMA LiveInAfter ==
  ASSUME NEW bs, NEW bs1, NEW s \in Symbols, OnlyBook(s, bs, bs1), NEW id
  PROVE  /\ LiveIds(bs1[s]) = LiveIds(bs[s]) \cup {id} => LiveIn(bs1) = LiveIn(bs) \cup {id}
         /\ /\ LiveIds(bs1[s]) = LiveIds(bs[s]) \ {id}
            /\ \A t \in Symbols \ {s} : id \notin LiveIds(bs[t])
            => LiveIn(bs1) = LiveIn(bs) \ {id}
         /\ LiveIds(bs1[s]) = LiveIds(bs[s]) => LiveIn(bs1) = LiveIn(bs)
  <1>1. PICK before, after : before = LiveIds(bs[s]) /\ after = LiveIds(bs1[s])
    OBVIOUS
  <1>2. PICK rest : rest = UNION {LiveIds(bs[t]) : t \in Symbols \ {s}}
    OBVIOUS
  <1>3. LiveIn(bs) = before \cup rest
    BY <1>1, <1>2 DEF LiveIn
  <1>4. LiveIn(bs1) = after \cup rest
    BY <1>1, <1>2 DEF LiveIn, OnlyBook
  <1>5. (\A t \in Symbols \ {s} : id \notin LiveIds(bs[t])) => id \notin rest
    BY <1>2
  <1> QED
    BY <1>1, <1>3, <1>4, <1>5

(* pub is an event that made bs1 of bs, and no order of another book has its id. *)
Trackable(bs, bs1, s, ev, pub, n) ==
  /\ OnlyBook(s, bs, bs1) /\ GoodBook(bs[s]) /\ BookStep(bs[s], ev, bs1[s])
  /\ ev \in BookEvents /\ pub.type = ev.type /\ pub.order_id = ev.order_id
  /\ ev.type # "Add" => \A t \in Symbols \ {s} : ev.order_id \notin LiveIds(bs[t])
  /\ ev.type = "Execute" => (ContainsOrder(n, ev.order_id) <=> ev.order_id \in LiveIds(bs1[s]))

LEMMA EventTracked ==
  ASSUME NEW bs, NEW bs1, NEW s \in Symbols, NEW ev, NEW pub, NEW n,
         Trackable(bs, bs1, s, ev, pub, n), NEW t, Tracking(t, LiveIn(bs))
  PROVE  Tracking(Track(t, pub, n), LiveIn(bs1))
  <1>1. PICK id, q, c, t1 : /\ id = ev.order_id /\ q = bs[s] /\ c = bs1[s]
                            /\ t1 = Track(t, pub, n)
    OBVIOUS
  <1>2. /\ OnlyBook(s, bs, bs1) /\ GoodBook(q) /\ BookStep(q, ev, c)
        /\ id \in OrderIds /\ pub.type = ev.type /\ pub.order_id = id
        /\ ev.type # "Add" => \A x \in Symbols \ {s} : id \notin LiveIds(bs[x])
        /\ ev.type = "Execute" => (ContainsOrder(n, id) <=> id \in LiveIds(c))
    BY <1>1 DEF Trackable, BookEvents
  <1>3. CASE ev.type = "Add"
    <2>1. MayJoin(ev) /\ id \notin LiveIds(q) /\ c = Joined(q, ev)
      BY <1>1, <1>2, <1>3 DEF BookStep
    <2>2. LiveIds(c) = LiveIds(q) \cup {id}
      BY <1>1, <1>2, <2>1, JoinedGood
    <2>3. LiveIn(bs1) = LiveIn(bs) \cup {id}
      BY <1>1, <1>2, <2>2, LiveInAfter
    <2>4. t1 = TrackAdd(t, id)
      BY <1>1, <1>2, <1>3 DEF Track
    <2> QED
      BY <1>1, <1>2, <2>3, <2>4, TrackAddDoes
  <1>4. CASE ev.type = "Cancel"
    <2>1. id \in LiveIds(q) /\ c = Without(q, id)
      BY <1>1, <1>2, <1>4 DEF BookStep
    <2>2. LiveIds(c) = LiveIds(q) \ {id}
      BY <1>2, <2>1, WithoutGood
    <2>3. LiveIn(bs1) = LiveIn(bs) \ {id}
      <3>1. /\ OnlyBook(s, bs, bs1) /\ LiveIds(bs1[s]) = LiveIds(bs[s]) \ {id}
            /\ \A x \in Symbols \ {s} : id \notin LiveIds(bs[x])
        BY <1>1, <1>2, <1>4, <2>2
      <3> QED
        BY <3>1, LiveInAfter
    <2>4. t1 = TrackRemove(t, id)
      BY <1>1, <1>2, <1>4 DEF Track
    <2> QED
      BY <1>1, <2>3, <2>4, TrackRemoveDoes
  <1>5. CASE ev.type = "Execute"
    <2>1. id \in LiveIds(q) /\ ev.qty \in Nat \ {0} /\ c = Reduced(q, id, ev.qty)
      BY <1>1, <1>2, <1>5 DEF BookStep
    <2>2. LiveIds(c) = LiveIds(q) \ {id} \/ LiveIds(c) = LiveIds(q)
      BY <1>2, <2>1, ReducedGood
    <2>3. CASE id \in LiveIds(c)
      <3>1. LiveIds(c) = LiveIds(q)
        BY <2>2, <2>3
      <3>2. LiveIn(bs1) = LiveIn(bs)
        BY <1>1, <1>2, <3>1, LiveInAfter
      <3>3. t1 = t
        BY <1>1, <1>2, <1>5, <2>3 DEF Track
      <3> QED
        BY <1>1, <3>2, <3>3
    <2>4. CASE id \notin LiveIds(c)
      <3>1. LiveIds(c) = LiveIds(q) \ {id}
        BY <2>1, <2>2, <2>4
      <3>2. LiveIn(bs1) = LiveIn(bs) \ {id}
        <4>1. /\ OnlyBook(s, bs, bs1) /\ LiveIds(bs1[s]) = LiveIds(bs[s]) \ {id}
              /\ \A x \in Symbols \ {s} : id \notin LiveIds(bs[x])
          BY <1>1, <1>2, <1>5, <3>1
        <4> QED
          BY <4>1, LiveInAfter
      <3>3. t1 = TrackRemove(t, id)
        BY <1>1, <1>2, <1>5, <2>4 DEF Track
      <3> QED
        BY <1>1, <3>2, <3>3, TrackRemoveDoes
    <2> QED
      BY <2>3, <2>4
  <1> QED
    BY <1>2, <1>3, <1>4, <1>5 DEF BookStep

(* Who tracks the orders before a call tracks those after it, once it has *)
(* looked at the events with the manager as the call left it.             *)
LEMMA CallTracked ==
  ASSUME NEW m, GoodManager(m), Indexed(m), NEW n, GoodManager(n), Indexed(n),
         NEW md, NEW first, NumberedTells(md, first, m, n), NEW t, Tracking(t, LiveIn(m.books))
  PROVE  Tracking(TrackedAfter(t, md, n), LiveIn(n.books))
  <1>1. PICK evs : md = Numbered(evs, first) /\ ManagerTells(evs, m, n)
    BY DEF NumberedTells
  <1>2. PICK most : most = Len(evs)
    OBVIOUS
  <1>3. evs \in Seq(PublishedEvents) /\ most \in Nat /\ DOMAIN evs = 1 .. most
    BY <1>1, <1>2 DEF ManagerTells
  <1>4. Len(md) = most /\ \A k \in 1 .. most : md[k].ev = evs[k]
    BY <1>1, <1>2, <1>3, NumberedParts
  <1>5. CASE n = m /\ \A k \in DOMAIN evs : evs[k].type = "Reject"
    <2>1. PICK live : live = [k \in 0 .. most |-> LiveIn(m.books)]
      OBVIOUS
    <2>2. \A k \in 0 .. most : live[k] = LiveIn(m.books)
      BY <2>1
    <2>3. 0 \in 0 .. most /\ most \in 0 .. most
          /\ \A k \in 1 .. most : k \in 0 .. most /\ k - 1 \in 0 .. most
      BY <1>3
    <2>4. \A k \in 1 .. most : \A u : Track(u, md[k].ev, n) = u
      <3>1. \A k \in 1 .. most : md[k].ev.type = "Reject"
        BY <1>3, <1>4, <1>5
      <3> QED
        BY <3>1 DEF Track
    <2>5. StepsTrack(live, md, n, most)
      BY <2>2, <2>3, <2>4 DEF StepsTrack
    <2>6. Tracking(t, live[0]) /\ live[most] = LiveIn(n.books)
      BY <1>5, <2>2, <2>3
    <2> QED
      BY <1>3, <1>4, <2>5, <2>6, TracksAlong
  <1>6. CASE \E s \in Symbols : \E told : OneBookTells(s, told, evs, m, n)
    <2>0. PICK s \in Symbols : \E x : OneBookTells(s, x, evs, m, n)
      BY <1>6
    <2>1. PICK told : OneBookTells(s, told, evs, m, n)
      BY <2>0
    <2>2. /\ told \in Seq(BookEvents) /\ evs = Stamped(s, told)
          /\ \A x \in Symbols \ {s} : n.books[x] = m.books[x]
          /\ \A k \in DOMAIN told : told[k].type # "Add" => told[k].order_id \in LiveIds(m.books[s])
          /\ Tells(told, m.books[s], n.books[s])
      BY <2>1 DEF OneBookTells
    <2>3. DOMAIN told = 1 .. most /\ Len(told) = most
      <3>1. DOMAIN evs = DOMAIN told
        BY <2>2 DEF Stamped
      <3> QED
        BY <1>3, <2>2, <3>1
    <2>4. PICK g : BookPath(g, m.books[s], told, n.books[s]) /\ Orderly(g, told, n.books[s])
      BY <2>2 DEF Tells
    <2>5. /\ g[0] = m.books[s] /\ g[most] = n.books[s]
          /\ \A k \in 0 .. most : GoodBook(g[k])
          /\ \A k \in 1 .. most : BookStep(g[k - 1], told[k], g[k])
          /\ \A k \in 1 .. most : told[k].type = "Execute" =>
               (told[k].order_id \in LiveIds(g[k]) <=> told[k].order_id \in LiveIds(n.books[s]))
      BY <2>3, <2>4 DEF BookPath, Orderly
    <2>6. PICK live : live = [k \in 0 .. most |-> LiveIn(BooksAt(m, s, g, k))]
      OBVIOUS
    <2>7. \A k \in 0 .. most : live[k] = LiveIn(BooksAt(m, s, g, k))
      BY <2>6
    <2>8. \A k \in 0 .. most :
            /\ BooksAt(m, s, g, k)[s] = g[k]
            /\ \A x \in Symbols \ {s} : BooksAt(m, s, g, k)[x] = m.books[x]
      BY <2>5, BooksAtIs
    <2>9. live[0] = LiveIn(m.books) /\ live[most] = LiveIn(n.books)
      <3>1. 0 \in 0 .. most /\ most \in 0 .. most
        BY <1>3
      <3>2. \A x \in Symbols : BooksAt(m, s, g, 0)[x] = m.books[x]
        BY <2>5, <2>8, <3>1
      <3>3. \A x \in Symbols : BooksAt(m, s, g, most)[x] = n.books[x]
        BY <2>2, <2>5, <2>8, <3>1
      <3> QED
        BY <2>7, <3>1, <3>2, <3>3 DEF LiveIn
    <2>10. ASSUME NEW k \in 1 .. most, NEW u, Tracking(u, live[k - 1])
           PROVE  Tracking(Track(u, md[k].ev, n), live[k])
      <3>1. PICK bs, bs1, ev, pub, id : /\ bs = BooksAt(m, s, g, k - 1) /\ bs1 = BooksAt(m, s, g, k)
                                        /\ ev = told[k] /\ pub = evs[k] /\ id = ev.order_id
        OBVIOUS
      <3>2. k \in 0 .. most /\ k - 1 \in 0 .. most
        BY <1>3
      <3>3. /\ bs[s] = g[k - 1] /\ bs1[s] = g[k]
            /\ \A x \in Symbols \ {s} : bs[x] = m.books[x] /\ bs1[x] = m.books[x]
        BY <2>8, <3>1, <3>2
      <3>4. /\ OnlyBook(s, bs, bs1) /\ GoodBook(bs[s]) /\ BookStep(bs[s], ev, bs1[s])
            /\ ev \in BookEvents
        BY <2>2, <2>3, <2>5, <3>1, <3>2, <3>3 DEF OnlyBook
      <3>5. pub.type = ev.type /\ pub.order_id = id
        BY <2>2, <2>3, <3>1, StampedPublishes DEF Publishes
      <3>6. ASSUME ev.type # "Add"
            PROVE  id \in LiveIds(m.books[s]) /\ \A x \in Symbols \ {s} : id \notin LiveIds(bs[x])
        <4>1. id \in LiveIds(m.books[s])
          BY <2>2, <2>3, <3>1, <3>6
        <4>2. \A x \in Symbols : id \in LiveIds(m.books[x]) => x = s
          BY <4>1 DEF Indexed
        <4> QED
          BY <3>3, <4>1, <4>2
      <3>7. ASSUME ev.type = "Execute"
            PROVE  ContainsOrder(n, id) <=> id \in LiveIds(bs1[s])
        <4>1. id \in LiveIds(m.books[s])
          BY <3>6, <3>7
        <4>2. ContainsOrder(n, id) <=> id \in LiveIds(n.books[s])
          BY <2>2, <4>1, IndexTellsLive
        <4> QED
          BY <2>5, <3>1, <3>3, <3>7, <4>2
      <3>8. Trackable(bs, bs1, s, ev, pub, n)
        BY <3>1, <3>4, <3>5, <3>6, <3>7 DEF Trackable
      <3>9. Tracking(u, LiveIn(bs))
        BY <2>7, <2>10, <3>1, <3>2
      <3>10. Tracking(Track(u, pub, n), LiveIn(bs1))
        BY <3>8, <3>9, EventTracked
      <3> QED
        BY <1>4, <2>7, <3>1, <3>2, <3>10
    <2>11. StepsTrack(live, md, n, most)
      BY <2>10 DEF StepsTrack
    <2>12. Tracking(t, live[0])
      BY <2>9
    <2>13. Tracking(TrackedAfter(t, md, n), live[most])
      BY <1>3, <1>4, <2>11, <2>12, TracksAlong
    <2> QED
      BY <2>9, <2>13
  <1> QED
    BY <1>1, <1>5, <1>6 DEF ManagerTells

-----------------------------------------------------------------------------
(* The load generator: the subscriber it drives. *)

(* A subscriber with the books of m that has taken the frames before at. *)
SubscriberAt(m, at) == [manager |-> m, expected |-> at, failed |-> FALSE]

(* f is frame at, makes c of m, and next is the number of the frame after it. *)
Taking(m, at, f, c, next) ==
  f.seq = at /\ ApplyEvent(m, f.ev) = Applied(c) /\ next = at + 1

LEMMA FrameTaken ==
  ASSUME NEW m, NEW at, NEW f, NEW c, NEW next, Taking(m, at, f, c, next)
  PROVE  ApplyFrame(SubscriberAt(m, at), f) = SubscriberAt(c, next)
  <1>1. PICK sub : sub = SubscriberAt(m, at)
    OBVIOUS
  <1>2. sub.manager = m /\ sub.expected = at /\ sub.failed = FALSE
    BY <1>1 DEF SubscriberAt
  <1>3. ApplyFrame(sub, f) = Counted(sub, at, Applied(c))
    BY <1>2 DEF ApplyFrame, Taking
  <1>4. Applied(c).manager = c /\ Applied(c).ok = TRUE
    BY DEF Applied
  <1>5. Counted(sub, at, Applied(c)) = SubscriberAt(c, next)
    BY <1>2, <1>4 DEF Counted, SubscriberAt, Taking
  <1> QED
    BY <1>1, <1>3, <1>5

(* after is SubscriberAfter as a function of the number of frames. *)
TakesFrames(after, sub, frames, n) ==
  after = [k \in 0 .. n |-> IF k = 0 THEN sub ELSE ApplyFrame(after[k - 1], frames[k])]

(* A subscriber takes the frames it expects to where they lead. *)
LEMMA SubscriberFollows ==
  ASSUME NEW frames, NEW first \in Nat, MdFrom(frames, first), NEW m, NEW n, Leads(m, frames, n)
  PROVE  SubscriberAfter(SubscriberAt(m, first), frames) = SubscriberAt(n, first + Len(frames))
  <1>1. PICK g : ManagerPath(g, m, frames, n)
    BY DEF Leads
  <1>2. PICK most, sub : most = Len(frames) /\ sub = SubscriberAt(m, first)
    OBVIOUS
  <1>3. /\ most \in Nat /\ g[0] = m /\ g[most] = n
        /\ \A k \in 1 .. most : /\ ApplyEvent(g[k - 1], frames[k].ev) = Applied(g[k])
                                /\ frames[k].seq = first + k - 1
    <2>1. frames \in Seq(Stamps) /\ \A k \in DOMAIN frames : frames[k].seq = first + k - 1
      BY DEF MdFrom
    <2>2. most \in Nat /\ DOMAIN frames = 1 .. most
      BY <1>2, <2>1
    <2> QED
      BY <1>1, <1>2, <2>1, <2>2 DEF ManagerPath
  <1>4. PICK h : h = [k \in 0 .. most |-> SubscriberAt(g[k], first + k)]
    OBVIOUS
  <1>5. \A k \in 0 .. most : h[k] = SubscriberAt(g[k], first + k)
    BY <1>4
  <1>6. ASSUME NEW k \in 1 .. most
        PROVE  k - 1 \in 0 .. most /\ ApplyFrame(h[k - 1], frames[k]) = h[k]
    <2>1. PICK at, f, b, c : /\ at = first + (k - 1) /\ f = frames[k]
                             /\ b = g[k - 1] /\ c = g[k]
      OBVIOUS
    <2>2. k \in 0 .. most /\ k - 1 \in 0 .. most /\ at = first + k - 1 /\ at + 1 = first + k
      BY <1>3, <2>1
    <2>3. h[k - 1] = SubscriberAt(b, at) /\ h[k] = SubscriberAt(c, at + 1)
      BY <1>5, <2>1, <2>2
    <2>4. f.seq = at /\ ApplyEvent(b, f.ev) = Applied(c)
      BY <1>3, <2>1, <2>2
    <2>5. PICK before, after : before = h[k - 1] /\ after = h[k]
      OBVIOUS
    <2>6. PICK next : next = at + 1
      OBVIOUS
    <2>7. before = SubscriberAt(b, at) /\ after = SubscriberAt(c, next)
      BY <2>3, <2>5, <2>6
    <2>8. Taking(b, at, f, c, next)
      BY <2>4, <2>6 DEF Taking
    <2>9. ApplyFrame(SubscriberAt(b, at), f) = SubscriberAt(c, next)
      BY <2>8, FrameTaken
    <2> QED
      BY <2>1, <2>2, <2>5, <2>7, <2>9
  <1>7. h[0] = sub /\ h[most] = SubscriberAt(n, first + most)
    <2>1. 0 \in 0 .. most /\ most \in 0 .. most /\ first + 0 = first
      BY <1>3
    <2> QED
      BY <1>2, <1>3, <1>5, <2>1
  <1>8. TakesFrames(h, sub, frames, most)
    <2>1. \A k \in 0 .. most : h[k] = IF k = 0 THEN sub ELSE ApplyFrame(h[k - 1], frames[k])
      <3> TAKE k \in 0 .. most
      <3>1. CASE k = 0
        BY <1>7, <3>1
      <3>2. CASE k # 0
        <4>1. k \in 1 .. most
          BY <1>3, <3>2
        <4> QED
          BY <1>6, <3>2, <4>1
      <3> QED
        BY <3>1, <3>2
    <2>2. h = [k \in 0 .. most |-> h[k]]
      BY <1>4
    <2> QED
      BY <2>1, <2>2, Zenon DEF TakesFrames
  <1>9. PICK after : after = CHOOSE x : TakesFrames(x, sub, frames, most)
    OBVIOUS
  <1>10. TakesFrames(after, sub, frames, most)
    BY <1>8, <1>9
  <1>11. SubscriberAfter(sub, frames) = after[most]
    BY <1>2, <1>9 DEF SubscriberAfter, TakesFrames
  <1>12. \A k \in 0 .. most :
           after[k] = IF k = 0 THEN sub ELSE ApplyFrame(after[k - 1], frames[k])
    <2>1. PICK f : f = [k \in 0 .. most |->
                          IF k = 0 THEN sub ELSE ApplyFrame(after[k - 1], frames[k])]
      OBVIOUS
    <2>2. after = f
      BY <1>10, <2>1 DEF TakesFrames
    <2> QED
      BY <2>1, <2>2
  <1> DEFINE Bad == {k \in 0 .. most : after[k] # h[k]}
  <1>13. Bad = {}
    <2> SUFFICES ASSUME Bad # {} PROVE FALSE
      OBVIOUS
    <2>1. PICK k \in Bad : \A j \in Bad : k <= j
      <3>1. Bad \in SUBSET Nat
        OBVIOUS
      <3> HIDE DEF Bad
      <3> QED
        BY <3>1, LeastNumber
    <2>2. k \in 0 .. most /\ after[k] # h[k]
      BY <2>1
    <2>3. k # 0
      BY <1>7, <1>12, <2>2
    <2>4. k - 1 \in 0 .. most /\ k - 1 \notin Bad /\ k \in 1 .. most
      BY <1>3, <2>1, <2>2, <2>3
    <2>5. after[k - 1] = h[k - 1]
      BY <2>4
    <2>6. after[k] = ApplyFrame(after[k - 1], frames[k])
      BY <1>12, <2>2, <2>3
    <2> QED
      BY <1>6, <2>2, <2>4, <2>5, <2>6
  <1>14. after[most] = h[most]
    <2>1. most \in 0 .. most
      BY <1>3
    <2> QED
      BY <1>13, <2>1
  <1> QED
    BY <1>2, <1>7, <1>11, <1>14

-----------------------------------------------------------------------------
(* The benchmark. *)

Tracked == [ids |-> live_ids, pos |-> live_pos]

BenchInv ==
  /\ TidyInv
  /\ subscriber = SubscriberAt(exchange.manager, exchange.next_md_seq)
  /\ Tracking(Tracked, LiveIn(exchange.manager.books))

LEMMA IterateIsNext ==
  ASSUME NEW cmd \in Commands, Iterate(cmd)
  PROVE  Next
  <1>1. PICK now : now = clock + 1
    OBVIOUS
  <1>2. now \in Times /\ ProcessFrame(cmd, now)
    BY <1>1 DEF Iterate
  <1> QED
    BY <1>2 DEF Next

LEMMA NothingContained == ASSUME NEW id \in OrderIds PROVE ~ ContainsOrder(EmptyManager, id)
  <1>1. PICK index : index = [x \in OrderIds |-> kNoSymbol]
    OBVIOUS
  <1>2. EmptyManager.order_to_symbol = index
    BY <1>1 DEF EmptyManager
  <1>3. index[id] = kNoSymbol
    BY <1>1
  <1> QED
    BY <1>2, <1>3, Zenon DEF ContainsOrder

LEMMA NothingLiveIn == ASSUME exchange = NewExchange PROVE LiveIn(exchange.manager.books) = {}
  <1>1. PICK m : m = exchange.manager
    OBVIOUS
  <1>2. GoodManager(m) /\ Indexed(m) /\ m = EmptyManager
    BY <1>1, NewExchangeIs, EmptyManagerGood
  <1>3. LiveIn(m.books) = {id \in OrderIds : ContainsOrder(m, id)}
    BY <1>2, LiveInIs
  <1>4. \A id \in OrderIds : ~ ContainsOrder(m, id)
    BY <1>2, NothingContained, Zenon
  <1> QED
    BY <1>1, <1>3, <1>4

LEMMA BenchInitInv == BenchInit => BenchInv
  <1> SUFFICES ASSUME BenchInit PROVE BenchInv
    OBVIOUS
  <1>1. TidyInv /\ exchange = NewExchange
    BY InitExchangeInv DEF BenchInit, FeedInit, Init, TidyInv
  <1>2. exchange.manager = EmptyManager /\ exchange.next_md_seq = 1
    BY <1>1, NewExchangeIs
  <1>3. subscriber = SubscriberAt(EmptyManager, 1)
    BY DEF BenchInit, FeedInit, NewSubscriber, SubscriberAt
  <1>4. LiveIn(exchange.manager.books) = {}
    BY <1>1, NothingLiveIn
  <1>5. Tracked = [ids |-> <<>>, pos |-> <<>>]
    BY DEF BenchInit, Tracked
  <1> QED
    BY <1>1, <1>2, <1>3, <1>4, <1>5, NothingTracked DEF BenchInv

LEMMA IterateKeeps ==
  ASSUME Disciplined, BenchInv, NEW cmd \in Commands, Iterate(cmd)
  PROVE  BenchInv'
  <1>1. TidyInv /\ Next
    BY IterateIsNext DEF BenchInv
  <1>2. TidyInv'
    BY <1>1, NextTidyInv
  <1>3. PICK md, x, y, m, n : /\ md = last'.md /\ x = exchange.next_md_seq
                              /\ y = exchange'.next_md_seq
                              /\ m = exchange.manager /\ n = exchange'.manager
    OBVIOUS
  <1>4. y = x + Len(md) /\ NumberedTells(md, x, m, n)
    BY <1>1, <1>3, NextTells
  <1>5. /\ x \in Nat /\ GoodManager(m) /\ Indexed(m) /\ GoodManager(n) /\ Indexed(n)
        /\ MdFrom(md, y - Len(md))
    BY <1>1, <1>2, <1>3 DEF TidyInv, ExchangeInv, GoodExchange
  <1>6. MdFrom(md, x)
    <2>1. md \in Seq(Stamps)
      BY <1>5 DEF MdFrom
    <2>2. y - Len(md) = x
      BY <1>4, <1>5, <2>1
    <2> QED
      BY <1>5, <2>2
  <1>7. Leads(m, md, n)
    BY <1>4, <1>5, CallApplied
  <1>8. SubscriberAfter(SubscriberAt(m, x), md) = SubscriberAt(n, y)
    BY <1>4, <1>5, <1>6, <1>7, SubscriberFollows
  <1>9. subscriber' = SubscriberAt(n, y)
    BY <1>3, <1>8 DEF BenchInv, Iterate
  <1>10. PICK t, t1 : t = Tracked /\ t1 = TrackedAfter(t, md, n)
    OBVIOUS
  <1>11. Tracking(t, LiveIn(m.books))
    BY <1>3, <1>10 DEF BenchInv
  <1>12. Tracking(t1, LiveIn(n.books))
    BY <1>4, <1>5, <1>10, <1>11, CallTracked
  <1>13. Tracked' = t1
    <2>1. live_ids' = t1.ids /\ live_pos' = t1.pos
      BY <1>3, <1>10 DEF Iterate, Tracked
    <2>2. t1 = [ids |-> t1.ids, pos |-> t1.pos]
      BY <1>12 DEF Tracking
    <2> QED
      BY <2>1, <2>2 DEF Tracked
  <1>14. Tracking(Tracked', LiveIn(n.books))
    BY <1>12, <1>13
  <1> QED
    BY <1>2, <1>3, <1>9, <1>14 DEF BenchInv

LEMMA BenchNextInv == ASSUME Disciplined PROVE BenchInv /\ [BenchNext]_benchVars => BenchInv'
  <1> SUFFICES ASSUME BenchInv, [BenchNext]_benchVars PROVE BenchInv'
    OBVIOUS
  <1>1. CASE BenchNext
    BY <1>1, IterateKeeps DEF BenchNext
  <1>2. CASE UNCHANGED benchVars
    <2>1. /\ exchange' = exchange /\ last' = last /\ subscriber' = subscriber
          /\ live_ids' = live_ids /\ live_pos' = live_pos
      BY <1>2 DEF benchVars, feedVars, vars
    <2>2. TidyInv'
      BY <2>1 DEF BenchInv, TidyInv, ExchangeInv
    <2>3. Tracked' = Tracked
      BY <2>1 DEF Tracked
    <2> QED
      BY <2>1, <2>2, <2>3 DEF BenchInv
  <1> QED
    BY <1>1, <1>2

(***************************************************************************)
(* What the load generator of the benchmark has noted from the events is   *)
(* what rests in the books, each order once and at the place noted: every  *)
(* cancel it draws names a resting order (track_add, track_remove,         *)
(* TracksLive).                                                            *)
(***************************************************************************)
THEOREM TrackingCorrect == ASSUME Disciplined PROVE BenchSpec => []TracksLive
  <1>1. BenchInit => BenchInv
    BY BenchInitInv
  <1>2. BenchInv /\ [BenchNext]_benchVars => BenchInv'
    BY BenchNextInv
  <1>3. BenchInv => TracksLive
    <2> SUFFICES ASSUME BenchInv PROVE TracksLive
      OBVIOUS
    <2>1. PICK m, ids : m = exchange.manager /\ ids = LiveIn(m.books)
      OBVIOUS
    <2>2. GoodManager(m) /\ Indexed(m)
      BY <2>1 DEF BenchInv, TidyInv, ExchangeInv, GoodExchange
    <2>3. ids = {id \in OrderIds : ContainsOrder(m, id)}
      BY <2>1, <2>2, LiveInIs
    <2>4. Tracking(Tracked, ids)
      BY <2>1 DEF BenchInv
    <2>5. Tracked.ids = live_ids /\ Tracked.pos = live_pos
      BY DEF Tracked
    <2>6. PICK list, pos, n : list = live_ids /\ pos = live_pos /\ n = Len(list)
      OBVIOUS
    <2>7. /\ list \in Seq(OrderIds) /\ pos = [id \in ids |-> pos[id]]
          /\ \A id \in ids : pos[id] \in 1 .. n /\ list[pos[id]] = id
          /\ \A k \in 1 .. n : list[k] \in ids /\ pos[list[k]] = k
      BY <2>4, <2>5, <2>6 DEF Tracking
    <2>8. DOMAIN pos = ids
      BY <2>7
    <2>9. DOMAIN list = 1 .. n
      BY <2>6, <2>7
    <2>10. 1 .. n = {pos[id] : id \in ids}
      <3>1. \A id \in ids : pos[id] \in 1 .. n
        BY <2>7
      <3>2. \A k \in 1 .. n : \E id \in ids : k = pos[id]
        BY <2>7
      <3> QED
        BY <3>1, <3>2
    <2>11. \A id \in ids : list[pos[id]] = id
      BY <2>7
    <2> QED
      BY <2>1, <2>3, <2>6, <2>8, <2>9, <2>10, <2>11 DEF TracksLive
  <1> QED
    BY <1>1, <1>2, <1>3, PTL DEF BenchSpec

(* An order that rests after a command rested before it, or is the new one. *)
LEMMA OldOrSent ==
  ASSUME NEW m, NEW n, NEW cmd, OrdersStem(n, m, cmd), NEW id \in LiveIn(n.books)
  PROVE  id \in LiveIn(m.books) \/ (cmd.type # "Cancel" /\ id = cmd.order_id)
  <1>1. PICK s \in Symbols : id \in LiveIds(n.books[s])
    BY DEF LiveIn
  <1>2. PICK q, q0 : q = n.books[s] /\ q0 = m.books[s]
    OBVIOUS
  <1>3. PICK d \in Sides, p \in Band : id \in OrderIds /\ RestsAt(q, id, d, p)
    BY <1>1, <1>2 DEF LiveIds
  <1>4. PICK k \in DOMAIN q[d][p] : q[d][p][k].order_id = id
    BY <1>3 DEF RestsAt
  <1>5. ASSUME NEW j \in DOMAIN q0[d][p], q[d][p][k].order_id = q0[d][p][j].order_id
        PROVE  id \in LiveIn(m.books)
    <2>1. RestsAt(q0, id, d, p)
      BY <1>4, <1>5 DEF RestsAt
    <2>2. id \in LiveIds(q0)
      BY <1>3, <2>1 DEF LiveIds
    <2> QED
      BY <1>2, <2>2 DEF LiveIn
  <1>6. CASE n = m
    BY <1>6
  <1>7. CASE ManagerKeeps(n, m)
    <2>1. StemsFrom(q, q0)
      BY <1>2, <1>7 DEF ManagerKeeps
    <2>2. \E j \in DOMAIN q0[d][p] : q[d][p][k].order_id = q0[d][p][j].order_id
      BY <2>1 DEF StemsFrom
    <2> QED
      BY <1>5, <2>2
  <1>8. CASE cmd.type # "Cancel" /\ ManagerStems(n, m, cmd)
    <2>1. StemsFromOr(q, q0, cmd)
      BY <1>2, <1>8 DEF ManagerStems
    <2>2. \/ \E j \in DOMAIN q0[d][p] : q[d][p][k].order_id = q0[d][p][j].order_id
          \/ q[d][p][k].order_id = cmd.order_id
      BY <2>1 DEF StemsFromOr
    <2> QED
      BY <1>4, <1>5, <1>8, <2>2
  <1> QED
    BY <1>6, <1>7, <1>8 DEF OrdersStem

(* The id of the next new order is above those of the orders that rest. *)
FreshInv ==
  /\ BenchInv
  /\ next_id \in Nat
  /\ \A id \in LiveIn(exchange.manager.books) : id < next_id

LEMMA IterateKeepsFresh ==
  ASSUME Disciplined, OrderIds \subseteq Nat, FreshInv, NEW cmd \in Commands, Iterate(cmd)
  PROVE  FreshInv'
  <1>1. BenchInv'
    BY IterateKeeps DEF FreshInv
  <1>2. GoodExchange(exchange) /\ exchange.next_seq \in Nat
    BY DEF FreshInv, BenchInv, TidyInv, ExchangeInv, GoodExchange
  <1>3. PICK now, m, n : now = clock + 1 /\ m = exchange.manager /\ n = exchange'.manager
    OBVIOUS
  <1>4. now \in Times /\ ProcessFrame(cmd, now)
    BY <1>3 DEF Iterate
  <1>5. OrdersStem(n, m, cmd)
    <2>1. CASE Validate(cmd) = "None"
      <3>1. ProcessCommand(cmd, now)
        BY <1>4, <2>1 DEF ProcessFrame
      <3>2. PICK sc, r : Sequences(cmd, sc, r)
        BY <1>2, <1>4, <3>1, ProcessCommandIs
      <3> QED
        BY <1>2, <1>3, <3>2, SequencesKeeps
    <2>2. CASE Validate(cmd) # "None"
      <3>1. PICK reason, r : reason = Validate(cmd) /\ r = Reject(NextSeq, Dummy, reason)
        OBVIOUS
      <3>2. Called(cmd, now) /\ Answer(cmd, r) /\ journal' = journal
        BY <1>4, <2>2, <3>1 DEF ProcessFrame
      <3>3. reason \in RejectReasons /\ exchange.next_seq <= MaxSeq
        BY <3>1, <3>2, ValidateType, CallAssumption DEF Called
      <3>4. RefusesFrame(cmd, reason, r)
        BY <3>1, <3>2, <3>3 DEF RefusesFrame
      <3> QED
        BY <1>2, <1>3, <3>4, RefusesKeeps DEF OrdersStem
    <2> QED
      BY <2>1, <2>2
  <1>6. /\ next_id \in Nat
        /\ \A id \in LiveIn(m.books) : id \in OrderIds /\ id < next_id
    <2>1. Tracking(Tracked, LiveIn(m.books))
      BY <1>3 DEF FreshInv, BenchInv
    <2>2. LiveIn(m.books) \subseteq OrderIds
      BY <2>1 DEF Tracking
    <2> QED
      BY <1>3, <2>2 DEF FreshInv
  <1>7. \/ cmd.type = "Cancel" /\ next_id' = next_id
        \/ cmd.type = "New" /\ cmd.order_id = next_id /\ next_id' = next_id + 1
    BY DEF Iterate, NewOrder, CancelLive
  <1>8. ASSUME NEW id \in LiveIn(n.books) PROVE id < next_id'
    <2>1. id \in LiveIn(m.books) \/ (cmd.type # "Cancel" /\ id = cmd.order_id)
      BY <1>5, OldOrSent
    <2>2. CASE id \in LiveIn(m.books)
      <3>1. id \in Nat /\ id < next_id
        BY <1>6, <2>2
      <3> QED
        BY <1>6, <1>7, <3>1
    <2>3. CASE cmd.type # "Cancel" /\ id = cmd.order_id
      BY <1>6, <1>7, <2>3
    <2> QED
      BY <2>1, <2>2, <2>3
  <1>9. next_id' \in Nat
    BY <1>6, <1>7
  <1> QED
    BY <1>1, <1>3, <1>8, <1>9 DEF FreshInv

(* A cancel, or a new order as the load generator makes it. *)
Drawn(cmd) ==
  \/ cmd.type = "Cancel"
  \/ cmd.type = "New" /\ cmd.order_id = next_id /\ HasBook(cmd)

DrawnObey == \A cmd \in Commands : Drawn(cmd) => Obeys(cmd)

(***************************************************************************)
(* The load generator keeps to Obeys by itself, as new ids rise: taking    *)
(* only commands that do leaves out none that it could draw.               *)
(***************************************************************************)
THEOREM GeneratorObeys ==
  ASSUME Disciplined, OrderIds \subseteq Nat
  PROVE  BenchSpec => []DrawnObey
  <1>1. BenchInit => FreshInv
    <2> SUFFICES ASSUME BenchInit PROVE FreshInv
      OBVIOUS
    <2>1. BenchInv /\ next_id = 1
      BY BenchInitInv DEF BenchInit
    <2>2. LiveIn(exchange.manager.books) = {}
      BY NothingLiveIn DEF BenchInit, FeedInit, Init
    <2> QED
      BY <2>1, <2>2 DEF FreshInv
  <1>2. FreshInv /\ [BenchNext]_benchVars => FreshInv'
    <2> SUFFICES ASSUME FreshInv, [BenchNext]_benchVars PROVE FreshInv'
      OBVIOUS
    <2>1. CASE BenchNext
      BY <2>1, IterateKeepsFresh DEF BenchNext
    <2>2. CASE UNCHANGED benchVars
      <3>1. exchange' = exchange /\ next_id' = next_id
        BY <2>2 DEF benchVars, feedVars, vars
      <3>2. BenchInv'
        BY BenchNextInv DEF FreshInv
      <3> QED
        BY <3>1, <3>2 DEF FreshInv
    <2> QED
      BY <2>1, <2>2
  <1>3. FreshInv => DrawnObey
    <2> SUFFICES ASSUME FreshInv, NEW cmd \in Commands, Drawn(cmd) PROVE Obeys(cmd)
      BY DEF DrawnObey
    <2>1. CASE cmd.type = "Cancel"
      BY <2>1 DEF Obeys
    <2>2. CASE cmd.type = "New" /\ cmd.order_id = next_id /\ HasBook(cmd)
      <3>1. PICK m, id : m = exchange.manager /\ id = cmd.order_id
        OBVIOUS
      <3>2. GoodManager(m) /\ Indexed(m)
        BY <3>1 DEF FreshInv, BenchInv, TidyInv, ExchangeInv, GoodExchange
      <3>3. LiveIn(m.books) = {x \in OrderIds : ContainsOrder(m, x)}
        BY <3>2, LiveInIs
      <3>4. id \notin LiveIn(m.books)
        BY <2>2, <3>1 DEF FreshInv
      <3>5. ~ ContainsOrder(m, id)
        BY <3>3, <3>4 DEF ContainsOrder
      <3> QED
        BY <2>2, <3>1, <3>5 DEF Obeys
    <2> QED
      BY <2>1, <2>2 DEF Drawn
  <1> QED
    BY <1>1, <1>2, <1>3, PTL DEF BenchSpec

(* The load generator sends no frame the protocol refuses. *)
GeneratesValid == \A cmd \in Commands : Validate(cmd) = "None"

VerifyInv ==
  /\ ReplayInv
  /\ ~ Replayed(journal).thrown
  /\ Len(journal) = exchange.next_seq - 1

LEMMA VerifyInitInv == Init => VerifyInv
  <1> SUFFICES ASSUME Init PROVE VerifyInv
    OBVIOUS
  <1>1. ReplayInv /\ journal = <<>> /\ exchange = NewExchange
    BY InitReplayInv DEF Init
  <1>2. PICK r : r = Replayed(journal)
    OBVIOUS
  <1>3. r = StartOfReplay
    BY <1>1, <1>2, NothingReplayed
  <1>4. r.thrown = FALSE
    BY <1>3 DEF StartOfReplay
  <1>5. Len(journal) = exchange.next_seq - 1
    <2>1. Len(journal) = 0 /\ exchange.next_seq = 1
      BY <1>1, NewExchangeIs
    <2> QED
      BY <2>1
  <1> QED
    BY <1>1, <1>2, <1>4, <1>5 DEF VerifyInv

LEMMA IterateVerified ==
  ASSUME Disciplined, Journaling, GeneratesValid, VerifyInv, NEW cmd \in Commands, Iterate(cmd)
  PROVE  VerifyInv'
  <1>1. PICK now : now = clock + 1
    OBVIOUS
  <1>2. now \in Times /\ ProcessCommand(cmd, now)
    BY <1>1 DEF Iterate, ProcessFrame, GeneratesValid
  <1>3. ReplayInv /\ ~ Replayed(journal).thrown /\ Len(journal) = exchange.next_seq - 1
    BY DEF VerifyInv
  <1>4. /\ GoodExchange(exchange) /\ exchange.next_seq \in Nat
        /\ journal \in Seq(JournalRecords)
    BY <1>3 DEF ReplayInv, ExchangeInv, GoodExchange
  <1>5. PICK sc, r : Sequences(cmd, sc, r)
    BY <1>2, <1>4, ProcessCommandIs
  <1>6. ReplayInv'
    BY <1>3, <1>5, SequencesReplayed
  <1>7. exchange'.next_seq = exchange.next_seq + 1
    BY <1>4, <1>5, SequencesKeeps
  <1>8. /\ journal' = Append(journal, sc) /\ sc \in JournalRecords /\ sc.cmd = cmd /\ Obeys(cmd)
    BY <1>5 DEF Sequences, Journaled
  <1>9. PICK before, after, x, step :
          /\ before = Replayed(journal) /\ after = Replayed(journal')
          /\ x = before.exchange /\ step = ApplySequenced(x, sc)
    OBVIOUS
  <1>10. after = ReplayOne(before, sc)
    BY <1>4, <1>8, <1>9, ReplayedFurther
  <1>11. ~ before.thrown /\ after = Republished(before, step)
    BY <1>3, <1>9, <1>10 DEF ReplayOne
  <1>12. after.thrown = step.thrown
    <2>1. PICK md : md = before.md \o step.md
      OBVIOUS
    <2>2. after = [exchange |-> step.exchange, md |-> md, thrown |-> step.thrown]
      BY <1>11, <2>1 DEF Republished
    <2> QED
      BY <2>2
  <1>13. ExchangeShaped(x)
    BY <1>3, <1>9 DEF ReplayInv, ReplayMatches, GoodExchange
  <1>14. sc.cmd.type = "New" => HasBook(sc.cmd)
    BY <1>8 DEF Obeys
  <1>15. ~ step.thrown
    BY <1>9, <1>13, <1>14, BookedNeverThrows
  <1>16. Len(journal') = exchange'.next_seq - 1
    <2>1. PICK i, ns : i = Len(journal) /\ ns = exchange.next_seq
      OBVIOUS
    <2>2. i \in Nat /\ ns \in Nat /\ i = ns - 1 /\ Len(journal') = i + 1
      BY <1>3, <1>4, <1>8, <2>1
    <2> QED
      BY <1>7, <2>1, <2>2
  <1> QED
    BY <1>6, <1>9, <1>12, <1>15, <1>16 DEF VerifyInv

LEMMA VerifyNextInv ==
  ASSUME Disciplined, Journaling, GeneratesValid
  PROVE  VerifyInv /\ [BenchNext]_benchVars => VerifyInv'
  <1> SUFFICES ASSUME VerifyInv, [BenchNext]_benchVars PROVE VerifyInv'
    OBVIOUS
  <1>1. CASE BenchNext
    BY <1>1, IterateVerified DEF BenchNext
  <1>2. CASE UNCHANGED benchVars
    <2>1. UNCHANGED vars /\ exchange' = exchange /\ journal' = journal
      BY <1>2 DEF benchVars, feedVars, vars
    <2>2. ReplayInv'
      BY <2>1, NextReplayInv DEF VerifyInv
    <2> QED
      BY <2>1, <2>2 DEF VerifyInv
  <1> QED
    BY <1>1, <1>2

(***************************************************************************)
(* The verification the benchmark ends with passes, wherever the run ends  *)
(* and whatever was drawn: the subscriber has got every event and has the  *)
(* books of the exchange, and a replay of the journal rebuilds them and    *)
(* publishes the same events (VerificationPasses).                         *)
(***************************************************************************)
THEOREM VerificationCorrect ==
  ASSUME Disciplined, Journaling, GeneratesValid
  PROVE  BenchSpec => []VerificationPasses
  <1>1. BenchInit => BenchInv /\ VerifyInv
    BY BenchInitInv, VerifyInitInv DEF BenchInit, FeedInit
  <1>2. BenchInv /\ VerifyInv /\ [BenchNext]_benchVars => BenchInv' /\ VerifyInv'
    BY BenchNextInv, VerifyNextInv
  <1>3. BenchInv /\ VerifyInv => VerificationPasses
    <2> SUFFICES ASSUME BenchInv, VerifyInv PROVE VerificationPasses
      OBVIOUS
    <2>1. PICK replay, m, x : /\ replay = Replayed(journal) /\ m = exchange.manager
                              /\ x = exchange.next_md_seq
      OBVIOUS
    <2>2. subscriber = SubscriberAt(m, x)
      BY <2>1 DEF BenchInv
    <2>3. ~ subscriber.failed /\ subscriber.expected = x /\ subscriber.manager = m
      BY <2>2 DEF SubscriberAt
    <2>4. ~ replay.thrown /\ replay.exchange.manager = m /\ replay.md = md_checksum
      BY <2>1 DEF VerifyInv, ReplayInv, ReplayMatches
    <2> QED
      BY <2>1, <2>3, <2>4 DEF VerificationPasses
  <1> QED
    BY <1>1, <1>2, <1>3, PTL DEF BenchSpec

=============================================================================
