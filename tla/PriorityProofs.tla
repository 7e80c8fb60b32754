---------------------------- MODULE PriorityProofs ----------------------------
(***************************************************************************)
(* OrderBook implements PriceTimeBook, proved for every set of ids, prices *)
(* and quantities: what each call does to the pool, the lists and the      *)
(* index is what PriceTimeBook does to the queues; and a call in steps     *)
(* leaves and emits what BookCalls gives for it at once.                   *)
(***************************************************************************)
EXTENDS OrderBookRefinement, OrderBookProofs

-----------------------------------------------------------------------------
(* The list of a level. *)

(* Starting at head and following next gives line. *)
Follows(b, s, l, line, n) ==
  /\ n \in Nat /\ line \in [1 .. n -> Nat]
  /\ b.levels[s][l].count = n
  /\ n > 0 => b.levels[s][l].head = line[1]
  /\ \A k \in 1 .. n - 1 : b.nodes[line[k]].next = line[k + 1]

(* Following next from head visits a line from its first to its last. *)
LEMMA WalkIs ==
  ASSUME NEW b, NEW s, NEW l, NEW line, NEW n,
         Follows(b, s, l, line, n)
  PROVE  Walk(b, s, l) = line
  <1> DEFINE step(g, k) == IF k = 1 THEN b.levels[s][l].head ELSE b.nodes[g[k - 1]].next
             Solves(g) == g = [k \in 1 .. n |-> step(g, k)]
  <1>0. n \in Nat /\ line \in [1 .. n -> Nat]
    BY DEF Follows
  <1>1. Walk(b, s, l) = CHOOSE g : Solves(g)
    BY DEF Walk, Follows
  <1>2. \A k \in 1 .. n : line[k] = step(line, k)
    <2> TAKE k \in 1 .. n
    <2>1. CASE k = 1
      BY <1>0, <2>1 DEF Follows
    <2>2. CASE k # 1
      <3>1. k - 1 \in 1 .. n - 1 /\ (k - 1) + 1 = k
        BY <1>0, <2>2
      <3> QED
        BY <2>2, <3>1 DEF Follows
    <2> QED
      BY <2>1, <2>2
  <1>3. Solves(line)
    <2>1. line = [k \in 1 .. n |-> line[k]]
      BY <1>0
    <2> QED
      BY <1>2, <2>1, Zenon
  <1>4. ASSUME NEW g, Solves(g)
        PROVE  g = line
    <2>1. g = [k \in 1 .. n |-> g[k]] /\ \A k \in 1 .. n : g[k] = step(g, k)
      BY <1>4, Zenon
    <2> DEFINE Differ == {k \in 1 .. n : g[k] # line[k]}
    <2>3. line = [k \in 1 .. n |-> line[k]]
      BY <1>0
    <2>2. Differ = {}
      <3> SUFFICES ASSUME Differ # {} PROVE FALSE
        OBVIOUS
      <3>1. PICK k \in Differ : \A j \in Differ : k <= j
        <4>1. Differ \in SUBSET Nat
          OBVIOUS
        <4> QED
          BY <4>1, LeastExists
      <3>2. k # 1
        BY <1>2, <2>1
      <3>3. k - 1 \in 1 .. n /\ k - 1 \notin Differ
        BY <1>0, <3>1, <3>2
      <3>4. g[k - 1] = line[k - 1]
        BY <3>3
      <3>5. step(g, k) = step(line, k)
        BY <3>4
      <3>6. g[k] = line[k]
        BY <1>2, <2>1, <3>5
      <3> QED
        BY <3>6
    <2> QED
      BY <2>1, <2>2, <2>3, Zenon
  <1> HIDE DEF Solves
  <1> QED
    BY <1>1, <1>3, <1>4

(* A slot is a number. *)
LEMMA SlotsNat ==
  ASSUME NEW b \in Books, NEW s, NEW l
  PROVE  Members(b, s, l) \subseteq Active(b) /\ Active(b) \subseteq Nat \ {kNull}
  <1>1. DOMAIN b.nodes \subseteq Nat \ {kNull}
    BY BookFields DEF kNull
  <1>2. Active(b) \subseteq DOMAIN b.nodes /\ Members(b, s, l) \subseteq Active(b)
    BY DEF Members, Active
  <1> QED
    BY <1>1, <1>2

(* The walk of a level is its line. *)
LEMMA WalkIsLine ==
  ASSUME NEW b \in Books, LinesOK(b), NEW s \in Sides, NEW l \in Levels,
         NEW n, n = b.levels[s][l].count
  PROVE  /\ n \in Nat
         /\ Walk(b, s, l) \in [1 .. n -> Members(b, s, l)]
         /\ IsLine(b, s, l, Walk(b, s, l))
  <1>1. PICK line \in [1 .. n -> Members(b, s, l)] : IsLine(b, s, l, line)
    BY DEF LinesOK
  <1>2. n \in Nat
    BY BookFields DEF LevelRecords
  <1>3. n > 0 => b.levels[s][l].head = line[1]
    <2>1. b.levels[s][l].head = (IF n = 0 THEN kNull ELSE line[1])
      BY <1>1 DEF IsLine
    <2> QED
      BY <2>1
  <1>4. ASSUME NEW k \in 1 .. n - 1
        PROVE  b.nodes[line[k]].next = line[k + 1]
    <2>1. k \in 1 .. n /\ k # n
      BY <1>2
    <2>2. \A j \in 1 .. n :
            b.nodes[line[j]].next = (IF j = n THEN kNull ELSE line[j + 1])
      BY <1>1 DEF IsLine
    <2> QED
      BY <2>1, <2>2
  <1>5. Walk(b, s, l) = line
    <2>1. line \in [1 .. n -> Nat]
      BY <1>1, SlotsNat
    <2>2. Follows(b, s, l, line, n)
      BY <1>2, <1>3, <1>4, <2>1 DEF Follows
    <2> QED
      BY <2>2, WalkIs
  <1> QED
    BY <1>1, <1>2, <1>5

(* The order in slot h, as a queue holds it. *)
Entry(b, h) ==
  [order_id |-> b.nodes[h].order_id, account_id |-> b.nodes[h].account_id,
   qty |-> b.nodes[h].qty]

(* The queue of the slots of line. *)
Entries(b, line, n) == [k \in 1 .. n |-> Entry(b, line[k])]

(* A price of the ladder is the price of its level, and of no other. *)
LEMMA BandLevels ==
  /\ \A p \in Band : PriceToIndex(p) \in Levels /\ IndexToPrice(PriceToIndex(p)) = p
  /\ \A l \in Levels : IndexToPrice(l) \in Band /\ PriceToIndex(IndexToPrice(l)) = l
  BY LadderAssumption DEF Band, Levels, PriceToIndex, IndexToPrice

(***************************************************************************)
(* line is the line of orders of side s at price p: their slots, each in   *)
(* use and indexed.                                                        *)
(***************************************************************************)
QueueAt(b, s, p, line, n) ==
  /\ n \in Nat /\ n = b.levels[s][PriceToIndex(p)].count
  /\ line \in [1 .. n -> Active(b)]
  /\ line = Walk(b, s, PriceToIndex(p))
  /\ IsLine(b, s, PriceToIndex(p), line)
  /\ QueuesOf(b)[s][p] = Entries(b, line, n)
  /\ \A k \in 1 .. n :
       /\ b.nodes[line[k]].side = s /\ b.nodes[line[k]].price = p
       /\ b.nodes[line[k]].order_id \in OrderIds
       /\ b.index[b.nodes[line[k]].order_id] = line[k]
  /\ \A h \in Active(b) :
       b.nodes[h].side = s /\ b.nodes[h].price = p => \E k \in 1 .. n : line[k] = h

(* The queue at a price holds the orders of that side and price. *)
LEMMA QueueAtPrice ==
  ASSUME NEW b \in Books, LinesOK(b), IndexOK(b), PlacedOK(b),
         NEW s \in Sides, NEW p \in Band
  PROVE  \E line, n : QueueAt(b, s, p, line, n)
  <1>1. PICK l : l = PriceToIndex(p)
    OBVIOUS
  <1>2. PICK n : n = b.levels[s][l].count
    OBVIOUS
  <1>3. PICK line : line = Walk(b, s, l)
    OBVIOUS
  <1>4. l \in Levels
    BY <1>1, BandLevels
  <1>5. n \in Nat /\ line \in [1 .. n -> Members(b, s, l)] /\ IsLine(b, s, l, line)
    BY <1>2, <1>3, <1>4, WalkIsLine
  <1>6. DOMAIN line = 1 .. n
    BY <1>5
  <1>7. QueuesOf(b)[s][p] = Entries(b, line, n)
    <2>1. QueueOf(b, s, l) = Entries(b, line, n)
      BY <1>3, <1>6 DEF QueueOf, Entry, Entries
    <2>2. QueuesOf(b)[s][p] = QueueOf(b, s, l)
      BY <1>1 DEF QueuesOf
    <2> QED
      BY <2>1, <2>2
  <1>8. \A h \in Members(b, s, l) :
          /\ h \in Active(b) /\ b.nodes[h].side = s /\ b.nodes[h].price = p
          /\ b.nodes[h].order_id \in OrderIds /\ b.index[b.nodes[h].order_id] = h
    <2> TAKE h \in Members(b, s, l)
    <2>1. h \in Active(b) /\ b.nodes[h].side = s /\ b.nodes[h].level_idx = l
      BY DEF Members
    <2>2. b.nodes[h].price \in Band /\ l = PriceToIndex(b.nodes[h].price)
      BY <2>1 DEF PlacedOK
    <2>3. b.nodes[h].price = p
      BY <1>1, <2>2, BandLevels
    <2> QED
      BY <2>1, <2>3 DEF IndexOK
  <1>9. line \in [1 .. n -> Active(b)]
    BY <1>5, <1>8
  <1>10. ASSUME NEW h \in Active(b), b.nodes[h].side = s, b.nodes[h].price = p
         PROVE  \E k \in 1 .. n : line[k] = h
    <2>1. h \in Members(b, s, l)
      BY <1>1, <1>10 DEF Members, PlacedOK
    <2> QED
      BY <1>2, <1>5, <2>1 DEF IsLine
  <1>11. \A k \in 1 .. n :
           /\ b.nodes[line[k]].side = s /\ b.nodes[line[k]].price = p
           /\ b.nodes[line[k]].order_id \in OrderIds
           /\ b.index[b.nodes[line[k]].order_id] = line[k]
    BY <1>5, <1>8
  <1>12. QueueAt(b, s, p, line, n)
    BY <1>1, <1>2, <1>3, <1>5, <1>7, <1>9, <1>10, <1>11 DEF QueueAt
  <1> QED
    BY <1>12

-----------------------------------------------------------------------------
(* What the queues say of an order that rests. *)

(* The lines, the index and the prices agree. *)
ListsOK(b) == b \in Books /\ LinesOK(b) /\ IndexOK(b) /\ PlacedOK(b)

(* An order in use is on a side, at a price of the ladder, under its id. *)
LEMMA ActiveFacts ==
  ASSUME NEW b, ListsOK(b), NEW h \in Active(b), NEW n, n = b.nodes[h]
  PROVE  /\ n \in Nodes /\ n.side \in Sides /\ n.price \in Band
         /\ n.order_id \in OrderIds /\ b.index[n.order_id] = h
         /\ h \in DOMAIN b.nodes /\ h \in Nat /\ h # kNull
         /\ n.qty \in Nat /\ n.qty < QtyModulus
  <1>1. /\ h \in DOMAIN b.nodes /\ b.nodes[h] \in Nodes
        /\ DOMAIN b.nodes = 1 .. Len(b.nodes) /\ Len(b.nodes) \in Nat
    BY BookFields DEF Active, ListsOK
  <1>2. n.side \in Sides /\ n.qty \in Qty
    BY <1>1 DEF Nodes
  <1> QED
    BY <1>1, <1>2, QtyAssumption DEF ListsOK, IndexOK, PlacedOK, kNull, Qty

(* The order in slot h stands in the queue of its side and price only. *)
LEMMA EntryPlace ==
  ASSUME NEW b, ListsOK(b), NEW h \in Active(b), NEW id, id = b.nodes[h].order_id,
         NEW s \in Sides, NEW p \in Band, NEW line, NEW n, QueueAt(b, s, p, line, n),
         NEW q, q = QueuesOf(b)
  PROVE  /\ DOMAIN q[s][p] = 1 .. n
         /\ \A k \in 1 .. n : q[s][p][k].order_id = id <=> line[k] = h
         /\ Abstract!RestsAt(q, id, s, p) <=> s = b.nodes[h].side /\ p = b.nodes[h].price
         /\ Abstract!RestsAt(q, id, s, p) =>
              /\ Abstract!PlaceOf(q, id, s, p) \in 1 .. n
              /\ line[Abstract!PlaceOf(q, id, s, p)] = h
  <1>1. /\ q[s][p] = [k \in 1 .. n |-> Entry(b, line[k])]
        /\ n \in Nat /\ line \in [1 .. n -> Active(b)]
        /\ \A k \in 1 .. n : b.nodes[line[k]].side = s /\ b.nodes[line[k]].price = p
        /\ \A g \in Active(b) :
             b.nodes[g].side = s /\ b.nodes[g].price = p => \E k \in 1 .. n : line[k] = g
    BY DEF QueueAt, Entries
  <1>2. DOMAIN q[s][p] = 1 .. n
    BY <1>1
  <1>3. ASSUME NEW k \in 1 .. n
        PROVE  q[s][p][k].order_id = id <=> line[k] = h
    <2>1. q[s][p][k].order_id = b.nodes[line[k]].order_id
      BY <1>1 DEF Entry
    <2>2. line[k] \in Active(b)
      BY <1>1
    <2>3. b.index[b.nodes[line[k]].order_id] = line[k] /\ b.index[id] = h
      BY <2>2, ActiveFacts
    <2> QED
      BY <2>1, <2>3
  <1>4. Abstract!RestsAt(q, id, s, p) <=> \E k \in 1 .. n : line[k] = h
    BY <1>2, <1>3 DEF Abstract!RestsAt
  <1>5. Abstract!RestsAt(q, id, s, p) <=> s = b.nodes[h].side /\ p = b.nodes[h].price
    BY <1>1, <1>4
  <1>6. ASSUME Abstract!RestsAt(q, id, s, p)
        PROVE  /\ Abstract!PlaceOf(q, id, s, p) \in 1 .. n
               /\ line[Abstract!PlaceOf(q, id, s, p)] = h
    <2>1. PICK k : k = Abstract!PlaceOf(q, id, s, p)
      OBVIOUS
    <2>2. \E j \in DOMAIN q[s][p] : q[s][p][j].order_id = id
      BY <1>6 DEF Abstract!RestsAt
    <2>3. k \in DOMAIN q[s][p] /\ q[s][p][k].order_id = id
      BY <2>1, <2>2, Zenon DEF Abstract!PlaceOf
    <2> QED
      BY <1>2, <1>3, <2>1, <2>3
  <1> QED
    BY <1>2, <1>3, <1>5, <1>6

(* A node as an order that rests. *)
RestingNode(n) ==
  [order_id |-> n.order_id, account_id |-> n.account_id, side |-> n.side,
   price |-> n.price, qty |-> n.qty]

(* Looking an order up by its id finds what its slot holds. *)
LEMMA OrderOfNode ==
  ASSUME NEW b, ListsOK(b), NEW h \in Active(b), NEW n, n = b.nodes[h]
  PROVE  Abstract!OrderOf(QueuesOf(b), n.order_id) = RestingNode(n)
  <1> DEFINE q == QueuesOf(b)
             id == n.order_id
  <1>1. n.side \in Sides /\ n.price \in Band
    BY ActiveFacts
  <1>2. ASSUME NEW s \in Sides, NEW p \in Band
        PROVE  Abstract!RestsAt(q, id, s, p) <=> s = n.side /\ p = n.price
    <2>1. PICK line, m : QueueAt(b, s, p, line, m)
      BY QueueAtPrice DEF ListsOK
    <2> QED
      BY <2>1, EntryPlace
  <1>3. PICK line, m : QueueAt(b, n.side, n.price, line, m)
    BY <1>1, QueueAtPrice DEF ListsOK
  <1>4. PICK k : k = Abstract!PlaceOf(q, id, n.side, n.price)
    OBVIOUS
  <1>5. k \in 1 .. m /\ line[k] = h
    BY <1>1, <1>2, <1>3, <1>4, EntryPlace
  <1>6. q[n.side][n.price][k] = Entry(b, h)
    <2>1. q[n.side][n.price] = [j \in 1 .. m |-> Entry(b, line[j])]
      BY <1>3 DEF QueueAt, Entries
    <2> QED
      BY <1>5, <2>1
  <1> HIDE DEF q
  <1>7. (CHOOSE s \in Sides : \E p \in Band : Abstract!RestsAt(q, id, s, p)) = n.side
    BY <1>1, <1>2
  <1>8. (CHOOSE p \in Band : Abstract!RestsAt(q, id, n.side, p)) = n.price
    BY <1>1, <1>2
  <1>9. Abstract!OrderOf(q, id)
          = Abstract!RestingAs(q[n.side][n.price][Abstract!PlaceOf(q, id, n.side, n.price)],
                               n.side, n.price)
    BY <1>7, <1>8, Zenon DEF Abstract!OrderOf, Abstract!Sides, Abstract!Band, Sides, Band
  <1>10. Abstract!OrderOf(q, id) = Abstract!RestingAs(Entry(b, h), n.side, n.price)
    BY <1>4, <1>6, <1>9
  <1> QED
    BY <1>10 DEF Abstract!RestingAs, Entry, RestingNode, q

(* The ids in the queues are those in index_. *)
LEMMA LiveIdsIndexed ==
  ASSUME NEW b, ListsOK(b)
  PROVE  /\ \A id \in OrderIds : id \in Abstract!LiveIds(QueuesOf(b)) <=> Contains(b, id)
         /\ Abstract!LiveIds(QueuesOf(b)) \subseteq OrderIds
  <1> DEFINE q == QueuesOf(b)
  <1>1. /\ Abstract!LiveIds(q) \subseteq OrderIds
        /\ \A id \in OrderIds :
             id \in Abstract!LiveIds(q)
               <=> \E s \in Sides, p \in Band : Abstract!RestsAt(q, id, s, p)
    BY DEF Abstract!LiveIds, Abstract!Sides, Abstract!Band, Sides, Band
  <1>2. ASSUME NEW id, NEW s \in Sides, NEW p \in Band, Abstract!RestsAt(q, id, s, p)
        PROVE  id \in OrderIds /\ Contains(b, id)
    <2>1. PICK line, m : QueueAt(b, s, p, line, m)
      BY QueueAtPrice DEF ListsOK
    <2>2. /\ q[s][p] = [k \in 1 .. m |-> Entry(b, line[k])]
          /\ line \in [1 .. m -> Active(b)]
      BY <2>1 DEF QueueAt, Entries
    <2>3. PICK k \in DOMAIN q[s][p] : q[s][p][k].order_id = id
      BY <1>2 DEF Abstract!RestsAt
    <2>4. k \in 1 .. m /\ line[k] \in Active(b) /\ b.nodes[line[k]].order_id = id
      BY <2>2, <2>3 DEF Entry
    <2>5. id \in OrderIds /\ b.index[id] = line[k] /\ line[k] # kNull
      BY <2>4, ActiveFacts
    <2> QED
      BY <2>5 DEF Contains
  <1>3. ASSUME NEW id \in OrderIds, Contains(b, id)
        PROVE  \E s \in Sides, p \in Band : Abstract!RestsAt(q, id, s, p)
    <2>1. PICK h : h = b.index[id]
      OBVIOUS
    <2>2. h \in Active(b) /\ b.nodes[h].order_id = id
      BY <1>3, <2>1 DEF ListsOK, IndexOK
    <2>3. PICK n : n = b.nodes[h]
      OBVIOUS
    <2>4. n.side \in Sides /\ n.price \in Band
      BY <2>2, <2>3, ActiveFacts
    <2>5. PICK line, m : QueueAt(b, n.side, n.price, line, m)
      BY <2>4, QueueAtPrice DEF ListsOK
    <2>6. Abstract!RestsAt(q, id, n.side, n.price)
      BY <2>2, <2>3, <2>4, <2>5, EntryPlace
    <2> QED
      BY <2>4, <2>6
  <1> HIDE DEF q
  <1>4. \A id \in OrderIds : id \in Abstract!LiveIds(q) <=> Contains(b, id)
    BY <1>1, <1>2, <1>3
  <1> QED
    BY <1>1, <1>4 DEF q

-----------------------------------------------------------------------------
(* Lines that grow and close up. *)

(* Appending to a line of n. *)
LEMMA AppendFunction ==
  ASSUME NEW S, NEW n \in Nat, NEW f \in [1 .. n -> S], NEW e \in S
  PROVE  Append(f, e) = [k \in 1 .. n + 1 |-> IF k <= n THEN f[k] ELSE e]
  <1> DEFINE g == [k \in 1 .. n + 1 |-> IF k <= n THEN f[k] ELSE e]
  <1>1. f \in Seq(S) /\ Len(f) = n
    BY FunctionIsSeq
  <1>2. g \in [1 .. n + 1 -> S]
    OBVIOUS
  <1>3. g \in Seq(S) /\ Len(g) = n + 1
    <2> HIDE DEF g
    <2> QED
      BY <1>2, FunctionIsSeq
  <1>4. PICK a : a = Append(f, e)
    OBVIOUS
  <1>5. /\ a \in Seq(S) /\ Len(a) = n + 1
        /\ \A k \in 1 .. n : a[k] = f[k]
        /\ a[n + 1] = e
    BY <1>1, <1>4, AppendProperties
  <1>6. \A k \in 1 .. n + 1 : a[k] = g[k]
    <2> TAKE k \in 1 .. n + 1
    <2>1. k \in 1 .. n \/ k = n + 1
      OBVIOUS
    <2> QED
      BY <1>5, <2>1
  <1> HIDE DEF g
  <1>7. a = g
    BY <1>3, <1>5, <1>6, SeqEqual
  <1> QED
    BY <1>4, <1>7 DEF g

(* line without its at-th slot. *)
Closed(line, at, n) == [k \in 1 .. n - 1 |-> IF k < at THEN line[k] ELSE line[k + 1]]

(* Leaving out one of a line of n. *)
LEMMA LeavingOutFunction ==
  ASSUME NEW S, NEW n \in Nat, NEW f \in [1 .. n -> S], NEW at \in 1 .. n
  PROVE  Abstract!LeavingOut(f, at) = Closed(f, at, n)
  <1> DEFINE g == [k \in 1 .. n - 1 |-> IF k < at THEN f[k] ELSE f[k + 1]]
  <1>1. f \in Seq(S) /\ Len(f) = n
    BY FunctionIsSeq
  <1>2. n - 1 \in Nat /\ g \in [1 .. n - 1 -> S]
    OBVIOUS
  <1>3. g \in Seq(S) /\ Len(g) = n - 1 /\ \A k \in 1 .. n - 1 : g[k] = IF k < at THEN f[k] ELSE f[k + 1]
    <2>1. \A k \in 1 .. n - 1 : g[k] = IF k < at THEN f[k] ELSE f[k + 1]
      OBVIOUS
    <2> HIDE DEF g
    <2> QED
      BY <1>2, <2>1, FunctionIsSeq
  <1>4. PICK x, y : x = SubSeq(f, 1, at - 1) /\ y = SubSeq(f, at + 1, n)
    OBVIOUS
  <1>5. /\ x \in Seq(S) /\ Len(x) = at - 1
        /\ \A k \in 1 .. at - 1 : x[k] = f[k]
    BY <1>4, SubSeqProperties
  <1>6. /\ y \in Seq(S) /\ Len(y) = n - at
        /\ \A k \in 1 .. n - at : y[k] = f[at + k]
    BY <1>4, SubSeqProperties
  <1>7. /\ x \o y \in Seq(S) /\ Len(x \o y) = n - 1
        /\ \A k \in 1 .. n - 1 : (x \o y)[k] = IF k <= at - 1 THEN x[k] ELSE y[k - (at - 1)]
    <2>1. /\ x \o y \in Seq(S)
          /\ Len(x \o y) = Len(x) + Len(y)
          /\ \A k \in 1 .. Len(x) + Len(y) :
               (x \o y)[k] = IF k <= Len(x) THEN x[k] ELSE y[k - Len(x)]
      BY <1>5, <1>6, ConcatProperties
    <2>2. Len(x) = at - 1 /\ Len(x) + Len(y) = n - 1
      BY <1>5, <1>6
    <2> QED
      BY <2>1, <2>2
  <1>8. ASSUME NEW k \in 1 .. n - 1
        PROVE  (x \o y)[k] = g[k]
    <2>1. CASE k < at
      BY <1>3, <1>5, <1>7, <2>1
    <2>2. CASE ~ (k < at)
      <3>1. k - (at - 1) \in 1 .. n - at /\ at + (k - (at - 1)) = k + 1
        BY <2>2
      <3> QED
        BY <1>3, <1>6, <1>7, <2>2, <3>1
    <2> QED
      BY <2>1, <2>2
  <1> HIDE DEF g
  <1>9. x \o y = g
    BY <1>3, <1>7, <1>8, SeqEqual
  <1>10. Abstract!LeavingOut(f, at) = x \o y
    BY <1>1, <1>4 DEF Abstract!LeavingOut
  <1> QED
    BY <1>9, <1>10 DEF g, Closed

-----------------------------------------------------------------------------
(* What becomes of the queues. *)

(* The queue of a level whose list is line. *)
LEMMA QueueFrom ==
  ASSUME NEW c, NEW s \in Sides, NEW p \in Band, NEW l, l = PriceToIndex(p),
         NEW line, NEW n, Follows(c, s, l, line, n)
  PROVE  QueuesOf(c)[s][p] = Entries(c, line, n)
  <1>1. Walk(c, s, l) = line
    BY WalkIs
  <1>2. DOMAIN line = 1 .. n
    BY DEF Follows
  <1>3. QueueOf(c, s, l) = Entries(c, line, n)
    BY <1>1, <1>2 DEF QueueOf, Entry, Entries
  <1> QED
    BY <1>3 DEF QueuesOf

(* A level keeps its queue if its head, its count and its orders stay. *)
LEMMA SameQueue ==
  ASSUME NEW b, ListsOK(b), NEW c, NEW s \in Sides, NEW p \in Band,
         NEW l, l = PriceToIndex(p),
         c.levels[s][l].count = b.levels[s][l].count,
         c.levels[s][l].head = b.levels[s][l].head,
         \A h \in Members(b, s, l) :
           SameOrder(c.nodes[h], b.nodes[h]) /\ c.nodes[h].next = b.nodes[h].next
  PROVE  QueuesOf(c)[s][p] = QueuesOf(b)[s][p]
  <1>1. PICK line, n : QueueAt(b, s, p, line, n)
    BY QueueAtPrice DEF ListsOK
  <1>2. /\ n \in Nat /\ n = b.levels[s][l].count
        /\ line \in [1 .. n -> Active(b)] /\ IsLine(b, s, l, line)
        /\ QueuesOf(b)[s][p] = Entries(b, line, n)
        /\ line = Walk(b, s, l)
    BY <1>1 DEF QueueAt
  <1>3. l \in Levels
    BY BandLevels
  <1>4. line \in [1 .. n -> Members(b, s, l)]
    BY <1>2, <1>3, WalkIsLine DEF ListsOK
  <1>5. n > 0 => c.levels[s][l].head = line[1]
    <2>1. b.levels[s][l].head = (IF n = 0 THEN kNull ELSE line[1])
      BY <1>2 DEF IsLine
    <2> QED
      BY <1>2, <2>1
  <1>6. ASSUME NEW k \in 1 .. n - 1
        PROVE  c.nodes[line[k]].next = line[k + 1]
    <2>1. k \in 1 .. n /\ k # n
      BY <1>2
    <2>2. b.nodes[line[k]].next = line[k + 1]
      BY <1>2, <2>1 DEF IsLine
    <2> QED
      BY <1>4, <2>1, <2>2
  <1>7. QueuesOf(c)[s][p] = Entries(c, line, n)
    <2>1. line \in [1 .. n -> Nat]
      BY <1>4, SlotsNat DEF ListsOK
    <2>2. Follows(c, s, l, line, n)
      BY <1>2, <1>5, <1>6, <2>1 DEF Follows
    <2> QED
      BY <2>2, QueueFrom
  <1>8. \A k \in 1 .. n : Entry(c, line[k]) = Entry(b, line[k])
    BY <1>4 DEF SameOrder, Entry
  <1>9. Entries(c, line, n) = Entries(b, line, n)
    BY <1>8 DEF Entries
  <1> QED
    BY <1>2, <1>7, <1>9

(* What q holds at each side and price. *)
Grid(q) == [s \in Sides |-> [p \in Band |-> q[s][p]]]

(* The queues are what they are at each side and price. *)
LEMMA QueuesEqual ==
  ASSUME NEW c, NEW r, r = Grid(r),
         \A s \in Sides, p \in Band : QueuesOf(c)[s][p] = r[s][p]
  PROVE  QueuesOf(c) = r
  <1>1. QueuesOf(c) = [s \in Sides |-> [p \in Band |-> QueueOf(c, s, PriceToIndex(p))]]
    BY DEF QueuesOf
  <1>2. \A s \in Sides, p \in Band : QueuesOf(c)[s][p] = QueueOf(c, s, PriceToIndex(p))
    BY DEF QueuesOf
  <1>3. QueuesOf(c) = Grid(r)
    BY <1>1, <1>2 DEF Grid
  <1> QED
    BY <1>3

(* Queues with another queue at one side and price. *)
WithQueue(q, s, p, w) == [q EXCEPT ![s][p] = w]

(* They differ from the old ones there only. *)
LEMMA QueueReplaced ==
  ASSUME NEW q, q = Grid(q), NEW s \in Sides, NEW p \in Band, NEW w,
         NEW j, j = WithQueue(q, s, p, w)
  PROVE  /\ \A t \in Sides, r \in Band : j[t][r] = IF t = s /\ r = p THEN w ELSE q[t][r]
         /\ j = Grid(j)
  <1>1. \A t \in Sides : q[t] = [r \in Band |-> q[t][r]]
    BY Zenon DEF Grid
  <1>2. DOMAIN q = Sides
    BY Zenon DEF Grid
  <1>3. PICK u : u = [q[s] EXCEPT ![p] = w]
    OBVIOUS
  <1>4. DOMAIN q[s] = Band
    BY <1>1, Zenon
  <1>5. /\ DOMAIN u = Band /\ u = [r \in Band |-> u[r]]
        /\ \A r \in Band : u[r] = IF r = p THEN w ELSE q[s][r]
    BY <1>3, <1>4
  <1>6. /\ j = [t \in Sides |-> j[t]]
        /\ \A t \in Sides : j[t] = IF t = s THEN u ELSE q[t]
    BY <1>2, <1>3 DEF WithQueue
  <1>7. \A t \in Sides, r \in Band : j[t][r] = IF t = s /\ r = p THEN w ELSE q[t][r]
    BY <1>5, <1>6
  <1>8. \A t \in Sides : j[t] = [r \in Band |-> j[t][r]]
    <2> TAKE t \in Sides
    <2>1. PICK f : f = j[t]
      OBVIOUS
    <2>2. f = [r \in Band |-> f[r]]
      <3>1. CASE t = s
        BY <1>5, <1>6, <2>1, <3>1
      <3>2. CASE t # s
        BY <1>1, <1>6, <2>1, <3>2
      <3> QED
        BY <3>1, <3>2
    <2> QED
      BY <2>1, <2>2
  <1> QED
    BY <1>6, <1>7, <1>8 DEF Grid

(* The other levels stay. *)
LEMMA LevelElsewhere ==
  ASSUME NEW f \in [Sides -> [Levels -> LevelRecords]], NEW s \in Sides, NEW l \in Levels,
         NEW v, NEW g, g = WithQueue(f, s, l, v), NEW t \in Sides, NEW m \in Levels
  PROVE  g[t][m] = IF t = s /\ m = l THEN v ELSE f[t][m]
  BY DEF WithQueue

(* alloc_node and append_to_level put the order at the end of its queue. *)
LEMMA RestedQueues ==
  ASSUME NEW b, ListsOK(b), NEW o, NEW i, NEW c, NEW s, NEW l, NEW lv,
         Rested(b, o, i, c, s, l, lv)
  PROVE  QueuesOf(c) = Abstract!Joined(QueuesOf(b), o)
  <1> DEFINE q == QueuesOf(b)
             e == [order_id |-> o.order_id, account_id |-> o.account_id, qty |-> o.qty]
             p == o.price
  <1>1. /\ b \in Books /\ Restable(o) /\ s = o.side /\ l = PriceToIndex(p)
        /\ i \in Nat \ {0} /\ i \notin Active(b)
        /\ s \in Sides /\ l \in Levels /\ lv \in LevelRecords /\ lv = b.levels[s][l]
        /\ c.levels = [b.levels EXCEPT ![s][l] = LevelWith(lv, i, o.qty)]
        /\ SameOrder(c.nodes[i], NewNode(o))
    BY DEF Rested
  <1>2. p \in Band
    BY <1>1 DEF Restable
  <1>3. PICK line, n : QueueAt(b, s, p, line, n)
    BY <1>1, <1>2, QueueAtPrice DEF ListsOK
  <1>4. /\ n \in Nat /\ n = lv.count /\ line \in [1 .. n -> Active(b)]
        /\ line \in [1 .. n -> Nat]
        /\ q[s][p] = Entries(b, line, n)
        /\ lv.head = (IF n = 0 THEN kNull ELSE line[1])
        /\ lv.tail = (IF n = 0 THEN kNull ELSE line[n])
        /\ \A j, k \in 1 .. n : line[j] = line[k] => j = k
        /\ \A k \in 1 .. n : b.nodes[line[k]].next = (IF k = n THEN kNull ELSE line[k + 1])
    <2>1. /\ n \in Nat /\ n = lv.count /\ line \in [1 .. n -> Active(b)]
          /\ q[s][p] = Entries(b, line, n) /\ IsLine(b, s, l, line)
      BY <1>1, <1>3 DEF QueueAt
    <2>2. Active(b) \subseteq Nat
      BY <1>1, SlotsNat
    <2> QED
      BY <1>1, <2>1, <2>2, ZenonT(40) DEF IsLine
  <1>5. b.levels \in [Sides -> [Levels -> LevelRecords]]
    BY <1>1, BookFields
  <1>6. \A h \in Active(b) : /\ h # i /\ SameOrder(c.nodes[h], b.nodes[h])
                            /\ c.nodes[h].next = IF h = lv.tail THEN i ELSE b.nodes[h].next
    <2>1. \A h \in Active(b) : h \in DOMAIN b.nodes \ {i}
      BY <1>1 DEF Active
    <2> QED
      BY <2>1 DEF Rested
  <1>7. PICK new : new = [k \in 1 .. n + 1 |-> IF k <= n THEN line[k] ELSE i]
    OBVIOUS
  <1>8. /\ new \in [1 .. n + 1 -> Nat]
        /\ \A k \in 1 .. n : new[k] = line[k]
        /\ new[n + 1] = i
    <2>1. \A k \in 1 .. n : k \in 1 .. n + 1 /\ k <= n /\ line[k] \in Nat
      BY <1>4
    <2>2. n + 1 \in 1 .. n + 1 /\ ~ (n + 1 <= n)
      BY <1>4
    <2>3. \A k \in 1 .. n + 1 : k \in 1 .. n \/ k = n + 1
      BY <1>4
    <2>4. \A k \in 1 .. n + 1 : new[k] = IF k <= n THEN line[k] ELSE i
      BY <1>7
    <2>5. \A k \in 1 .. n + 1 : new[k] \in Nat
      BY <1>1, <2>1, <2>2, <2>3, <2>4
    <2> QED
      BY <1>7, <2>1, <2>2, <2>4, <2>5
  <1>9. Follows(c, s, l, new, n + 1)
    <2>1. /\ c.levels[s][l].count = n + 1
          /\ c.levels[s][l].head = IF lv.tail = kNull THEN i ELSE lv.head
      <3>1. c.levels[s][l] = LevelWith(lv, i, o.qty)
        BY <1>1, <1>5
      <3> QED
        BY <1>4, <3>1 DEF LevelWith
    <2>2. c.levels[s][l].head = new[1]
      <3>1. CASE n = 0
        BY <1>4, <1>8, <2>1, <3>1
      <3>2. CASE n # 0
        <4>1. n \in 1 .. n /\ 1 \in 1 .. n
          BY <1>4, <3>2
        <4>2. lv.tail \in Active(b)
          BY <1>4, <3>2, <4>1
        <4>3. lv.tail # kNull
          BY <1>1, <4>2, SlotsNat
        <4> QED
          BY <1>4, <1>8, <2>1, <3>2, <4>1, <4>3
      <3> QED
        BY <3>1, <3>2
    <2>3. ASSUME NEW k \in 1 .. n
          PROVE  c.nodes[new[k]].next = new[k + 1]
      <3>0. n \in Nat /\ line \in [1 .. n -> Active(b)]
        BY <1>4
      <3>1. line[k] \in Active(b) /\ new[k] = line[k] /\ n # 0 /\ n \in 1 .. n
        BY <3>0, <1>8
      <3>2. c.nodes[line[k]].next = IF line[k] = lv.tail THEN i ELSE b.nodes[line[k]].next
        BY <1>6, <3>1
      <3>3. CASE k = n
        BY <1>4, <1>8, <3>1, <3>2, <3>3
      <3>4. CASE k # n
        <4>1. k + 1 \in 1 .. n
          BY <1>4, <3>4
        <4>2. line[k] # lv.tail
          BY <1>4, <3>1, <3>4
        <4> QED
          BY <1>4, <1>8, <3>1, <3>2, <3>4, <4>1, <4>2
      <3> QED
        BY <3>3, <3>4
    <2>4. n + 1 \in Nat /\ (n + 1) - 1 = n
      BY <1>4
    <2> QED
      BY <1>8, <2>1, <2>2, <2>3, <2>4 DEF Follows
  <1>10. QueuesOf(c)[s][p] = Entries(c, new, n + 1)
    BY <1>1, <1>2, <1>9, QueueFrom
  <1>11. /\ \A k \in 1 .. n : Entry(c, new[k]) = Entry(b, line[k])
         /\ Entry(c, new[n + 1]) = e
    <2>1. Entry(c, i) = e
      BY <1>1 DEF SameOrder, NewNode, Entry
    <2>2. \A h \in Active(b) : Entry(c, h) = Entry(b, h)
      BY <1>6 DEF SameOrder, Entry
    <2> QED
      BY <1>4, <1>8, <2>1, <2>2
  <1>12. QueuesOf(c)[s][p] = Append(q[s][p], e)
    <2> DEFINE S == {Entry(b, line[k]) : k \in 1 .. n} \cup {e}
    <2>1. Entries(b, line, n) \in [1 .. n -> S] /\ e \in S
      BY DEF Entries
    <2>2. Append(Entries(b, line, n), e)
            = [k \in 1 .. n + 1 |-> IF k <= n THEN Entries(b, line, n)[k] ELSE e]
      <3> HIDE DEF S, e
      <3> QED
        BY <1>4, <2>1, AppendFunction
    <2>3. \A k \in 1 .. n + 1 : Entry(c, new[k]) = IF k <= n THEN Entries(b, line, n)[k] ELSE e
      <3> TAKE k \in 1 .. n + 1
      <3>1. k \in 1 .. n \/ k = n + 1
        BY <1>4
      <3> HIDE DEF e
      <3> QED
        BY <1>4, <1>11, <3>1 DEF Entries
    <2>4. Entries(c, new, n + 1) = Append(Entries(b, line, n), e)
      <3> HIDE DEF e
      <3> QED
        BY <2>2, <2>3 DEF Entries
    <2> QED
      BY <1>4, <1>10, <2>4
  <1>13. ASSUME NEW t \in Sides, NEW r \in Band, ~ (t = s /\ r = p)
         PROVE  QueuesOf(c)[t][r] = q[t][r]
    <2>1. PICK m : m = PriceToIndex(r)
      OBVIOUS
    <2>2. m \in Levels /\ (t # s \/ m # l)
      BY <1>1, <1>2, <1>13, <2>1, BandLevels
    <2>3. c.levels[t][m] = b.levels[t][m]
      BY <1>1, <1>5, <2>2
    <2>4. \A h \in Members(b, t, m) : h \in Active(b) /\ h # lv.tail
      <3>1. lv.tail # kNull => lv.tail \in Members(b, s, l)
        <4>1. Walk(b, s, l) \in [1 .. n -> Members(b, s, l)] /\ line = Walk(b, s, l)
          BY <1>1, <1>3, <1>4, WalkIsLine DEF ListsOK, QueueAt
        <4> QED
          BY <1>4, <4>1
      <3>2. \A h \in Members(b, t, m) : h \in Active(b) /\ h # kNull
        BY <1>1, SlotsNat
      <3> QED
        BY <2>2, <3>1, <3>2 DEF Members
    <2>5. \A h \in Members(b, t, m) :
            SameOrder(c.nodes[h], b.nodes[h]) /\ c.nodes[h].next = b.nodes[h].next
      BY <1>6, <2>4
    <2> QED
      BY <2>1, <2>3, <2>5, SameQueue
  <1>14. Abstract!Joined(q, o) = [q EXCEPT ![s][p] = Append(@, e)]
    BY <1>1 DEF Abstract!Joined
  <1>15. q = Grid(q)
    BY DEF QueuesOf, Grid
  <1> HIDE DEF q, e, p
  <1>16. /\ \A t \in Sides, r \in Band :
              Abstract!Joined(q, o)[t][r] = IF t = s /\ r = p THEN Append(q[s][p], e) ELSE q[t][r]
         /\ Abstract!Joined(q, o) = Grid(Abstract!Joined(q, o))
    <2>1. PICK w, j : w = Append(q[s][p], e) /\ j = Abstract!Joined(q, o)
      OBVIOUS
    <2>2. j = WithQueue(q, s, p, w)
      BY <1>14, <2>1 DEF WithQueue
    <2>3. /\ \A t \in Sides, r \in Band : j[t][r] = IF t = s /\ r = p THEN w ELSE q[t][r]
          /\ j = Grid(j)
      <3>1. s \in Sides
        BY <1>1
      <3> QED
        BY <1>2, <1>15, <2>2, <3>1, QueueReplaced
    <2> QED
      BY <2>1, <2>3
  <1>17. \A t \in Sides, r \in Band : QueuesOf(c)[t][r] = Abstract!Joined(q, o)[t][r]
    BY <1>12, <1>13, <1>16
  <1>18. QueuesOf(c) = Abstract!Joined(q, o)
    BY <1>16, <1>17, QueuesEqual
  <1> QED
    BY <1>18 DEF q

(* A line read off its queue: no slot twice, each followed by the next. *)
LineFacts(b, s, p, line, n) ==
  /\ line \in [1 .. n -> Active(b)] /\ line \in [1 .. n -> Nat]
  /\ line \in [1 .. n -> Members(b, s, PriceToIndex(p))]
  /\ n \in Nat /\ n = b.levels[s][PriceToIndex(p)].count
  /\ QueuesOf(b)[s][p] = Entries(b, line, n)
  /\ \A j, k \in 1 .. n : line[j] = line[k] => j = k
  /\ b.levels[s][PriceToIndex(p)].head = (IF n = 0 THEN kNull ELSE line[1])
  /\ \A k \in 1 .. n :
       /\ b.nodes[line[k]].prev = (IF k = 1 THEN kNull ELSE line[k - 1])
       /\ b.nodes[line[k]].next = (IF k = n THEN kNull ELSE line[k + 1])
       /\ line[k] # kNull

(* A queue gives these facts of its line. *)
LEMMA QueueLine ==
  ASSUME NEW b, ListsOK(b), NEW s \in Sides, NEW p \in Band, NEW line, NEW n,
         QueueAt(b, s, p, line, n)
  PROVE  LineFacts(b, s, p, line, n)
  <1>1. PICK l : l = PriceToIndex(p)
    OBVIOUS
  <1>2. /\ n \in Nat /\ n = b.levels[s][l].count /\ line \in [1 .. n -> Active(b)]
        /\ QueuesOf(b)[s][p] = Entries(b, line, n) /\ IsLine(b, s, l, line)
        /\ line = Walk(b, s, l)
    BY <1>1 DEF QueueAt
  <1>3. l \in Levels
    BY <1>1, BandLevels
  <1>4. line \in [1 .. n -> Members(b, s, l)]
    BY <1>2, <1>3, WalkIsLine DEF ListsOK
  <1>5. Active(b) \subseteq Nat \ {kNull}
    BY SlotsNat DEF ListsOK
  <1>6. line \in [1 .. n -> Nat] /\ \A k \in 1 .. n : line[k] # kNull
    BY <1>2, <1>5
  <1>7. /\ \A j, k \in 1 .. n : line[j] = line[k] => j = k
        /\ b.levels[s][l].head = (IF n = 0 THEN kNull ELSE line[1])
        /\ \A k \in 1 .. n :
             /\ b.nodes[line[k]].prev = (IF k = 1 THEN kNull ELSE line[k - 1])
             /\ b.nodes[line[k]].next = (IF k = n THEN kNull ELSE line[k + 1])
    BY <1>2 DEF IsLine
  <1> QED
    BY <1>1, <1>2, <1>4, <1>6, <1>7 DEF LineFacts

(***************************************************************************)
(* c is b without the order in slot i, which is node n on level l of side  *)
(* s, as far as the queues tell: its neighbours are joined, the other      *)
(* orders and levels stay.                                                 *)
(***************************************************************************)
TakenOut(b, i, c, s, l, n) ==
  /\ b \in Books /\ i \in Active(b) /\ n = b.nodes[i]
  /\ s = n.side /\ l = n.level_idx /\ s \in Sides /\ l \in Levels
  /\ \A h \in Active(b) \ {i} :
       /\ SameOrder(c.nodes[h], b.nodes[h])
       /\ c.nodes[h].next = IF h = n.prev THEN n.next ELSE b.nodes[h].next
  /\ c.levels[s][l].count =
       IF b.levels[s][l].count <= 1 THEN 0 ELSE b.levels[s][l].count - 1
  /\ b.levels[s][l].count > 1 =>
       c.levels[s][l].head = IF n.prev = kNull THEN n.next ELSE b.levels[s][l].head
  /\ \A t \in Sides, g \in Levels : ~ (t = s /\ g = l) =>
       /\ c.levels[t][g].count = b.levels[t][g].count
       /\ c.levels[t][g].head = b.levels[t][g].head

(* remove_node takes the order out. *)
LEMMA RemovedTakenOut ==
  ASSUME NEW b, NEW i, NEW qty, NEW c, NEW s, NEW l, NEW lv, NEW n,
         Removed(b, i, qty, c, s, l, lv, n)
  PROVE  TakenOut(b, i, c, s, l, n)
  <1>1. /\ b \in Books /\ i \in Active(b) /\ n = b.nodes[i]
        /\ s = n.side /\ l = n.level_idx /\ s \in Sides /\ l \in Levels
        /\ lv \in LevelRecords /\ lv = b.levels[s][l]
        /\ c.levels = [b.levels EXCEPT ![s][l] = LevelWithout(lv, n.prev, n.next, qty)]
    BY DEF Removed
  <1>2. \A h \in Active(b) \ {i} :
          /\ SameOrder(c.nodes[h], b.nodes[h])
          /\ c.nodes[h].next = IF h = n.prev THEN n.next ELSE b.nodes[h].next
    BY DEF Removed, Active
  <1>3. PICK v, old, new : /\ v = LevelWithout(lv, n.prev, n.next, qty)
                           /\ old = b.levels /\ new = c.levels
    OBVIOUS
  <1>4. /\ old \in [Sides -> [Levels -> LevelRecords]] /\ s \in Sides /\ l \in Levels
        /\ new = WithQueue(old, s, l, v)
    BY <1>1, <1>3, BookFields DEF WithQueue
  <1>5. \A t \in Sides, g \in Levels : new[t][g] = IF t = s /\ g = l THEN v ELSE old[t][g]
    BY <1>4, LevelElsewhere
  <1>6. /\ v.count = IF lv.count <= 1 THEN 0 ELSE lv.count - 1
        /\ lv.count > 1 => v.head = IF n.prev = kNull THEN n.next ELSE lv.head
    <2>1. lv.count \in Nat
      BY <1>1 DEF LevelRecords
    <2>2. CASE lv.count <= 1
      BY <1>3, <2>1, <2>2 DEF LevelWithout, EmptyLevel
    <2>3. CASE ~ (lv.count <= 1)
      BY <1>3, <2>1, <2>3 DEF LevelWithout
    <2> QED
      BY <2>1, <2>2, <2>3
  <1>7. new[s][l] = v /\ old[s][l] = lv
    BY <1>1, <1>3, <1>5
  <1>8. /\ new[s][l].count = IF old[s][l].count <= 1 THEN 0 ELSE old[s][l].count - 1
        /\ old[s][l].count > 1 =>
             new[s][l].head = IF n.prev = kNull THEN n.next ELSE old[s][l].head
    BY <1>6, <1>7
  <1>9. \A t \in Sides, g \in Levels : ~ (t = s /\ g = l) =>
          new[t][g].count = old[t][g].count /\ new[t][g].head = old[t][g].head
    BY <1>5
  <1>10. old = b.levels /\ new = c.levels
    BY <1>3
  <1>11. /\ c.levels[s][l].count =
             IF b.levels[s][l].count <= 1 THEN 0 ELSE b.levels[s][l].count - 1
         /\ b.levels[s][l].count > 1 =>
              c.levels[s][l].head = IF n.prev = kNull THEN n.next ELSE b.levels[s][l].head
         /\ \A t \in Sides, g \in Levels : ~ (t = s /\ g = l) =>
              /\ c.levels[t][g].count = b.levels[t][g].count
              /\ c.levels[t][g].head = b.levels[t][g].head
    BY <1>8, <1>9, <1>10, Zenon
  <1> QED
    BY <1>1, <1>2, <1>11, Zenon DEF TakenOut

(* What is left of the line of the order. *)
LEMMA ClosedFollows ==
  ASSUME NEW b, NEW i, NEW c, NEW s, NEW l, NEW n, TakenOut(b, i, c, s, l, n),
         NEW p, l = PriceToIndex(p), NEW line, NEW m, LineFacts(b, s, p, line, m),
         NEW at \in 1 .. m, line[at] = i
  PROVE  Follows(c, s, l, Closed(line, at, m), m - 1)
  <1>0. PICK lv : lv = b.levels[s][l]
    OBVIOUS
  <1>1. /\ m \in Nat /\ m = lv.count /\ line \in [1 .. m -> Nat] /\ line \in [1 .. m -> Active(b)]
        /\ lv.head = (IF m = 0 THEN kNull ELSE line[1])
        /\ \A j, k \in 1 .. m : line[j] = line[k] => j = k
        /\ \A k \in 1 .. m : /\ b.nodes[line[k]].next = (IF k = m THEN kNull ELSE line[k + 1])
                             /\ line[k] # kNull
        /\ n.prev = (IF at = 1 THEN kNull ELSE line[at - 1])
        /\ n.next = (IF at = m THEN kNull ELSE line[at + 1])
    BY <1>0, ZenonT(40) DEF LineFacts, TakenOut
  <1>2. /\ c.levels[s][l].count = IF m <= 1 THEN 0 ELSE m - 1
        /\ m > 1 => c.levels[s][l].head = IF n.prev = kNull THEN n.next ELSE lv.head
    BY <1>0, <1>1 DEF TakenOut
  <1>3. \A h \in Active(b) \ {i} :
          c.nodes[h].next = IF h = n.prev THEN n.next ELSE b.nodes[h].next
    BY DEF TakenOut
  <1>4. PICK new : new = Closed(line, at, m)
    OBVIOUS
  <1>5. \A k \in 1 .. m - 1 : new[k] = IF k < at THEN line[k] ELSE line[k + 1]
    BY <1>4 DEF Closed
  <1>6. \A k \in 1 .. m - 1 : k \in 1 .. m /\ k + 1 \in 1 .. m
    BY <1>1
  <1>7. new \in [1 .. m - 1 -> Nat]
    <2>1. \A k \in 1 .. m - 1 : new[k] \in Nat
      BY <1>1, <1>5, <1>6, ZenonT(40)
    <2> QED
      BY <1>4, <2>1 DEF Closed
  <1>8. c.levels[s][l].count = m - 1
    BY <1>1, <1>2
  <1>9. m - 1 > 0 => c.levels[s][l].head = new[1]
    <2> SUFFICES ASSUME m > 1 PROVE c.levels[s][l].head = new[1]
      BY <1>1
    <2>1. c.levels[s][l].head = IF n.prev = kNull THEN n.next ELSE lv.head
      BY <1>2
    <2>2. 1 \in 1 .. m /\ 1 \in 1 .. m - 1
      BY <1>1
    <2>3. CASE at = 1
      BY <1>1, <1>5, <2>1, <2>2, <2>3
    <2>4. CASE at # 1
      <3>1. at - 1 \in 1 .. m /\ 1 < at
        BY <1>1, <2>4
      <3>2. n.prev # kNull
        BY <1>1, <2>4, <3>1
      <3> QED
        BY <1>1, <1>5, <2>1, <2>2, <3>1, <3>2
    <2> QED
      BY <2>3, <2>4
  <1>10. ASSUME NEW k \in 1 .. (m - 1) - 1
         PROVE  c.nodes[new[k]].next = new[k + 1]
    <2>1. k \in 1 .. m /\ k + 1 \in 1 .. m /\ k + 2 \in 1 .. m
          /\ k \in 1 .. m - 1 /\ k + 1 \in 1 .. m - 1 /\ k # m /\ k + 1 # m
      BY <1>1
    <2>2. CASE k < at - 1
      <3>1. new[k] = line[k] /\ new[k + 1] = line[k + 1] /\ at # 1 /\ at - 1 \in 1 .. m
            /\ k # at - 1 /\ k # at
        BY <1>1, <1>5, <2>1, <2>2
      <3>2. line[k] # line[at] /\ line[k] # line[at - 1]
        BY <1>1, <2>1, <3>1
      <3>3. line[k] \in Active(b) \ {i} /\ line[k] # n.prev
        BY <1>1, <2>1, <3>1, <3>2
      <3>4. b.nodes[line[k]].next = line[k + 1]
        BY <1>1, <2>1
      <3>5. c.nodes[line[k]].next = b.nodes[line[k]].next
        BY <1>3, <3>3
      <3> QED
        BY <3>1, <3>4, <3>5
    <2>3. CASE k = at - 1
      <3>1. /\ new[k] = line[at - 1] /\ new[k + 1] = line[at + 1] /\ at # 1 /\ at # m
            /\ at - 1 \in 1 .. m
        BY <1>1, <1>5, <2>1, <2>3
      <3>2. line[at - 1] # line[at]
        BY <1>1, <3>1
      <3>3. line[at - 1] \in Active(b) \ {i} /\ line[at - 1] = n.prev
        BY <1>1, <3>1, <3>2
      <3>4. n.next = line[at + 1]
        BY <1>1, <3>1
      <3>5. c.nodes[line[at - 1]].next = n.next
        BY <1>3, <3>3
      <3> QED
        BY <3>1, <3>4, <3>5
    <2>4. CASE k > at - 1
      <3>1. new[k] = line[k + 1] /\ new[k + 1] = line[k + 2] /\ k + 1 # at
            /\ (at # 1 => at - 1 \in 1 .. m /\ k + 1 # at - 1)
        BY <1>1, <1>5, <2>1, <2>4
      <3>2. line[k + 1] # line[at] /\ (at # 1 => line[k + 1] # line[at - 1])
        BY <1>1, <2>1, <3>1
      <3>3. line[k + 1] \in Active(b) \ {i} /\ line[k + 1] # n.prev
        BY <1>1, <2>1, <3>2
      <3>4. b.nodes[line[k + 1]].next = line[k + 2]
        <4>1. (k + 1) + 1 = k + 2
          OBVIOUS
        <4> QED
          BY <1>1, <2>1, <4>1
      <3> QED
        BY <1>3, <3>1, <3>3, <3>4
    <2> QED
      BY <1>1, <2>2, <2>3, <2>4
  <1>11. m - 1 \in Nat
    BY <1>1
  <1>12. Follows(c, s, l, new, m - 1)
    BY <1>7, <1>8, <1>9, <1>10, <1>11 DEF Follows
  <1> QED
    BY <1>4, <1>12

(* The order is out of its queue. *)
LEMMA TakenOutQueues ==
  ASSUME NEW b, ListsOK(b), NEW i, NEW c, NEW s, NEW l, NEW n,
         TakenOut(b, i, c, s, l, n), NEW q, q = QueuesOf(b),
         NEW id, id = n.order_id, NEW p, p = n.price
  PROVE  QueuesOf(c) = Abstract!Without(q, id)
  <1>1. /\ b \in Books /\ i \in Active(b) /\ n = b.nodes[i]
        /\ s = n.side /\ l = n.level_idx /\ s \in Sides /\ l \in Levels
    BY DEF TakenOut
  <1>2. p \in Band /\ l = PriceToIndex(p)
    BY <1>1 DEF ListsOK, PlacedOK
  <1>3. PICK line, m : QueueAt(b, s, p, line, m)
    BY <1>1, <1>2, QueueAtPrice DEF ListsOK
  <1>4. LineFacts(b, s, p, line, m)
    BY <1>1, <1>2, <1>3, QueueLine
  <1>5. PICK at : at = Abstract!PlaceOf(q, id, s, p)
    OBVIOUS
  <1>6. at \in 1 .. m /\ line[at] = i /\ Abstract!RestsAt(q, id, s, p)
    BY <1>1, <1>2, <1>3, <1>5, EntryPlace
  <1>7. Follows(c, s, l, Closed(line, at, m), m - 1)
    BY <1>2, <1>4, <1>6, ClosedFollows
  <1>8. QueuesOf(c)[s][p] = Entries(c, Closed(line, at, m), m - 1)
    BY <1>1, <1>2, <1>7, QueueFrom
  <1>9. /\ m \in Nat /\ line \in [1 .. m -> Active(b)] /\ q[s][p] = Entries(b, line, m)
        /\ \A j, k \in 1 .. m : line[j] = line[k] => j = k
    BY <1>4 DEF LineFacts
  <1>10. \A h \in Active(b) \ {i} :
           /\ SameOrder(c.nodes[h], b.nodes[h]) /\ Entry(c, h) = Entry(b, h)
           /\ c.nodes[h].next = IF h = n.prev THEN n.next ELSE b.nodes[h].next
    BY ZenonT(40) DEF TakenOut, SameOrder, Entry
  <1>11. Entries(c, Closed(line, at, m), m - 1) = Abstract!LeavingOut(Entries(b, line, m), at)
    <2>0. PICK old, S : old = Entries(b, line, m) /\ S = {Entry(b, line[k]) : k \in 1 .. m}
      OBVIOUS
    <2>1. old \in [1 .. m -> S]
      BY <2>0 DEF Entries
    <2>2. Abstract!LeavingOut(old, at) = Closed(old, at, m)
      BY <1>6, <1>9, <2>1, LeavingOutFunction
    <2>3. ASSUME NEW k \in 1 .. m - 1
          PROVE  Entry(c, Closed(line, at, m)[k]) = IF k < at THEN old[k] ELSE old[k + 1]
      <3>1. k \in 1 .. m /\ k + 1 \in 1 .. m
        BY <1>9
      <3>2. CASE k < at
        <4>1. Closed(line, at, m)[k] = line[k] /\ line[k] \in Active(b) \ {i}
          BY <1>6, <1>9, <3>1, <3>2 DEF Closed
        <4> QED
          BY <1>10, <2>0, <3>1, <3>2, <4>1 DEF Entries
      <3>3. CASE ~ (k < at)
        <4>1. Closed(line, at, m)[k] = line[k + 1] /\ line[k + 1] \in Active(b) \ {i}
          BY <1>6, <1>9, <3>1, <3>3 DEF Closed
        <4> QED
          BY <1>10, <2>0, <3>1, <3>3, <4>1 DEF Entries
      <3> QED
        BY <3>2, <3>3
    <2>4. Entries(c, Closed(line, at, m), m - 1) = Abstract!LeavingOut(old, at)
      BY <2>2, <2>3 DEF Entries, Closed
    <2> QED
      BY <2>0, <2>4
  <1>12. ASSUME NEW t \in Sides, NEW r \in Band, ~ (t = s /\ r = p)
         PROVE  QueuesOf(c)[t][r] = q[t][r]
    <2>1. PICK g : g = PriceToIndex(r)
      OBVIOUS
    <2>2. g \in Levels /\ (t # s \/ g # l)
      BY <1>1, <1>2, <1>12, <2>1, BandLevels
    <2>3. /\ c.levels[t][g].count = b.levels[t][g].count
          /\ c.levels[t][g].head = b.levels[t][g].head
      BY <2>2 DEF TakenOut
    <2>4. \A h \in Members(b, t, g) : h \in Active(b) /\ h # n.prev /\ h # i
      <3>1. n.prev # kNull => n.prev \in Members(b, s, l)
        <4>1. /\ n.prev = (IF at = 1 THEN kNull ELSE line[at - 1])
              /\ line \in [1 .. m -> Members(b, s, l)]
          BY <1>1, <1>2, <1>4, <1>6 DEF LineFacts
        <4>2. at # 1 => at - 1 \in 1 .. m
          BY <1>6, <1>9
        <4> QED
          BY <4>1, <4>2
      <3>2. \A h \in Members(b, t, g) : h \in Active(b) /\ h # kNull
        BY <1>1, SlotsNat
      <3> QED
        BY <1>1, <2>2, <3>1, <3>2 DEF Members
    <2>5. \A h \in Members(b, t, g) :
            SameOrder(c.nodes[h], b.nodes[h]) /\ c.nodes[h].next = b.nodes[h].next
      BY <1>10, <2>4
    <2> QED
      BY <2>1, <2>3, <2>5, SameQueue
  <1>13. PICK left : left = Abstract!Without(q, id)
    OBVIOUS
  <1>14. /\ left = Grid(left)
         /\ \A t \in Sides, r \in Band :
              left[t][r] = IF Abstract!RestsAt(q, id, t, r)
                           THEN Abstract!LeavingOut(q[t][r], Abstract!PlaceOf(q, id, t, r))
                           ELSE q[t][r]
    BY <1>13 DEF Abstract!Without, Abstract!Sides, Abstract!Band, Sides, Band, Grid
  <1>15. ASSUME NEW t \in Sides, NEW r \in Band
         PROVE  QueuesOf(c)[t][r] = left[t][r]
    <2>1. Abstract!RestsAt(q, id, t, r) <=> t = s /\ r = p
      <3>1. PICK x, y : QueueAt(b, t, r, x, y)
        BY QueueAtPrice DEF ListsOK
      <3> QED
        <4>1. i \in Active(b) /\ id = b.nodes[i].order_id /\ s = b.nodes[i].side
              /\ p = b.nodes[i].price
          BY <1>1
        <4> QED
          BY <3>1, <4>1, EntryPlace
    <2>2. CASE t = s /\ r = p
      BY <1>5, <1>8, <1>9, <1>11, <1>14, <2>1, <2>2
    <2>3. CASE ~ (t = s /\ r = p)
      BY <1>12, <1>14, <2>1, <2>3
    <2> QED
      BY <2>2, <2>3
  <1>16. QueuesOf(c) = left
    BY <1>14, <1>15, QueuesEqual
  <1> QED
    BY <1>13, <1>16

(* c is b with the order in slot i, which is node n, filled by done of its qty. *)
FilledBy(b, i, n, done, y, c) ==
  /\ ListsOK(b) /\ i \in Active(b) /\ n = b.nodes[i]
  /\ done \in Nat /\ done <= n.qty /\ y \in Qty
  /\ Reduced(b, i, n.qty - done, y, c)

(* An entry with done less to fill. *)
Filled(e, done) == [e EXCEPT !.qty = @ - done]

(* c has the lists of b and its orders but for the one in slot i. *)
KeepsLists(b, c, i) ==
  /\ \A h \in Active(b) : c.nodes[h].next = b.nodes[h].next
  /\ \A h \in Active(b) \ {i} : c.nodes[h] = b.nodes[h]
  /\ \A t \in Sides, g \in Levels :
       /\ c.levels[t][g].count = b.levels[t][g].count
       /\ c.levels[t][g].head = b.levels[t][g].head

(* A fill changes the node of the order and the total of its level. *)
LEMMA FilledFields ==
  ASSUME NEW b, NEW i, NEW n, NEW done, NEW y, NEW c, FilledBy(b, i, n, done, y, c),
         NEW s, s = n.side, NEW l, l = n.level_idx
  PROVE  /\ s \in Sides /\ l \in Levels /\ n.price \in Band /\ l = PriceToIndex(n.price)
         /\ KeepsLists(b, c, i)
         /\ Entry(c, i) = Filled(Entry(b, i), done)
  <1>0. ListsOK(b) /\ i \in Active(b) /\ n = b.nodes[i] /\ b \in Books
    BY DEF FilledBy, ListsOK
  <1>1. /\ n \in Nodes /\ s \in Sides /\ i \in DOMAIN b.nodes /\ l \in Levels
        /\ n.price \in Band /\ l = PriceToIndex(n.price)
    BY <1>0, ActiveFacts DEF Nodes, ListsOK, PlacedOK
  <1>6. PICK x, v : x = [n EXCEPT !.qty = n.qty - done]
                  /\ v = [b.levels[s][l] EXCEPT !.total_qty = y]
    OBVIOUS
  <1>7. b.levels \in [Sides -> [Levels -> LevelRecords]] /\ b.levels[s][l] \in LevelRecords
    BY <1>0, <1>1, BookFields
  <1>2. /\ c.nodes = [b.nodes EXCEPT ![i] = x]
        /\ c.levels = WithQueue(b.levels, s, l, v)
    <2>1. Reduced(b, i, n.qty - done, y, c)
      BY DEF FilledBy
    <2> QED
      BY <1>0, <1>1, <1>6, <1>7, <2>1 DEF Reduced, Books, WithQueue
  <1>3. /\ \A h \in Active(b) : c.nodes[h].next = b.nodes[h].next
        /\ \A h \in Active(b) \ {i} : c.nodes[h] = b.nodes[h]
    <2>1. c.nodes[i] = x
      BY <1>1, <1>2
    <2>2. c.nodes[i].next = n.next
      BY <1>1, <1>6, <2>1 DEF Nodes
    <2>3. \A h \in DOMAIN b.nodes \ {i} : c.nodes[h] = b.nodes[h]
      BY <1>2
    <2> QED
      BY <1>0, <2>2, <2>3 DEF Active
  <1>4. Entry(c, i) = Filled(Entry(b, i), done)
    <2>1. c.nodes[i] = x
      BY <1>1, <1>2
    <2>2. /\ c.nodes[i].order_id = n.order_id /\ c.nodes[i].account_id = n.account_id
          /\ c.nodes[i].qty = n.qty - done
      BY <1>1, <1>6, <2>1 DEF Nodes
    <2> QED
      BY <1>0, <2>2 DEF Entry, Filled
  <1>5. \A t \in Sides, g \in Levels :
          /\ c.levels[t][g].count = b.levels[t][g].count
          /\ c.levels[t][g].head = b.levels[t][g].head
    <2> TAKE t \in Sides, g \in Levels
    <2>1. c.levels[t][g] = IF t = s /\ g = l THEN v ELSE b.levels[t][g]
      BY <1>1, <1>2, <1>7, LevelElsewhere
    <2>2. v.count = b.levels[s][l].count /\ v.head = b.levels[s][l].head
      BY <1>6, <1>7 DEF LevelRecords
    <2> QED
      BY <2>1, <2>2
  <1> QED
    BY <1>1, <1>3, <1>4, <1>5 DEF KeepsLists

(* A partial fill leaves the order its place, with less to fill. *)
LEMMA ReducedQueues ==
  ASSUME NEW b, NEW i, NEW n, NEW done, NEW y, NEW c, FilledBy(b, i, n, done, y, c),
         done < n.qty, NEW q, q = QueuesOf(b), NEW id, id = n.order_id
  PROVE  QueuesOf(c) = Abstract!Reduced(q, id, done)
  <1>0. PICK s, p, l : s = n.side /\ p = n.price /\ l = n.level_idx
    OBVIOUS
  <1>3. /\ s \in Sides /\ l \in Levels /\ n.price \in Band /\ l = PriceToIndex(n.price)
        /\ KeepsLists(b, c, i) /\ Entry(c, i) = Filled(Entry(b, i), done)
    BY <1>0, FilledFields
  <1>1. /\ ListsOK(b) /\ i \in Active(b) /\ n = b.nodes[i] /\ s \in Sides /\ p \in Band
        /\ l \in Levels /\ l = PriceToIndex(p)
    BY <1>0, <1>3 DEF FilledBy
  <1>2. /\ \A h \in Active(b) : c.nodes[h].next = b.nodes[h].next
        /\ \A h \in Active(b) \ {i} : c.nodes[h] = b.nodes[h]
        /\ \A t \in Sides, g \in Levels :
             /\ c.levels[t][g].count = b.levels[t][g].count
             /\ c.levels[t][g].head = b.levels[t][g].head
    BY <1>3 DEF KeepsLists
  <1>6. PICK line, m : QueueAt(b, s, p, line, m)
    BY <1>1, QueueAtPrice DEF ListsOK
  <1>7. LineFacts(b, s, p, line, m)
    BY <1>1, <1>6, QueueLine
  <1>8. Follows(c, s, l, line, m)
    <2>1. /\ m \in Nat /\ m = b.levels[s][l].count /\ line \in [1 .. m -> Nat]
          /\ line \in [1 .. m -> Active(b)]
          /\ b.levels[s][l].head = (IF m = 0 THEN kNull ELSE line[1])
          /\ \A k \in 1 .. m : b.nodes[line[k]].next = (IF k = m THEN kNull ELSE line[k + 1])
      BY <1>1, <1>7 DEF LineFacts
    <2>5. c.levels[s][l].head = b.levels[s][l].head /\ c.levels[s][l].count = b.levels[s][l].count
      BY <1>1, <1>2
    <2>2. m > 0 => c.levels[s][l].head = line[1]
      <3>1. b.levels[s][l].head = (IF m = 0 THEN kNull ELSE line[1])
        BY <2>1
      <3> QED
        BY <2>5, <3>1
    <2>3. ASSUME NEW k \in 1 .. m - 1
          PROVE  c.nodes[line[k]].next = line[k + 1]
      <3>1. k \in 1 .. m /\ k # m
        <4>1. m \in Nat
          BY <2>1
        <4> QED
          BY <4>1
      <3>2. line[k] \in Active(b) /\ b.nodes[line[k]].next = line[k + 1]
        <4>1. line \in [1 .. m -> Active(b)]
          BY <2>1
        <4>2. \A h \in 1 .. m : b.nodes[line[h]].next = (IF h = m THEN kNull ELSE line[h + 1])
          BY <2>1
        <4> QED
          BY <3>1, <4>1, <4>2
      <3> QED
        BY <1>2, <3>2
    <2>4. c.levels[s][l].count = m
      BY <2>1, <2>5
    <2> QED
      BY <2>1, <2>2, <2>3, <2>4 DEF Follows
  <1>18. PICK w : w = [k \in DOMAIN q[s][p] |->
                       IF q[s][p][k].order_id = id
                       THEN Filled(q[s][p][k], done) ELSE q[s][p][k]]
    OBVIOUS
  <1>9. QueuesOf(c)[s][p] = w
    <2>1. QueuesOf(c)[s][p] = Entries(c, line, m)
      BY <1>1, <1>8, QueueFrom
    <2>2. q[s][p] = Entries(b, line, m) /\ line \in [1 .. m -> Active(b)]
      BY <1>7 DEF LineFacts
    <2>3. \A k \in 1 .. m : q[s][p][k].order_id = id <=> line[k] = i
      BY <1>1, <1>6, EntryPlace
    <2>4. \A h \in Active(b) \ {i} : Entry(c, h) = Entry(b, h)
      BY <1>2 DEF Entry
    <2>5. DOMAIN q[s][p] = 1 .. m /\ \A k \in 1 .. m : q[s][p][k] = Entry(b, line[k])
      BY <2>2 DEF Entries
    <2>6. \A k \in 1 .. m :
            Entry(c, line[k]) = IF q[s][p][k].order_id = id
                                THEN Filled(q[s][p][k], done) ELSE q[s][p][k]
      <3> TAKE k \in 1 .. m
      <3>1. line[k] \in Active(b) /\ q[s][p][k] = Entry(b, line[k])
        BY <2>2, <2>5
      <3>2. CASE line[k] = i
        BY <1>3, <2>3, <3>1, <3>2
      <3>3. CASE line[k] # i
        BY <2>3, <2>4, <3>1, <3>3
      <3> QED
        BY <3>2, <3>3
    <2>7. w = [k \in 1 .. m |-> Entry(c, line[k])]
      BY <1>18, <2>5, <2>6
    <2> QED
      BY <2>1, <2>7 DEF Entries
  <1>10. ASSUME NEW t \in Sides, NEW r \in Band, ~ (t = s /\ r = p)
         PROVE  QueuesOf(c)[t][r] = q[t][r]
    <2>1. PICK g : g = PriceToIndex(r)
      OBVIOUS
    <2>2. g \in Levels /\ (t # s \/ g # l)
      BY <1>1, <1>10, <2>1, BandLevels
    <2>3. \A h \in Members(b, t, g) : h \in Active(b) /\ h # i
      BY <1>0, <1>1, <2>2 DEF Members, ListsOK, PlacedOK
    <2>4. \A h \in Members(b, t, g) :
            SameOrder(c.nodes[h], b.nodes[h]) /\ c.nodes[h].next = b.nodes[h].next
      BY <1>2, <2>3, Zenon DEF SameOrder
    <2>5. /\ c.levels[t][g].count = b.levels[t][g].count
          /\ c.levels[t][g].head = b.levels[t][g].head
      BY <1>2, <2>2
    <2>6. ListsOK(b)
      BY <1>1
    <2> QED
      BY <2>1, <2>4, <2>5, <2>6, SameQueue
  <1>11. Abstract!OrderOf(q, id) = RestingNode(n)
    BY <1>1, OrderOfNode
  <1>12. Abstract!Reduced(q, id, done) = WithQueue(q, s, p, w)
    <2>1. /\ Abstract!OrderOf(q, id).qty = n.qty /\ Abstract!OrderOf(q, id).side = s
          /\ Abstract!OrderOf(q, id).price = p
      BY <1>0, <1>11 DEF RestingNode
    <2>2. ~ (n.qty <= done)
      <3>1. done \in Nat /\ done < n.qty /\ n.qty \in Nat
        BY <1>1, ActiveFacts DEF FilledBy
      <3> QED
        BY <3>1
    <2>3. PICK o : o = Abstract!OrderOf(q, id)
      OBVIOUS
    <2>4. ~ (o.qty <= done) /\ o.side = s /\ o.price = p
      BY <2>1, <2>2, <2>3
    <2>5. PICK old : old = q[o.side][o.price]
      OBVIOUS
    <2>6. Abstract!Reduced(q, id, done) =
            [q EXCEPT ![o.side][o.price] =
               [k \in DOMAIN old |-> IF old[k].order_id = id
                                     THEN [old[k] EXCEPT !.qty = @ - done] ELSE old[k]]]
      BY <2>3, <2>4, <2>5, Zenon DEF Abstract!Reduced
    <2>9. old = q[s][p]
      BY <2>4, <2>5
    <2>10. PICK left : left = [k \in DOMAIN old |-> IF old[k].order_id = id
                                     THEN [old[k] EXCEPT !.qty = @ - done] ELSE old[k]]
      OBVIOUS
    <2>11. Abstract!Reduced(q, id, done) = [q EXCEPT ![s][p] = left]
      BY <2>4, <2>6, <2>10
    <2>7. Abstract!Reduced(q, id, done) =
            WithQueue(q, s, p, [k \in DOMAIN q[s][p] |->
                                  IF q[s][p][k].order_id = id
                                  THEN [q[s][p][k] EXCEPT !.qty = @ - done]
                                  ELSE q[s][p][k]])
      BY <2>9, <2>10, <2>11, Zenon DEF WithQueue
    <2>8. w = [k \in DOMAIN q[s][p] |->
                 IF q[s][p][k].order_id = id
                 THEN [q[s][p][k] EXCEPT !.qty = @ - done] ELSE q[s][p][k]]
      BY <1>18, Zenon DEF Filled
    <2> QED
      BY <2>7, <2>8, Zenon
  <1>13. q = Grid(q)
    BY DEF QueuesOf, Grid
  <1>14. PICK j : j = WithQueue(q, s, p, w)
    OBVIOUS
  <1>15. /\ \A t \in Sides, r \in Band : j[t][r] = IF t = s /\ r = p THEN w ELSE q[t][r]
         /\ j = Grid(j)
    BY <1>1, <1>13, <1>14, QueueReplaced
  <1>16. \A t \in Sides, r \in Band : QueuesOf(c)[t][r] = j[t][r]
    BY <1>9, <1>10, <1>15
  <1>17. QueuesOf(c) = j
    BY <1>15, <1>16, QueuesEqual
  <1> QED
    BY <1>12, <1>14, <1>17

(* An order filled and then removed is taken out of the book it was in. *)
LEMMA FilledTakenOut ==
  ASSUME NEW b, NEW i, NEW n, NEW done, NEW y, NEW p, FilledBy(b, i, n, done, y, p),
         Active(p) = Active(b), NEW c, NEW s, s = n.side, NEW l, l = n.level_idx,
         p.nodes[i].prev = n.prev, p.nodes[i].next = n.next,
         TakenOut(p, i, c, s, l, p.nodes[i])
  PROVE  TakenOut(b, i, c, s, l, n)
  <1>1. /\ b \in Books /\ i \in Active(b) /\ n = b.nodes[i]
        /\ s \in Sides /\ l \in Levels
    BY FilledFields DEF FilledBy, ListsOK
  <1>2. /\ \A h \in Active(b) : p.nodes[h].next = b.nodes[h].next
        /\ \A h \in Active(b) \ {i} : p.nodes[h] = b.nodes[h]
        /\ \A t \in Sides, g \in Levels :
             /\ p.levels[t][g].count = b.levels[t][g].count
             /\ p.levels[t][g].head = b.levels[t][g].head
    BY FilledFields DEF KeepsLists
  <1>3. /\ \A h \in Active(b) \ {i} :
             /\ SameOrder(c.nodes[h], p.nodes[h])
             /\ c.nodes[h].next = IF h = n.prev THEN n.next ELSE p.nodes[h].next
        /\ c.levels[s][l].count =
             IF p.levels[s][l].count <= 1 THEN 0 ELSE p.levels[s][l].count - 1
        /\ p.levels[s][l].count > 1 =>
             c.levels[s][l].head = IF n.prev = kNull THEN n.next ELSE p.levels[s][l].head
        /\ \A t \in Sides, g \in Levels : ~ (t = s /\ g = l) =>
             /\ c.levels[t][g].count = p.levels[t][g].count
             /\ c.levels[t][g].head = p.levels[t][g].head
    BY DEF TakenOut
  <1>4. \A h \in Active(b) \ {i} :
          /\ SameOrder(c.nodes[h], b.nodes[h])
          /\ c.nodes[h].next = IF h = n.prev THEN n.next ELSE b.nodes[h].next
    BY <1>2, <1>3
  <1>5. /\ p.levels[s][l].count = b.levels[s][l].count
        /\ p.levels[s][l].head = b.levels[s][l].head
    BY <1>1, <1>2
  <1>6. /\ c.levels[s][l].count =
             IF b.levels[s][l].count <= 1 THEN 0 ELSE b.levels[s][l].count - 1
        /\ b.levels[s][l].count > 1 =>
             c.levels[s][l].head = IF n.prev = kNull THEN n.next ELSE b.levels[s][l].head
    BY <1>3, <1>5
  <1>7. \A t \in Sides, g \in Levels : ~ (t = s /\ g = l) =>
          /\ c.levels[t][g].count = b.levels[t][g].count
          /\ c.levels[t][g].head = b.levels[t][g].head
    BY <1>2, <1>3
  <1> QED
    BY <1>1, <1>4, <1>6, <1>7 DEF TakenOut

-----------------------------------------------------------------------------
(* The private methods of OrderBook, on the queues. *)

(* alloc_node and append_to_level put the order at the end of its queue. *)
LEMMA RestOrderQueues ==
  ASSUME NEW b, ListsOK(b), PoolOK(b), NEW o, Restable(o)
  PROVE  QueuesOf(RestOrder(b, o)) = Abstract!Joined(QueuesOf(b), o)
  <1>1. PICK i, c, s, l, lv : /\ i = NextHandle(b) /\ c = RestOrder(b, o) /\ s = o.side
                              /\ l = PriceToIndex(o.price) /\ lv = b.levels[s][l]
    OBVIOUS
  <1>2. Rested(b, o, i, c, s, l, lv)
    BY <1>1, RestFields DEF ListsOK
  <1>3. QueuesOf(c) = Abstract!Joined(QueuesOf(b), o)
    BY <1>2, RestedQueues
  <1> QED
    BY <1>1, <1>3

(* remove_node takes the order out of its queue. *)
LEMMA RemoveNodeQueues ==
  ASSUME NEW b, ListsOK(b), NEW i \in Active(b), NEW qty \in Nat
  PROVE  QueuesOf(RemoveNode(b, i, qty)) = Abstract!Without(QueuesOf(b), b.nodes[i].order_id)
  <1>1. PICK c, n, s, l, lv : /\ c = RemoveNode(b, i, qty) /\ n = b.nodes[i] /\ s = n.side
                              /\ l = n.level_idx /\ lv = b.levels[s][l]
    OBVIOUS
  <1>2. Removed(b, i, qty, c, s, l, lv, n)
    BY <1>1, RemoveFields DEF ListsOK
  <1>3. TakenOut(b, i, c, s, l, n)
    BY <1>2, RemovedTakenOut
  <1>4. QueuesOf(c) = Abstract!Without(QueuesOf(b), n.order_id)
    BY <1>3, TakenOutQueues
  <1> QED
    BY <1>1, <1>4

(* execute_head fills the order and removes it when nothing is left. *)
LEMMA ExecuteHeadQueues ==
  ASSUME NEW b, b \in Books, BookInv(b), NEW i \in Active(b), NEW qty \in Nat
  PROVE  QueuesOf(ExecuteHead(b, i, qty))
           = Abstract!Reduced(QueuesOf(b), b.nodes[i].order_id, ExecutedQty(b, i, qty))
  <1>0. /\ ListsOK(b) /\ PoolOK(b) /\ IndexOK(b) /\ PlacedOK(b) /\ LinesOK(b) /\ BestOK(b)
    BY DEF ListsOK, BookInv
  <1>1. PICK n, done : n = b.nodes[i] /\ done = ExecutedQty(b, i, qty)
    OBVIOUS
  <1>2. PICK y : y = (b.levels[n.side][n.level_idx].total_qty - done) % QtyModulus
    OBVIOUS
  <1>3. PICK x : x = n.qty - done
    OBVIOUS
  <1>4. PICK p : p = [b EXCEPT !.nodes[i].qty = x,
                               !.levels[n.side][n.level_idx].total_qty = y]
    OBVIOUS
  <1>5. n \in Nodes /\ n.side \in Sides /\ n.level_idx \in Levels /\ n.qty \in Nat
        /\ n.qty < QtyModulus
    BY <1>0, <1>1, ActiveFacts DEF Nodes
  <1>6. b.levels[n.side][n.level_idx] \in LevelRecords
    BY <1>5, BookFields
  <1>7. done \in Nat /\ done <= n.qty /\ x \in Qty
    <2>1. done = IF n.qty < qty THEN n.qty ELSE qty
      BY <1>1 DEF ExecutedQty, MinOf
    <2> QED
      BY <1>3, <1>5, <2>1, QtyAssumption DEF Qty
  <1>8. y \in Qty
    <2>1. b.levels[n.side][n.level_idx].total_qty \in Int
      BY <1>6, LevelTotal
    <2>2. b.levels[n.side][n.level_idx].total_qty - done \in Int
      BY <1>7, <2>1
    <2> QED
      BY <1>2, <2>2, QtyMod
  <1>9. ExecuteHead(b, i, qty) = IF n.qty = done THEN RemoveNode(p, i, 0) ELSE p
    BY <1>1, <1>2, <1>3, <1>4, <1>5, <1>6 DEF ExecuteHead, Nodes, LevelRecords, Books
  <1>10. Reduced(b, i, x, y, p)
    BY <1>1, <1>4 DEF Reduced
  <1>11. FilledBy(b, i, n, done, y, p)
    BY <1>0, <1>1, <1>3, <1>7, <1>8, <1>10 DEF FilledBy
  <1>12. PICK q, id : q = QueuesOf(b) /\ id = n.order_id
    OBVIOUS
  <1>13. CASE n.qty # done
    <2>1. done < n.qty
      BY <1>5, <1>7, <1>13
    <2>2. QueuesOf(p) = Abstract!Reduced(q, id, done)
      BY <1>11, <1>12, <2>1, ReducedQueues
    <2> QED
      BY <1>1, <1>9, <1>12, <1>13, <2>2
  <1>14. CASE n.qty = done
    <2>1. /\ p \in Books /\ IndexOK(p) /\ PlacedOK(p) /\ LinesOK(p) /\ Active(p) = Active(b)
      BY <1>0, <1>7, <1>8, <1>10, ReduceOK
    <2>2. p.nodes[i] = [n EXCEPT !.qty = x]
      <3>1. i \in DOMAIN b.nodes
        BY DEF Active
      <3> QED
        BY <1>1, <1>4, <3>1 DEF Books
    <2>3. /\ p.nodes[i].prev = n.prev /\ p.nodes[i].next = n.next
          /\ p.nodes[i].side = n.side /\ p.nodes[i].level_idx = n.level_idx
      BY <1>5, <2>2 DEF Nodes
    <2>4. PICK c, s, l, lv, np : /\ c = RemoveNode(p, i, 0) /\ np = p.nodes[i] /\ s = np.side
                                 /\ l = np.level_idx /\ lv = p.levels[s][l]
      OBVIOUS
    <2>5. Removed(p, i, 0, c, s, l, lv, np)
      BY <2>1, <2>4, RemoveFields
    <2>6. TakenOut(p, i, c, s, l, np)
      BY <2>5, RemovedTakenOut
    <2>7. s = n.side /\ l = n.level_idx
      BY <2>3, <2>4
    <2>8. TakenOut(b, i, c, s, l, n)
      BY <1>11, <2>1, <2>3, <2>4, <2>6, <2>7, FilledTakenOut
    <2>9. QueuesOf(c) = Abstract!Without(q, id)
      BY <1>0, <1>12, <2>8, TakenOutQueues
    <2>10. Abstract!OrderOf(q, id).qty = n.qty
      <3>1. Abstract!OrderOf(q, id) = RestingNode(n)
        BY <1>0, <1>1, <1>12, OrderOfNode
      <3> QED
        BY <3>1 DEF RestingNode
    <2>11. Abstract!OrderOf(q, id).qty <= done
      BY <1>5, <1>14, <2>10
    <2>12. Abstract!Reduced(q, id, done) = Abstract!Without(q, id)
      BY <2>11 DEF Abstract!Reduced
    <2> QED
      BY <1>1, <1>9, <1>12, <1>14, <2>4, <2>9, <2>12
  <1> QED
    BY <1>13, <1>14

-----------------------------------------------------------------------------
(* The best level. *)

(* Orders are offered at the prices whose level is occupied. *)
LEMMA OfferedLevels ==
  ASSUME NEW b, ListsOK(b), BestOK(b), NEW s \in Sides, NEW q, q = QueuesOf(b)
  PROVE  /\ Abstract!Offered(q, s) \subseteq Band
         /\ \A p \in Band : p \in Abstract!Offered(q, s) <=> PriceToIndex(p) \in b.occupied[s]
  <1>1. Abstract!Offered(q, s) = {p \in Band : q[s][p] # <<>>}
    BY DEF Abstract!Offered, Abstract!Band, Band
  <1>2. ASSUME NEW p \in Band
        PROVE  q[s][p] # <<>> <=> PriceToIndex(p) \in b.occupied[s]
    <2>1. PICK line, n : QueueAt(b, s, p, line, n)
      BY QueueAtPrice DEF ListsOK
    <2>2. /\ q[s][p] = [k \in 1 .. n |-> Entry(b, line[k])] /\ n \in Nat
          /\ n = b.levels[s][PriceToIndex(p)].count
      BY <2>1 DEF QueueAt, Entries
    <2>3. PriceToIndex(p) \in b.occupied[s] <=> n > 0
      BY <2>2, BandLevels DEF BestOK
    <2>4. CASE n = 0
      <3>1. q[s][p] = [k \in {} |-> Entry(b, line[k])]
        BY <2>2, <2>4
      <3>2. q[s][p] = <<>>
        BY <3>1
      <3> QED
        BY <2>3, <2>4, <3>2
    <2>5. CASE n # 0
      <3>1. 1 \in DOMAIN q[s][p]
        BY <2>2, <2>5
      <3>2. q[s][p] # <<>>
        BY <3>1
      <3> QED
        BY <2>2, <2>3, <2>5, <3>2
    <2> QED
      BY <2>4, <2>5
  <1> QED
    BY <1>1, <1>2

(* The cached best level is at the best price on offer. *)
LEMMA BestPriceCached ==
  ASSUME NEW b, ListsOK(b), BestOK(b), NEW s \in Sides, NEW q, q = QueuesOf(b)
  PROVE  /\ b.best[s] = NoLevel <=> Abstract!Offered(q, s) = {}
         /\ b.best[s] # NoLevel =>
              /\ b.best[s] \in b.occupied[s] /\ b.best[s] \in Levels
              /\ IndexToPrice(b.best[s]) \in Band
              /\ Abstract!BestPrice(q, s) = IndexToPrice(b.best[s])
  <1>1. PICK offered, best : offered = Abstract!Offered(q, s) /\ best = b.best[s]
    OBVIOUS
  <1>2. /\ offered \subseteq Band
        /\ \A p \in Band : p \in offered <=> PriceToIndex(p) \in b.occupied[s]
    BY <1>1, OfferedLevels
  <1>3. b.occupied[s] \subseteq Levels
    BY BookFields DEF ListsOK
  <1>4. /\ best = NoLevel => b.occupied[s] = {}
        /\ best # NoLevel =>
             /\ best \in b.occupied[s]
             /\ \A l \in b.occupied[s] : l = best \/ Better(s, best, l)
    BY <1>1 DEF BestOK
  <1>5. CASE best = NoLevel
    BY <1>1, <1>2, <1>4, <1>5
  <1>6. CASE best # NoLevel
    <2>1. PICK x : x = IndexToPrice(best)
      OBVIOUS
    <2>2. best \in Levels /\ x \in Band /\ PriceToIndex(x) = best /\ x \in offered
      BY <1>2, <1>3, <1>4, <1>6, <2>1, BandLevels
    <2>3. \A p \in offered : IF s = "Buy" THEN x >= p ELSE x <= p
      <3> TAKE p \in offered
      <3>1. PriceToIndex(p) = best \/ Better(s, best, PriceToIndex(p))
        BY <1>2, <1>4, <1>6
      <3>2. p \in Int /\ x \in Int /\ best = x - MinPrice /\ MinPrice \in Int
        BY <1>2, <2>2, LadderAssumption DEF Band, PriceToIndex
      <3> QED
        BY <3>1, <3>2 DEF Better, PriceToIndex
    <2>4. \A p \in offered : (\A r \in offered : IF s = "Buy" THEN p >= r ELSE p <= r) => p = x
      <3> TAKE p \in offered
      <3>1. p \in Int /\ x \in Int
        BY <1>2, <2>2, LadderAssumption DEF Band
      <3>2. IF s = "Buy" THEN x >= p ELSE x <= p
        BY <2>3
      <3> HAVE \A r \in offered : IF s = "Buy" THEN p >= r ELSE p <= r
      <3>3. IF s = "Buy" THEN p >= x ELSE p <= x
        BY <2>2
      <3> QED
        BY <3>1, <3>2, <3>3
    <2>5. Abstract!BestPrice(q, s)
            = CHOOSE p \in offered : \A r \in offered : IF s = "Buy" THEN p >= r ELSE p <= r
      BY <1>1 DEF Abstract!BestPrice
    <2>6. Abstract!BestPrice(q, s) = x
      BY <2>2, <2>3, <2>4, <2>5
    <2> QED
      BY <1>1, <1>4, <1>6, <2>1, <2>2, <2>6
  <1> QED
    BY <1>5, <1>6

(* The condition of the loop is that an order on offer would trade. *)
LEMMA CrossesMarketable ==
  ASSUME NEW b, ListsOK(b), BestOK(b), NEW s \in Sides, NEW x \in Int, NEW q, q = QueuesOf(b)
  PROVE  Crosses(b, s, x) <=> Abstract!Marketable(q, s, x)
  <1>1. PICK other : other = Opposite(s)
    OBVIOUS
  <1>2. other \in Sides /\ other = Abstract!Opposite(s)
    BY <1>1 DEF Opposite, Sides, Abstract!Opposite
  <1>3. /\ b.best[other] = NoLevel <=> Abstract!Offered(q, other) = {}
        /\ b.best[other] # NoLevel =>
             Abstract!BestPrice(q, other) = IndexToPrice(b.best[other])
    BY <1>2, BestPriceCached
  <1>4. Abstract!Marketable(q, s, x) <=>
          /\ Abstract!Offered(q, other) # {}
          /\ IF s = "Buy" THEN x >= Abstract!BestPrice(q, other)
                          ELSE x <= Abstract!BestPrice(q, other)
    BY <1>2 DEF Abstract!Marketable
  <1>5. Crosses(b, s, x) <=>
          /\ b.best[other] # NoLevel
          /\ IF s = "Buy" THEN x >= IndexToPrice(b.best[other])
                          ELSE x <= IndexToPrice(b.best[other])
    BY <1>1 DEF Crosses
  <1> QED
    BY <1>3, <1>4, <1>5

(* The head of the best level is the order first in line. *)
LEMMA BestHeadFirst ==
  ASSUME NEW b, ListsOK(b), BestOK(b), NEW s \in Sides, b.best[s] # NoLevel,
         NEW q, q = QueuesOf(b), NEW i, i = BestHead(b, s)
  PROVE  i \in Active(b) /\ Abstract!FirstInLine(q, s) = RestingNode(b.nodes[i])
  <1>1. PICK l, x : l = b.best[s] /\ x = IndexToPrice(l)
    OBVIOUS
  <1>2. /\ l \in b.occupied[s] /\ l \in Levels /\ x \in Band
        /\ Abstract!BestPrice(q, s) = x
    BY <1>1, BestPriceCached
  <1>3. PriceToIndex(x) = l
    BY <1>1, <1>2, BandLevels
  <1>4. PICK line, n : QueueAt(b, s, x, line, n)
    BY <1>2, QueueAtPrice DEF ListsOK
  <1>5. /\ n \in Nat /\ n = b.levels[s][l].count
        /\ line \in [1 .. n -> Active(b)] /\ IsLine(b, s, l, line)
        /\ q[s][x] = Entries(b, line, n)
        /\ \A k \in 1 .. n : b.nodes[line[k]].side = s /\ b.nodes[line[k]].price = x
    BY <1>3, <1>4 DEF QueueAt
  <1>6. n > 0 /\ 1 \in 1 .. n
    <2>1. b.levels[s][l].count > 0
      BY <1>2 DEF BestOK
    <2>2. n \in Nat /\ n > 0
      BY <1>5, <2>1
    <2> QED
      BY <2>2
  <1>7. i = line[1]
    <2>1. b.levels[s][l].head = (IF b.levels[s][l].count = 0 THEN kNull ELSE line[1])
      BY <1>5 DEF IsLine
    <2>2. b.levels[s][l].count # 0
      <3>1. n = b.levels[s][l].count
        BY <1>5
      <3> QED
        BY <1>6, <3>1
    <2>3. i = b.levels[s][l].head
      BY <1>1 DEF BestHead
    <2> QED
      BY <2>1, <2>2, <2>3
  <1>8. i \in Active(b) /\ b.nodes[i].side = s /\ b.nodes[i].price = x
    BY <1>5, <1>6, <1>7
  <1>9. Head(q[s][x]) = Entry(b, i)
    <2>1. PICK S : S = {Entry(b, line[k]) : k \in 1 .. n}
      OBVIOUS
    <2>2. PICK w : w = q[s][x]
      OBVIOUS
    <2>3. w = [k \in 1 .. n |-> Entry(b, line[k])]
      BY <1>5, <2>2 DEF Entries
    <2>4. w \in Seq(S)
      <3>1. w \in [1 .. n -> S]
        BY <2>1, <2>3
      <3>2. n \in Nat
        BY <1>5
      <3> QED
        BY <3>1, <3>2
    <2>5. w[1] = Entry(b, i)
      BY <1>6, <1>7, <2>3
    <2>6. w # <<>>
      BY <1>6, <2>3
    <2> QED
      BY <2>2, <2>4, <2>5, <2>6
  <1>10. Abstract!FirstInLine(q, s) = Abstract!RestingAs(Entry(b, i), s, x)
    BY <1>2, <1>9 DEF Abstract!FirstInLine
  <1> QED
    BY <1>8, <1>10 DEF Abstract!RestingAs, Entry, RestingNode

-----------------------------------------------------------------------------
(* The calls of OrderBook, as steps of PriceTimeBook. *)

(* What the invariant says of the book. *)
LEMMA BookInOrder ==
  ASSUME TypeOK, RepOK
  PROVE  /\ book \in Books /\ BookInv(book) /\ ListsOK(book)
         /\ PoolOK(book) /\ IndexOK(book) /\ BestOK(book)
  BY DEF TypeOK, RepOK, BookInv, ListsOK

(* An order being matched could rest, if it has something left. *)
LEMMA TakerRestable ==
  ASSUME TypeOK, taker # NoTaker
  PROVE  /\ taker.side \in Sides /\ taker.price \in Int /\ taker.qty \in Nat
         /\ taker.qty > 0 => Restable(taker)
  <1>1. /\ taker.order_id \in OrderIds /\ taker.account_id \in Accounts
        /\ taker.side \in Sides /\ taker.price \in Band
        /\ taker.qty \in Nat /\ taker.qty < QtyModulus
    BY TakerFacts
  <1>2. taker.price \in Int
    BY <1>1, LadderAssumption DEF Band
  <1> QED
    BY <1>1, <1>2, QtyAssumption DEF Restable, Qty

(* add_order refuses what PriceTimeBook refuses. *)
LEMMA SameRefusal ==
  ASSUME NEW b, ListsOK(b), NEW o \in Orders
  PROVE  AddReject(b, o) = Abstract!AddRefusal(Abstract!LiveIds(QueuesOf(b)), o)
  <1>1. PICK live : live = Abstract!LiveIds(QueuesOf(b))
    OBVIOUS
  <1>2. o.order_id \in live <=> Contains(b, o.order_id)
    BY <1>1, LiveIdsIndexed DEF Orders
  <1>3. PriceInBand(o.price) <=> Abstract!PriceInBand(o.price)
    BY DEF PriceInBand, Band, Abstract!PriceInBand, Abstract!Band
  <1>4. AddReject(b, o) = Abstract!AddRefusal(live, o)
    BY <1>2, <1>3 DEF AddReject, Abstract!AddRefusal
  <1> QED
    BY <1>1, <1>4

(* The empty record of the one is that of the other. *)
LEMMA SameNoTaker == NoTaker = Abstract!NoTaker
  BY DEF NoTaker, Abstract!NoTaker, kNoAccount, Abstract!kNoAccount

(* add_order up to its loop. *)
LEMMA EnterQueues ==
  ASSUME NEW STATE b, ListsOK(b), NEW STATE md, NEW S, NEW o \in S, o \in Orders,
         EnterAdd(b, md, o)
  PROVE  Abstract!Enter(QueuesOf(b), md, S)
  <1>1. /\ book' = b /\ out' = [md |-> md, reject |-> AddReject(b, o)]
        /\ taker' = IF AddReject(b, o) = "None" THEN o ELSE NoTaker
    BY DEF EnterAdd
  <1>2. out' = Abstract!Answer(md, Abstract!AddRefusal(Abstract!LiveIds(QueuesOf(b)), o))
    BY <1>1, SameRefusal DEF Abstract!Answer
  <1>3. QueuesOf(book') = QueuesOf(b)
    BY <1>1
  <1>4. \/ taker' = o /\ out'.reject = "None"
        \/ taker' = Abstract!NoTaker /\ out'.reject # "None"
    BY <1>1, SameNoTaker
  <1> QED
    BY <1>2, <1>3, <1>4 DEF Abstract!Enter

(* add_order up to its loop is Add. *)
LEMMA AddOrderIsAdd ==
  ASSUME TypeOK, RepOK, NEW o \in Orders, AddOrder(o)
  PROVE  Abstract!Add
  <1>1. taker = NoTaker /\ EnterAdd(book, <<>>, o) /\ ListsOK(book)
    BY BookInOrder DEF AddOrder
  <1>2. o \in Abstract!Orders
    BY DEF Orders, Abstract!Orders, Sides, Abstract!Sides
  <1>3. Abstract!Enter(QueuesOf(book), <<>>, Abstract!Orders)
    BY <1>1, <1>2, EnterQueues
  <1>4. out'.md = <<>>
    BY <1>1 DEF EnterAdd
  <1> QED
    BY <1>1, <1>3, <1>4, SameNoTaker DEF Abstract!Add

(* The loop goes on while an order on offer would trade. *)
LEMMA MatchingWantsMore ==
  ASSUME TypeOK, RepOK, taker # NoTaker
  PROVE  Matching <=> Abstract!WantsMore
  <1>1. Crosses(book, taker.side, taker.price)
          <=> Abstract!Marketable(QueuesOf(book), taker.side, taker.price)
    BY BookInOrder, TakerRestable, CrossesMarketable
  <1> QED
    BY <1>1 DEF Matching, Abstract!WantsMore

(* One iteration of the loop is Trade. *)
LEMMA MatchIsTrade ==
  ASSUME TypeOK, RepOK, Match
  PROVE  Abstract!Trade
  <1>1. PICK s, i, done : /\ s = Opposite(taker.side) /\ i = BestHead(book, s)
                          /\ done = ExecutedQty(book, i, taker.qty)
    OBVIOUS
  <1>2. /\ taker # NoTaker /\ Matching
        /\ book' = ExecuteHead(book, i, taker.qty)
        /\ taker' = [taker EXCEPT !.qty = @ - done]
        /\ out' = Emit(<<MdEvent("Execute", book.nodes[i], done)>>)
    BY <1>1 DEF Match
  <1>3. PICK q, n : q = QueuesOf(book) /\ n = book.nodes[i]
    OBVIOUS
  <1>4. s \in Sides /\ book.best[s] # NoLevel /\ s = Abstract!Opposite(taker.side)
    BY <1>1, <1>2, TakerRestable
    DEF Matching, Crosses, Opposite, Abstract!Opposite, Sides
  <1>5. i \in Active(book) /\ Abstract!FirstInLine(q, s) = RestingNode(n)
    BY <1>1, <1>3, <1>4, BookInOrder, BestHeadFirst
  <1>6. QueuesOf(book') = Abstract!Reduced(q, n.order_id, done)
    <2>1. taker.qty \in Nat
      BY <1>2, TakerRestable
    <2> QED
      BY <1>1, <1>2, <1>3, <1>5, <2>1, BookInOrder, ExecuteHeadQueues
  <1>7. PICK resting : resting = Abstract!FirstInLine(q, Abstract!Opposite(taker.side))
    OBVIOUS
  <1>8. resting = RestingNode(n)
    BY <1>4, <1>5, <1>7
  <1>9. resting.order_id = n.order_id /\ resting.qty = n.qty
    BY <1>8 DEF RestingNode
  <1>10. done = Abstract!MinOf(resting.qty, taker.qty)
    BY <1>1, <1>3, <1>9 DEF ExecutedQty, MinOf, Abstract!MinOf
  <1>11. MdEvent("Execute", n, done) = Abstract!MdEventFor("Execute", resting, done)
    BY <1>8 DEF MdEvent, Abstract!MdEventFor, RestingNode
  <1>12. out' = Abstract!Answer(<<Abstract!MdEventFor("Execute", resting, done)>>, "None")
    BY <1>2, <1>3, <1>11 DEF Emit, Abstract!Answer
  <1>13. Abstract!WantsMore /\ taker # Abstract!NoTaker
    BY <1>2, MatchingWantsMore, SameNoTaker
  <1>14. QueuesOf(book') = Abstract!Reduced(q, resting.order_id, done)
    BY <1>6, <1>9
  <1> QED
    BY <1>2, <1>3, <1>7, <1>10, <1>12, <1>13, <1>14 DEF Abstract!Trade

(* What add_order does after its loop is Settle. *)
LEMMA RestIsSettle ==
  ASSUME TypeOK, RepOK, Rest
  PROVE  Abstract!Settle
  <1>1. /\ taker # NoTaker /\ ~ Matching /\ taker.qty > 0 /\ taker.tif = "Gtc"
        /\ book' = RestOrder(book, taker) /\ taker' = NoTaker
        /\ out' = Emit(<<MdEvent("Add", taker, taker.qty)>>)
    BY DEF Rest
  <1>2. QueuesOf(book') = Abstract!Joined(QueuesOf(book), taker)
    <2>1. Restable(taker)
      BY <1>1, TakerRestable
    <2> QED
      BY <1>1, <2>1, BookInOrder, RestOrderQueues
  <1>3. out' = Abstract!Answer(<<Abstract!MdEventFor("Add", taker, taker.qty)>>, "None")
    BY <1>1 DEF Emit, MdEvent, Abstract!Answer, Abstract!MdEventFor
  <1>4. ~ Abstract!WantsMore
    BY <1>1, MatchingWantsMore
  <1> QED
    BY <1>1, <1>2, <1>3, <1>4, SameNoTaker DEF Abstract!Settle

LEMMA FinishIsSettle ==
  ASSUME TypeOK, RepOK, Finish
  PROVE  Abstract!Settle
  <1>1. /\ taker # NoTaker /\ ~ Matching /\ ~ (taker.qty > 0 /\ taker.tif = "Gtc")
        /\ book' = book /\ taker' = NoTaker /\ out' = Emit(<<>>)
    BY DEF Finish
  <1>2. QueuesOf(book') = QueuesOf(book)
    BY <1>1
  <1>3. out' = Abstract!Answer(<<>>, "None")
    BY <1>1 DEF Emit, Abstract!Answer
  <1>4. ~ Abstract!WantsMore
    BY <1>1, MatchingWantsMore
  <1> QED
    BY <1>1, <1>2, <1>3, <1>4, SameNoTaker DEF Abstract!Settle

(* cancel_order takes the order out of the queues and says so. *)
LEMMA CancelledQueues ==
  ASSUME NEW b, ListsOK(b), NEW id \in OrderIds, Contains(b, id), NEW q, q = QueuesOf(b)
  PROVE  /\ id \in Abstract!LiveIds(q)
         /\ QueuesOf(Cancelled(b, id)) = Abstract!Without(q, id)
         /\ CancelEvent(b, id) = Abstract!CancelOf(q, id)
  <1>1. PICK i, n : i = b.index[id] /\ n = b.nodes[i]
    OBVIOUS
  <1>2. i \in Active(b) /\ n.order_id = id
    BY <1>1 DEF ListsOK, IndexOK
  <1>3. n.qty \in Nat
    BY <1>1, <1>2, ActiveFacts
  <1>4. id \in Abstract!LiveIds(q)
    BY LiveIdsIndexed
  <1>5. QueuesOf(RemoveNode(b, i, n.qty)) = Abstract!Without(q, id)
    BY <1>1, <1>2, <1>3, RemoveNodeQueues
  <1>6. QueuesOf(Cancelled(b, id)) = Abstract!Without(q, id)
    BY <1>1, <1>5 DEF Cancelled
  <1>7. PICK o : o = Abstract!OrderOf(q, id)
    OBVIOUS
  <1>8. o = RestingNode(n)
    BY <1>1, <1>2, <1>7, OrderOfNode
  <1>9. CancelEvent(b, id) = MdEvent("Cancel", n, n.qty)
    BY <1>1 DEF CancelEvent
  <1>10. MdEvent("Cancel", n, n.qty) = Abstract!MdEventFor("Cancel", o, o.qty)
    BY <1>8 DEF MdEvent, Abstract!MdEventFor, RestingNode
  <1>11. CancelEvent(b, id) = Abstract!CancelOf(q, id)
    BY <1>7, <1>9, <1>10 DEF Abstract!CancelOf
  <1> QED
    BY <1>4, <1>6, <1>11

(* cancel_order is Cancel. *)
LEMMA CancelOrderIsCancel ==
  ASSUME TypeOK, RepOK, NEW id \in OrderIds, CancelOrder(id)
  PROVE  Abstract!Cancel(id)
  <1>1. /\ taker = NoTaker /\ Contains(book, id) /\ book' = Cancelled(book, id)
        /\ out' = Emit(<<CancelEvent(book, id)>>) /\ taker' = taker
    BY DEF CancelOrder
  <1>2. /\ id \in Abstract!LiveIds(QueuesOf(book))
        /\ QueuesOf(book') = Abstract!Without(QueuesOf(book), id)
        /\ CancelEvent(book, id) = Abstract!CancelOf(QueuesOf(book), id)
    BY <1>1, BookInOrder, CancelledQueues
  <1>3. out' = Abstract!Answer(<<Abstract!CancelOf(QueuesOf(book), id)>>, "None")
    BY <1>1, <1>2 DEF Emit, Abstract!Answer
  <1>4. out'.reject = "None"
    BY <1>1 DEF Emit
  <1> QED
    BY <1>1, <1>2, <1>3, <1>4, SameNoTaker DEF Abstract!Cancel

LEMMA CancelUnknownIsCancel ==
  ASSUME TypeOK, RepOK, NEW id \in OrderIds, CancelUnknown(id)
  PROVE  Abstract!Cancel(id)
  <1>1. /\ taker = NoTaker /\ ~ Contains(book, id) /\ out' = Refuse("UnknownOrder")
        /\ book' = book /\ taker' = taker
    BY DEF CancelUnknown
  <1>2. id \notin Abstract!LiveIds(QueuesOf(book))
    BY <1>1, BookInOrder, LiveIdsIndexed
  <1>3. QueuesOf(book') = QueuesOf(book)
    BY <1>1
  <1>4. out' = Abstract!Answer(<<>>, "UnknownOrder")
    BY <1>1 DEF Refuse, Abstract!Answer
  <1> QED
    BY <1>1, <1>2, <1>3, <1>4, SameNoTaker DEF Abstract!Cancel

(* replace_order is Replace, ... *)
LEMMA ReplaceOrderIsReplace ==
  ASSUME TypeOK, RepOK, NEW old \in OrderIds, NEW o \in Orders, ReplaceOrder(old, o)
  PROVE  Abstract!Replace(old)
  <1>1. /\ taker = NoTaker /\ PriceInBand(o.price) /\ Contains(book, old)
        /\ EnterAdd(Cancelled(book, old), <<CancelEvent(book, old)>>, o)
    BY DEF ReplaceOrder
  <1>2. /\ old \in Abstract!LiveIds(QueuesOf(book))
        /\ QueuesOf(Cancelled(book, old)) = Abstract!Without(QueuesOf(book), old)
        /\ CancelEvent(book, old) = Abstract!CancelOf(QueuesOf(book), old)
    BY <1>1, BookInOrder, CancelledQueues
  <1>3. ListsOK(Cancelled(book, old))
    BY <1>1, BookInOrder, CancelledOK DEF BookInv, ListsOK
  <1>4. PICK S : S = {x \in Abstract!Orders : Abstract!PriceInBand(x.price)}
    OBVIOUS
  <1>5. o \in S
    BY <1>1, <1>4
    DEF Orders, Abstract!Orders, Sides, Abstract!Sides, PriceInBand, Abstract!PriceInBand,
        Band, Abstract!Band
  <1>6. Abstract!Enter(QueuesOf(Cancelled(book, old)), <<CancelEvent(book, old)>>, S)
    BY <1>1, <1>3, <1>5, EnterQueues
  <1>7. Abstract!Enter(Abstract!Without(QueuesOf(book), old),
                       <<Abstract!CancelOf(QueuesOf(book), old)>>, S)
    BY <1>2, <1>6
  <1>8. out'.md = <<CancelEvent(book, old)>>
    BY <1>1 DEF EnterAdd
  <1>9. CancelEvent(book, old).order_id = old
    BY <1>1, BookInOrder DEF CancelEvent, MdEvent, IndexOK
  <1>10. out'.md # <<>> /\ out'.md[1].order_id = old
    BY <1>8, <1>9
  <1> QED
    BY <1>1, <1>2, <1>4, <1>7, <1>10, SameNoTaker DEF Abstract!Replace

(* ... and its refusals are ReplaceNothing. *)
LEMMA ReplaceRefusedIsNothing ==
  ASSUME TypeOK, RepOK, NEW old \in OrderIds, NEW o \in Orders, ReplaceRefused(old, o)
  PROVE  Abstract!ReplaceNothing(old)
  <1>1. /\ taker = NoTaker /\ book' = book /\ taker' = taker
        /\ \/ ~ PriceInBand(o.price) /\ out' = Refuse("InvalidPrice")
           \/ /\ PriceInBand(o.price) /\ ~ Contains(book, old)
              /\ out' = Refuse("UnknownOrder")
    BY DEF ReplaceRefused
  <1>2. o \in Abstract!Orders
    BY DEF Orders, Abstract!Orders, Sides, Abstract!Sides
  <1>3. PriceInBand(o.price) <=> Abstract!PriceInBand(o.price)
    BY DEF PriceInBand, Abstract!PriceInBand, Band, Abstract!Band
  <1>4. ~ Contains(book, old) => old \notin Abstract!LiveIds(QueuesOf(book))
    BY BookInOrder, LiveIdsIndexed
  <1>5. QueuesOf(book') = QueuesOf(book)
    BY <1>1
  <1> QED
    BY <1>1, <1>2, <1>3, <1>4, <1>5, SameNoTaker
    DEF Abstract!ReplaceNothing, Refuse, Abstract!Answer

(* An empty book is empty queues. *)
LEMMA InitIsInit == Init => Abstract!Init
  <1> SUFFICES ASSUME Init PROVE Abstract!Init
    OBVIOUS
  <1>1. book = EmptyBook /\ taker = NoTaker /\ out = Emit(<<>>)
    BY DEF Init
  <1>2. ListsOK(book) /\ BestOK(book)
    BY <1>1, EmptyBookOK DEF ListsOK, BookInv
  <1>3. PICK q, e : q = QueuesOf(book) /\ e = Abstract!EmptyQueues
    OBVIOUS
  <1>4. \A s \in Sides, p \in Band : e[s][p] = <<>>
    BY <1>3 DEF Abstract!EmptyQueues, Abstract!Sides, Abstract!Band, Sides, Band
  <1>5. e = Grid(e)
    BY <1>3 DEF Abstract!EmptyQueues, Abstract!Sides, Abstract!Band, Sides, Band, Grid
  <1>6. \A s \in Sides, p \in Band : q[s][p] = <<>>
    <2> TAKE s \in Sides, p \in Band
    <2>1. book.occupied[s] = {}
      BY <1>1 DEF EmptyBook
    <2>2. p \notin Abstract!Offered(q, s)
      BY <1>2, <1>3, <2>1, OfferedLevels
    <2> QED
      BY <2>2 DEF Abstract!Offered, Abstract!Band, Band
  <1>7. QueuesOf(book) = e
    BY <1>3, <1>4, <1>5, <1>6, QueuesEqual
  <1>8. out = Abstract!Answer(<<>>, "None")
    BY <1>1 DEF Emit, Abstract!Answer
  <1> QED
    BY <1>1, <1>3, <1>7, <1>8, SameNoTaker DEF Abstract!Init

(* Every step of OrderBook is a step of PriceTimeBook or none. *)
LEMMA NextIsNext ==
  ASSUME TypeOK, RepOK, [Next]_vars
  PROVE  [Abstract!Next]_(Abstract!vars)
  <1>1. CASE UNCHANGED vars
    <2>1. book' = book /\ taker' = taker /\ out' = out
      BY <1>1 DEF vars
    <2>2. QueuesOf(book') = QueuesOf(book)
      BY <2>1
    <2> QED
      BY <2>1, <2>2 DEF Abstract!vars
  <1>2. CASE Next
    BY <1>2, AddOrderIsAdd, MatchIsTrade, RestIsSettle, FinishIsSettle, CancelOrderIsCancel,
       CancelUnknownIsCancel, ReplaceOrderIsReplace, ReplaceRefusedIsNothing
    DEF Next, Abstract!Next
  <1> QED
    BY <1>1, <1>2

-----------------------------------------------------------------------------
(***************************************************************************)
(* OrderBook is price-time priority: through any calls of add_order,       *)
(* cancel_order and replace_order, the pool, the lists, the index, the     *)
(* bitmap and the cached best levels change as the queues of PriceTimeBook *)
(* do, with the same trades, events and refusals.  The mapping is QueuesOf,*)
(* the invariant RepOK with the types.                                     *)
(***************************************************************************)
THEOREM PriceTimePriority == Spec => ImplementsPriceTime
  <1>1. Init => TypeOK /\ RepOK /\ Abstract!Init
    BY InitOK, InitIsInit
  <1>2. TypeOK /\ RepOK /\ [Next]_vars => (TypeOK /\ RepOK)' /\ [Abstract!Next]_(Abstract!vars)
    BY NextOK, NextIsNext
  <1> QED
    BY <1>1, <1>2, PTL DEF Spec, ImplementsPriceTime, Abstract!Spec

-----------------------------------------------------------------------------
(* The events tell what becomes of each order. *)

(* What is open of an order is what its node says. *)
LEMMA OpenQtyOfNode ==
  ASSUME NEW b, ListsOK(b), NEW h \in Active(b)
  PROVE  OpenQty(b, b.nodes[h].order_id) = b.nodes[h].qty
  <1>1. b.nodes[h].order_id \in OrderIds /\ b.index[b.nodes[h].order_id] = h /\ h # kNull
    BY ActiveFacts
  <1> QED
    BY <1>1 DEF OpenQty, Contains

(* What is open is a number, and comes from a slot in use if anything. *)
LEMMA OpenQtyOfId ==
  ASSUME NEW b, ListsOK(b), NEW id \in OrderIds
  PROVE  /\ OpenQty(b, id) \in Nat
         /\ Contains(b, id) => /\ b.index[id] \in Active(b)
                              /\ b.nodes[b.index[id]].order_id = id
                              /\ OpenQty(b, id) = b.nodes[b.index[id]].qty
  <1>1. CASE ~ Contains(b, id)
    BY <1>1 DEF OpenQty
  <1>2. CASE Contains(b, id)
    <2>1. PICK h : h = b.index[id]
      OBVIOUS
    <2>2. h \in Active(b) /\ b.nodes[h].order_id = id
      BY <1>2, <2>1 DEF ListsOK, IndexOK
    <2>3. b.nodes[h].qty \in Nat
      BY <2>2, ActiveFacts
    <2> QED
      BY <1>2, <2>1, <2>2, <2>3 DEF OpenQty
  <1> QED
    BY <1>1, <1>2

(* Orders that keep slot, id and quantity keep what is open of them. *)
LEMMA OpenQtyKept ==
  ASSUME NEW b, ListsOK(b), NEW c, NEW id \in OrderIds, c.index[id] = b.index[id],
         \A h \in Active(b) : b.nodes[h].order_id = id => c.nodes[h].qty = b.nodes[h].qty
  PROVE  OpenQty(c, id) = OpenQty(b, id)
  <1>1. Contains(b, id) => b.index[id] \in Active(b) /\ b.nodes[b.index[id]].order_id = id
    BY OpenQtyOfId
  <1> QED
    BY <1>1 DEF OpenQty, Contains

(* Resting an order opens its quantity. *)
LEMMA RestOrderOpens ==
  ASSUME NEW b, ListsOK(b), PoolOK(b), NEW o, Restable(o), ~ Contains(b, o.order_id),
         NEW id \in OrderIds, NEW c, c = RestOrder(b, o)
  PROVE  OpenQty(c, id) = OpenQty(b, id) + (IF id = o.order_id THEN o.qty ELSE 0)
  <1>1. PICK i, s, l, lv : /\ i = NextHandle(b) /\ s = o.side
                           /\ l = PriceToIndex(o.price) /\ lv = b.levels[s][l]
    OBVIOUS
  <1>2. Rested(b, o, i, c, s, l, lv)
    BY <1>1, RestFields DEF ListsOK
  <1>3. /\ b.index \in [OrderIds -> Nat] /\ c.index = [b.index EXCEPT ![o.order_id] = i]
        /\ i \in Nat \ {0} /\ i \notin Active(b) /\ o.order_id \in OrderIds
        /\ o.qty \in Nat /\ SameOrder(c.nodes[i], NewNode(o))
    <2>1. b.index \in [OrderIds -> Nat]
      BY BookFields DEF ListsOK
    <2>2. o.order_id \in OrderIds /\ o.qty \in Nat
      BY QtyAssumption DEF Restable, Qty
    <2>3. /\ c.index = [b.index EXCEPT ![o.order_id] = i]
          /\ i \in Nat \ {0} /\ i \notin Active(b) /\ SameOrder(c.nodes[i], NewNode(o))
      BY <1>2 DEF Rested
    <2> QED
      BY <2>1, <2>2, <2>3
  <1>4. OpenQty(b, id) \in Nat
    BY OpenQtyOfId
  <1>5. CASE id = o.order_id
    <2>1. c.index[id] = i /\ c.nodes[i].qty = o.qty
      BY <1>3, <1>5 DEF SameOrder, NewNode
    <2>2. OpenQty(c, id) = o.qty
      BY <1>3, <2>1 DEF OpenQty, Contains, kNull
    <2>3. OpenQty(b, id) = 0
      BY <1>5 DEF OpenQty
    <2> QED
      BY <1>3, <1>5, <2>2, <2>3
  <1>6. CASE id # o.order_id
    <2>1. c.index[id] = b.index[id]
      BY <1>3, <1>6
    <2>2. \A h \in Active(b) : c.nodes[h].qty = b.nodes[h].qty
      <3>1. \A h \in Active(b) : h \in DOMAIN b.nodes \ {i}
        BY <1>3 DEF Active
      <3> QED
        BY <1>2, <3>1 DEF Rested, SameOrder
    <2>3. OpenQty(c, id) = OpenQty(b, id)
      BY <2>1, <2>2, OpenQtyKept
    <2> QED
      BY <1>4, <1>6, <2>3
  <1> QED
    BY <1>5, <1>6

(* Removing an order closes what was open of it. *)
LEMMA RemoveNodeCloses ==
  ASSUME NEW b, ListsOK(b), NEW i \in Active(b), NEW qty \in Nat, NEW id \in OrderIds,
         NEW c, c = RemoveNode(b, i, qty)
  PROVE  OpenQty(c, id) = IF id = b.nodes[i].order_id THEN 0 ELSE OpenQty(b, id)
  <1>1. PICK n, s, l, lv : /\ n = b.nodes[i] /\ s = n.side /\ l = n.level_idx
                           /\ lv = b.levels[s][l]
    OBVIOUS
  <1>2. Removed(b, i, qty, c, s, l, lv, n)
    BY <1>1, RemoveFields DEF ListsOK
  <1>3. /\ b.index \in [OrderIds -> Nat] /\ c.index = [b.index EXCEPT ![n.order_id] = kNull]
    BY <1>2, BookFields DEF Removed, ListsOK
  <1>4. CASE id = n.order_id
    BY <1>1, <1>3, <1>4 DEF OpenQty, Contains
  <1>5. CASE id # n.order_id
    <2>1. c.index[id] = b.index[id]
      BY <1>3, <1>5
    <2>2. \A h \in Active(b) : b.nodes[h].order_id = id => c.nodes[h].qty = b.nodes[h].qty
      <3>1. \A h \in Active(b) : b.nodes[h].order_id = id => h \in DOMAIN b.nodes \ {i}
        BY <1>1, <1>5 DEF Active
      <3> QED
        BY <1>2, <3>1 DEF Removed, SameOrder
    <2>3. OpenQty(c, id) = OpenQty(b, id)
      BY <2>1, <2>2, OpenQtyKept
    <2> QED
      BY <1>1, <1>5, <2>3
  <1> QED
    BY <1>4, <1>5

(* A trade closes what traded. *)
LEMMA ExecuteHeadCloses ==
  ASSUME NEW b, b \in Books, BookInv(b), NEW i \in Active(b), NEW qty \in Nat,
         NEW id \in OrderIds, NEW done, done = ExecutedQty(b, i, qty)
  PROVE  /\ done \in Nat
         /\ OpenQty(ExecuteHead(b, i, qty), id)
              = OpenQty(b, id) - (IF id = b.nodes[i].order_id THEN done ELSE 0)
  <1>0. /\ ListsOK(b) /\ PoolOK(b) /\ IndexOK(b) /\ PlacedOK(b) /\ LinesOK(b) /\ BestOK(b)
    BY DEF ListsOK, BookInv
  <1>1. PICK n : n = b.nodes[i]
    OBVIOUS
  <1>2. PICK x, y : /\ y = (b.levels[n.side][n.level_idx].total_qty - done) % QtyModulus
                    /\ x = n.qty - done
    OBVIOUS
  <1>4. PICK p : p = [b EXCEPT !.nodes[i].qty = x,
                               !.levels[n.side][n.level_idx].total_qty = y]
    OBVIOUS
  <1>5. n \in Nodes /\ n.side \in Sides /\ n.level_idx \in Levels /\ n.qty \in Nat
        /\ n.qty < QtyModulus
    BY <1>0, <1>1, ActiveFacts DEF Nodes
  <1>6. b.levels[n.side][n.level_idx] \in LevelRecords
    BY <1>5, BookFields
  <1>7. done \in Nat /\ done <= n.qty /\ x \in Qty
    <2>1. done = IF n.qty < qty THEN n.qty ELSE qty
      BY <1>1 DEF ExecutedQty, MinOf
    <2> QED
      BY <1>2, <1>5, <2>1, QtyAssumption DEF Qty
  <1>8. y \in Qty
    <2>1. b.levels[n.side][n.level_idx].total_qty \in Int
      BY <1>6, LevelTotal
    <2>2. b.levels[n.side][n.level_idx].total_qty - done \in Int
      BY <1>7, <2>1
    <2> QED
      BY <1>2, <2>2, QtyMod
  <1>9. ExecuteHead(b, i, qty) = IF n.qty = done THEN RemoveNode(p, i, 0) ELSE p
    BY <1>1, <1>2, <1>4, <1>5, <1>6 DEF ExecuteHead, Nodes, LevelRecords, Books
  <1>10. Reduced(b, i, x, y, p)
    BY <1>1, <1>4 DEF Reduced
  <1>11. /\ p \in Books /\ IndexOK(p) /\ PlacedOK(p) /\ LinesOK(p)
         /\ Active(p) = Active(b) /\ p.index = b.index
         /\ p.nodes[i].qty = x /\ p.nodes[i].order_id = b.nodes[i].order_id
         /\ \A h \in Active(b) \ {i} : p.nodes[h].qty = b.nodes[h].qty
    BY <1>0, <1>7, <1>8, <1>10, ReduceOK
  <1>12. ListsOK(p) /\ i \in Active(p)
    BY <1>11 DEF ListsOK
  <1>13. OpenQty(b, id) \in Nat
    BY <1>0, OpenQtyOfId
  <1>14. CASE id = n.order_id
    <2>1. OpenQty(b, id) = n.qty
      BY <1>0, <1>1, <1>14, OpenQtyOfNode
    <2>2. OpenQty(p, id) = x
      BY <1>1, <1>11, <1>12, <1>14, OpenQtyOfNode
    <2>3. n.qty = done => OpenQty(RemoveNode(p, i, 0), id) = 0
      BY <1>1, <1>11, <1>12, <1>14, RemoveNodeCloses
    <2>4. OpenQty(ExecuteHead(b, i, qty), id) = n.qty - done
      BY <1>2, <1>5, <1>7, <1>9, <2>2, <2>3
    <2> QED
      BY <1>1, <1>7, <1>14, <2>1, <2>4
  <1>15. CASE id # n.order_id
    <2>1. \A h \in Active(b) : b.nodes[h].order_id = id => p.nodes[h].qty = b.nodes[h].qty
      BY <1>1, <1>11, <1>15
    <2>2. OpenQty(p, id) = OpenQty(b, id)
      BY <1>0, <1>11, <2>1, OpenQtyKept
    <2>3. OpenQty(RemoveNode(p, i, 0), id) = OpenQty(p, id)
      BY <1>1, <1>11, <1>12, <1>15, RemoveNodeCloses
    <2>4. OpenQty(ExecuteHead(b, i, qty), id) = OpenQty(b, id)
      BY <1>9, <2>2, <2>3
    <2> QED
      BY <1>1, <1>7, <1>13, <1>15, <2>4
  <1> QED
    BY <1>14, <1>15

(* What an event says of an order. *)
LEMMA DeltaOfOne ==
  ASSUME NEW e, NEW id
  PROVE  EventDelta(<<e>>, id) = IF e.order_id # id THEN 0
                                 ELSE IF e.type = "Add" THEN e.qty ELSE - e.qty
  <1>1. <<e>> # <<>> /\ <<e>>[1] = e
    OBVIOUS
  <1> QED
    BY <1>1 DEF EventDelta

(* A cancel, with or without the order that replaces it, is explained. *)
LEMMA CancelExplained ==
  ASSUME NEW b, b \in Books, BookInv(b), NEW old \in OrderIds, Contains(b, old),
         NEW id \in OrderIds
  PROVE  OpenQty(Cancelled(b, old), id)
           = OpenQty(b, id) + EventDelta(<<CancelEvent(b, old)>>, id)
  <1>0. ListsOK(b)
    BY DEF ListsOK, BookInv
  <1>1. PICK i, n : i = b.index[old] /\ n = b.nodes[i]
    OBVIOUS
  <1>2. i \in Active(b) /\ n.order_id = old /\ OpenQty(b, old) = n.qty
        /\ OpenQty(b, old) \in Nat /\ OpenQty(b, id) \in Nat
    BY <1>0, <1>1, OpenQtyOfId
  <1>3. Cancelled(b, old) = RemoveNode(b, i, n.qty)
    BY <1>1 DEF Cancelled
  <1>4. OpenQty(Cancelled(b, old), id) = IF id = old THEN 0 ELSE OpenQty(b, id)
    BY <1>0, <1>1, <1>2, <1>3, RemoveNodeCloses
  <1>5. PICK e : e = CancelEvent(b, old)
    OBVIOUS
  <1>6. e.order_id = old /\ e.type = "Cancel" /\ e.qty = n.qty
    BY <1>1, <1>2, <1>5 DEF CancelEvent, MdEvent
  <1>7. EventDelta(<<e>>, id) = IF id = old THEN - n.qty ELSE 0
    BY <1>6, DeltaOfOne
  <1> QED
    BY <1>2, <1>4, <1>5, <1>7

(* Each call, and each iteration of the loop, is explained by its event. *)
LEMMA NextExplained ==
  ASSUME TypeOK, RepOK, Next, NEW id \in OrderIds
  PROVE  OpenQty(book', id) = OpenQty(book, id) + EventDelta(out'.md, id)
  <1>1. /\ book \in Books /\ BookInv(book) /\ ListsOK(book) /\ PoolOK(book)
        /\ IndexOK(book) /\ BestOK(book) /\ OpenQty(book, id) \in Nat
    BY BookInOrder, OpenQtyOfId
  <1>2. ASSUME book' = book, out'.md = <<>>
        PROVE  OpenQty(book', id) = OpenQty(book, id) + EventDelta(out'.md, id)
    <2>1. OpenQty(book', id) = OpenQty(book, id)
      BY <1>2
    <2>2. EventDelta(out'.md, id) = 0
      BY <1>2 DEF EventDelta
    <2> QED
      BY <1>1, <2>1, <2>2
  <1>3. ASSUME NEW o \in Orders, AddOrder(o)
        PROVE  OpenQty(book', id) = OpenQty(book, id) + EventDelta(out'.md, id)
    BY <1>2, <1>3 DEF AddOrder, EnterAdd
  <1>4. ASSUME Match
        PROVE  OpenQty(book', id) = OpenQty(book, id) + EventDelta(out'.md, id)
    <2>1. PICK s, i, done, e : /\ s = Opposite(taker.side) /\ i = BestHead(book, s)
                               /\ done = ExecutedQty(book, i, taker.qty)
                               /\ e = MdEvent("Execute", book.nodes[i], done)
      OBVIOUS
    <2>2. /\ taker # NoTaker /\ Matching /\ book' = ExecuteHead(book, i, taker.qty)
          /\ out' = Emit(<<e>>)
      BY <1>4, <2>1 DEF Match
    <2>3. taker.side \in Sides /\ taker.qty \in Nat
      BY <2>2, TakerRestable
    <2>4. s \in Sides /\ book.best[s] # NoLevel
      BY <2>1, <2>2, <2>3 DEF Matching, Crosses, Opposite, Sides
    <2>5. i \in Active(book)
      BY <1>1, <2>1, <2>4, BestHeadFirst
    <2>6. /\ done \in Nat
          /\ OpenQty(book', id)
               = OpenQty(book, id) - (IF id = book.nodes[i].order_id THEN done ELSE 0)
      BY <1>1, <2>1, <2>2, <2>3, <2>5, ExecuteHeadCloses
    <2>7. e.order_id = book.nodes[i].order_id /\ e.type = "Execute" /\ e.qty = done
      BY <2>1 DEF MdEvent
    <2>8. EventDelta(out'.md, id) = IF id = book.nodes[i].order_id THEN - done ELSE 0
      <3>1. out'.md = <<e>>
        BY <2>2 DEF Emit
      <3> QED
        BY <2>7, <3>1, DeltaOfOne
    <2> QED
      BY <1>1, <2>6, <2>8
  <1>5. ASSUME Rest
        PROVE  OpenQty(book', id) = OpenQty(book, id) + EventDelta(out'.md, id)
    <2>1. PICK e : e = MdEvent("Add", taker, taker.qty)
      OBVIOUS
    <2>2. /\ taker # NoTaker /\ taker.qty > 0 /\ book' = RestOrder(book, taker)
          /\ out' = Emit(<<e>>)
      BY <1>5, <2>1 DEF Rest
    <2>3. Restable(taker) /\ taker.qty \in Nat /\ ~ Contains(book, taker.order_id)
      BY <2>2, TakerRestable DEF RepOK, TakerNotResting
    <2>4. OpenQty(book', id) = OpenQty(book, id) + (IF id = taker.order_id THEN taker.qty ELSE 0)
      BY <1>1, <2>2, <2>3, RestOrderOpens
    <2>5. e.order_id = taker.order_id /\ e.type = "Add" /\ e.qty = taker.qty
      BY <2>1 DEF MdEvent
    <2>6. EventDelta(out'.md, id) = IF id = taker.order_id THEN taker.qty ELSE 0
      <3>1. out'.md = <<e>>
        BY <2>2 DEF Emit
      <3> QED
        BY <2>5, <3>1, DeltaOfOne
    <2> QED
      BY <2>4, <2>6
  <1>6. ASSUME Finish
        PROVE  OpenQty(book', id) = OpenQty(book, id) + EventDelta(out'.md, id)
    BY <1>2, <1>6 DEF Finish, Emit
  <1>7. ASSUME NEW old \in OrderIds, CancelOrder(old)
        PROVE  OpenQty(book', id) = OpenQty(book, id) + EventDelta(out'.md, id)
    <2>1. Contains(book, old) /\ book' = Cancelled(book, old)
          /\ out'.md = <<CancelEvent(book, old)>>
      BY <1>7 DEF CancelOrder, Emit
    <2> QED
      BY <1>1, <2>1, CancelExplained
  <1>8. ASSUME NEW old \in OrderIds, CancelUnknown(old)
        PROVE  OpenQty(book', id) = OpenQty(book, id) + EventDelta(out'.md, id)
    BY <1>2, <1>8 DEF CancelUnknown, Refuse
  <1>9. ASSUME NEW old \in OrderIds, NEW o \in Orders, ReplaceOrder(old, o)
        PROVE  OpenQty(book', id) = OpenQty(book, id) + EventDelta(out'.md, id)
    <2>1. Contains(book, old) /\ book' = Cancelled(book, old)
          /\ out'.md = <<CancelEvent(book, old)>>
      BY <1>9 DEF ReplaceOrder, EnterAdd
    <2> QED
      BY <1>1, <2>1, CancelExplained
  <1>10. ASSUME NEW old \in OrderIds, NEW o \in Orders, ReplaceRefused(old, o)
         PROVE  OpenQty(book', id) = OpenQty(book, id) + EventDelta(out'.md, id)
    BY <1>2, <1>10 DEF ReplaceRefused, Refuse
  <1> QED
    BY <1>3, <1>4, <1>5, <1>6, <1>7, <1>8, <1>9, <1>10 DEF Next

(***************************************************************************)
(* The market data events explain the book: each step changes the open     *)
(* quantity of each order by what its event says of it, in replace_order   *)
(* and its refusals too.  Step by step, from RepOK with the types.         *)
(***************************************************************************)
THEOREM EventsExplain == Spec => EventsExplainBook
  <1>1. TypeOK /\ RepOK /\ [Next]_vars => (TypeOK /\ RepOK)'
    BY NextOK
  <1>2. TypeOK /\ RepOK /\ [Next]_vars =>
          [\A id \in OrderIds :
             OpenQty(book', id) = OpenQty(book, id) + EventDelta(out'.md, id)]_vars
    BY NextExplained
  <1> QED
    BY <1>1, <1>2, InitOK, PTL DEF Spec, EventsExplainBook
-----------------------------------------------------------------------------
(* The loop in steps, and the call at once. *)

CallLemmas == INSTANCE CallProofs

(* The operators on queues are the same ones, whichever module they come through. *)
LEMMA SameOffered ==
  ASSUME NEW q, NEW s
  PROVE  /\ Abstract!Offered(q, s) = CallLemmas!Offered(q, s)
         /\ Abstract!Opposite(s) = CallLemmas!Opposite(s)
  BY Zenon DEF Abstract!Offered, CallLemmas!Offered, Abstract!Opposite, CallLemmas!Opposite,
     Abstract!Band, CallLemmas!Band

LEMMA SameBest ==
  ASSUME NEW q, NEW s
  PROVE  Abstract!BestPrice(q, s) = CallLemmas!BestPrice(q, s)
  <1>1. PICK offered : offered = Abstract!Offered(q, s) /\ offered = CallLemmas!Offered(q, s)
    BY SameOffered
  <1> QED
    BY <1>1, Zenon DEF Abstract!BestPrice, CallLemmas!BestPrice

LEMMA SameFirst ==
  ASSUME NEW q, NEW s
  PROVE  Abstract!FirstInLine(q, s) = CallLemmas!FirstInLine(q, s)
  BY SameBest, Zenon DEF Abstract!FirstInLine, CallLemmas!FirstInLine,
     Abstract!RestingAs, CallLemmas!RestingAs

LEMMA SameMarketable ==
  ASSUME NEW q, NEW s, NEW x
  PROVE  Abstract!Marketable(q, s, x) <=> CallLemmas!Marketable(q, s, x)
  <1>1. PICK other : other = Abstract!Opposite(s) /\ other = CallLemmas!Opposite(s)
    BY SameOffered
  <1>2. PICK best : best = Abstract!BestPrice(q, other) /\ best = CallLemmas!BestPrice(q, other)
    BY SameBest
  <1>3. Abstract!Offered(q, other) = CallLemmas!Offered(q, other)
    BY SameOffered
  <1> QED
    BY <1>1, <1>2, <1>3, Zenon DEF Abstract!Marketable, CallLemmas!Marketable

LEMMA SamePlaces ==
  ASSUME NEW q, NEW id
  PROVE  /\ \A s, p : Abstract!RestsAt(q, id, s, p) <=> CallLemmas!RestsAt(q, id, s, p)
         /\ \A s, p : Abstract!PlaceOf(q, id, s, p) = CallLemmas!PlaceOf(q, id, s, p)
  BY Zenon DEF Abstract!RestsAt, CallLemmas!RestsAt, Abstract!PlaceOf, CallLemmas!PlaceOf

LEMMA SameWithout ==
  ASSUME NEW q, NEW id
  PROVE  Abstract!Without(q, id) = CallLemmas!Without(q, id)
  BY Zenon DEF Abstract!Without, CallLemmas!Without, Abstract!RestsAt, CallLemmas!RestsAt,
     Abstract!PlaceOf, CallLemmas!PlaceOf, Abstract!LeavingOut, CallLemmas!LeavingOut,
     Abstract!Sides, CallLemmas!Sides, Abstract!Band, CallLemmas!Band

LEMMA SameOrderOf ==
  ASSUME NEW q, NEW id
  PROVE  Abstract!OrderOf(q, id) = CallLemmas!OrderOf(q, id)
  BY Zenon DEF Abstract!OrderOf, CallLemmas!OrderOf, Abstract!RestsAt, CallLemmas!RestsAt,
     Abstract!PlaceOf, CallLemmas!PlaceOf, Abstract!RestingAs, CallLemmas!RestingAs,
     Abstract!Sides, CallLemmas!Sides, Abstract!Band, CallLemmas!Band

LEMMA SameReduced ==
  ASSUME NEW q, NEW id, NEW qty
  PROVE  Abstract!Reduced(q, id, qty) = CallLemmas!Reduced(q, id, qty)
  <1>1. PICK o : o = Abstract!OrderOf(q, id) /\ o = CallLemmas!OrderOf(q, id)
    BY SameOrderOf
  <1> QED
    BY <1>1, SameWithout, Zenon DEF Abstract!Reduced, CallLemmas!Reduced

LEMMA SameRest ==
  ASSUME NEW q, NEW o, NEW type, NEW qty, NEW a, NEW c
  PROVE  /\ Abstract!Joined(q, o) = CallLemmas!Joined(q, o)
         /\ Abstract!MdEventFor(type, o, qty) = CallLemmas!MdEventFor(type, o, qty)
         /\ Abstract!MinOf(a, c) = CallLemmas!MinOf(a, c)
  BY Zenon DEF Abstract!Joined, CallLemmas!Joined, Abstract!MdEventFor, CallLemmas!MdEventFor,
     Abstract!MinOf, CallLemmas!MinOf

LEMMA SameLive ==
  ASSUME NEW q
  PROVE  Abstract!LiveIds(q) = CallLemmas!LiveIds(q)
  <1>1. \A id, s, p : Abstract!RestsAt(q, id, s, p) <=> CallLemmas!RestsAt(q, id, s, p)
    BY Zenon DEF Abstract!RestsAt, CallLemmas!RestsAt
  <1>2. Abstract!Sides = CallLemmas!Sides /\ Abstract!Band = CallLemmas!Band
    BY Zenon DEF Abstract!Sides, CallLemmas!Sides, Abstract!Band, CallLemmas!Band
  <1> QED
    BY <1>1, <1>2 DEF Abstract!LiveIds, CallLemmas!LiveIds

LEMMA SameIteration ==
  ASSUME NEW r, NEW o
  PROVE  Calls!Iteration(r, o) = CallLemmas!Iteration(r, o)
  BY Zenon DEF Calls!Iteration, CallLemmas!Iteration,
     Calls!TradeWith, CallLemmas!TradeWith, Calls!Trade, CallLemmas!Trade,
     Calls!RestsAt, CallLemmas!RestsAt, Calls!PlaceOf, CallLemmas!PlaceOf,
     Calls!OrderOf, CallLemmas!OrderOf, Calls!RestingAs, CallLemmas!RestingAs,
     Calls!Offered, CallLemmas!Offered, Calls!BestPrice, CallLemmas!BestPrice,
     Calls!Marketable, CallLemmas!Marketable, Calls!FirstInLine, CallLemmas!FirstInLine,
     Calls!LeavingOut, CallLemmas!LeavingOut,
     Calls!Without, CallLemmas!Without, Calls!Reduced, CallLemmas!Reduced,
     Calls!MdEventFor, CallLemmas!MdEventFor, Calls!MinOf, CallLemmas!MinOf,
     Calls!Opposite, CallLemmas!Opposite, Calls!Sides, CallLemmas!Sides,
     Calls!Band, CallLemmas!Band

LEMMA SameLiveCalls ==
  ASSUME NEW q
  PROVE  Calls!LiveIds(q) = CallLemmas!LiveIds(q)
  BY Zenon DEF Calls!LiveIds, CallLemmas!LiveIds, Calls!RestsAt, CallLemmas!RestsAt,
     Calls!Sides, CallLemmas!Sides, Calls!Band, CallLemmas!Band

LEMMA SameMatched ==
  ASSUME NEW q, NEW o
  PROVE  Calls!Matched(q, o) = CallLemmas!Matched(q, o)
  <1> DEFINE InCalls(f) ==
               f = [n \in 0 .. Calls!Cardinality(Calls!LiveIds(q)) |->
                      IF n = 0 THEN [queues |-> q, left |-> o.qty, md |-> <<>>]
                               ELSE Calls!Iteration(f[n - 1], o)]
             InLemmas(f) ==
               f = [n \in 0 .. CallLemmas!Cardinality(CallLemmas!LiveIds(q)) |->
                      IF n = 0 THEN [queues |-> q, left |-> o.qty, md |-> <<>>]
                               ELSE CallLemmas!Iteration(f[n - 1], o)]
  <1>1. Calls!Cardinality(Calls!LiveIds(q)) = CallLemmas!Cardinality(CallLemmas!LiveIds(q))
    BY SameLiveCalls, Zenon DEF Calls!Cardinality, CallLemmas!Cardinality
  <1>2. ASSUME NEW f PROVE InCalls(f) <=> InLemmas(f)
    <2>1. \A n : Calls!Iteration(f[n - 1], o) = CallLemmas!Iteration(f[n - 1], o)
      BY SameIteration
    <2> QED
      BY <1>1, <2>1
  <1>3. Calls!Matched(q, o) = (CHOOSE f : InCalls(f))[Calls!Cardinality(Calls!LiveIds(q))]
    BY Zenon DEF Calls!Matched
  <1>4. CallLemmas!Matched(q, o)
          = (CHOOSE f : InLemmas(f))[CallLemmas!Cardinality(CallLemmas!LiveIds(q))]
    BY Zenon DEF CallLemmas!Matched
  <1> HIDE DEF InCalls, InLemmas
  <1>5. (CHOOSE f : InCalls(f)) = (CHOOSE f : InLemmas(f))
    BY <1>2, Zenon
  <1> QED
    BY <1>1, <1>3, <1>4, <1>5, Zenon

LEMMA SameAdmitted ==
  ASSUME NEW q, NEW o
  PROVE  Calls!Admitted(q, o) = CallLemmas!Admitted(q, o)
  BY SameMatched, Zenon DEF Calls!Admitted, CallLemmas!Admitted, Calls!Settled, CallLemmas!Settled,
     Calls!MatchOutput, CallLemmas!MatchOutput, Calls!Joined, CallLemmas!Joined,
     Calls!MdEventFor, CallLemmas!MdEventFor

-----------------------------------------------------------------------------
(* The queues of the book are those CallProofs speaks of. *)

QueuesOK == CallLemmas!GoodBook(QueuesOf(book))

(* An order being matched has the fields of an order. *)
LEMMA TakerIsOrder ==
  ASSUME TypeOK, taker # NoTaker
  PROVE  /\ taker = CallLemmas!OrderWith(taker, taker.qty)
         /\ \A q : [taker EXCEPT !.qty = q] = CallLemmas!OrderWith(taker, q)
  <1>1. PICK o \in Orders : \E q \in 0 .. o.qty : taker = [o EXCEPT !.qty = q]
    BY DEF TypeOK, Takers
  <1>2. PICK left : taker = [o EXCEPT !.qty = left]
    BY <1>1
  <1>3. PICK id, account, side, price, qty, tif :
          o = [order_id |-> id, account_id |-> account, side |-> side,
               price |-> price, qty |-> qty, tif |-> tif]
    BY DEF Orders
  <1>4. taker = [order_id |-> id, account_id |-> account, side |-> side,
                 price |-> price, qty |-> left, tif |-> tif]
    BY <1>2, <1>3
  <1> QED
    BY <1>4 DEF CallLemmas!OrderWith

(* An iteration of the loop is the first trade of what is left of the call. *)
LEMMA MatchTradesFirst ==
  ASSUME TypeOK, RepOK, Match
  PROVE  /\ taker' # NoTaker
         /\ \E resting, done, ev :
              /\ CallLemmas!FirstTrade(QueuesOf(book), taker, resting, done, ev,
                                       QueuesOf(book'), taker')
              /\ out'.md = <<ev>>
  <1>1. PICK resting, done, ev, q :
          /\ q = QueuesOf(book)
          /\ resting = Abstract!FirstInLine(q, Abstract!Opposite(taker.side))
          /\ done = Abstract!MinOf(resting.qty, taker.qty)
          /\ ev = Abstract!MdEventFor("Execute", resting, done)
    OBVIOUS
  <1>2. Abstract!Trade
    BY MatchIsTrade
  <1>3. /\ taker # NoTaker /\ taker.qty > 0 /\ Abstract!Marketable(q, taker.side, taker.price)
        /\ QueuesOf(book') = Abstract!Reduced(q, resting.order_id, done)
        /\ taker' = [taker EXCEPT !.qty = @ - done]
        /\ out'.md = <<ev>>
    BY <1>1, <1>2, SameNoTaker DEF Abstract!Trade, Abstract!WantsMore, Abstract!Answer
  <1>4. taker.side \in Sides /\ taker.qty \in Nat /\ taker.order_id \in OrderIds
    BY <1>3, TakerFacts
  <1>5. /\ taker = CallLemmas!OrderWith(taker, taker.qty)
        /\ taker' = CallLemmas!OrderWith(taker, taker.qty - done)
    BY <1>3, TakerIsOrder
  <1>6. taker.side \in CallLemmas!Sides /\ CallLemmas!Marketable(q, taker.side, taker.price)
    BY <1>3, <1>4, SameMarketable DEF Sides, CallLemmas!Sides
  <1>7. resting = CallLemmas!FirstInLine(q, CallLemmas!Opposite(taker.side))
    BY <1>1, SameOffered, SameFirst, Zenon
  <1>8. /\ done = CallLemmas!MinOf(resting.qty, taker.qty)
        /\ ev = CallLemmas!MdEventFor("Execute", resting, done)
        /\ QueuesOf(book') = CallLemmas!Reduced(q, resting.order_id, done)
    <2>1. /\ Abstract!MinOf(resting.qty, taker.qty) = CallLemmas!MinOf(resting.qty, taker.qty)
          /\ Abstract!MdEventFor("Execute", resting, done)
               = CallLemmas!MdEventFor("Execute", resting, done)
      BY SameRest
    <2>2. Abstract!Reduced(q, resting.order_id, done)
            = CallLemmas!Reduced(q, resting.order_id, done)
      BY SameReduced
    <2> QED
      BY <1>1, <1>3, <2>1, <2>2
  <1>9. CallLemmas!FirstTrade(q, taker, resting, done, ev, QueuesOf(book'), taker')
    BY <1>3, <1>4, <1>5, <1>6, <1>7, <1>8, Zenon DEF CallLemmas!FirstTrade
  <1>10. taker' # NoTaker
    <2>1. taker'.order_id = taker.order_id
      BY <1>5 DEF CallLemmas!OrderWith
    <2> QED
      BY <1>4, <2>1, InputAssumption DEF NoTaker
  <1> QED
    BY <1>1, <1>3, <1>9, <1>10

(* When the loop is over the book is as add_order leaves it. *)
LEMMA CallEndsSettled ==
  ASSUME TypeOK, RepOK, Rest \/ Finish
  PROVE  /\ taker' = NoTaker /\ taker # NoTaker
         /\ ~ (taker.qty > 0 /\ CallLemmas!Marketable(QueuesOf(book), taker.side, taker.price))
         /\ LET rests == taker.qty > 0 /\ taker.tif = "Gtc"
            IN  /\ QueuesOf(book') = IF rests THEN CallLemmas!Joined(QueuesOf(book), taker)
                                              ELSE QueuesOf(book)
                /\ out'.md = IF rests THEN <<CallLemmas!MdEventFor("Add", taker, taker.qty)>>
                                      ELSE <<>>
  <1>1. Abstract!Settle
    BY RestIsSettle, FinishIsSettle
  <1>2. PICK q, rests : q = QueuesOf(book) /\ rests = (taker.qty > 0 /\ taker.tif = "Gtc")
    OBVIOUS
  <1>3. /\ taker # NoTaker /\ taker' = NoTaker
        /\ ~ (taker.qty > 0 /\ Abstract!Marketable(q, taker.side, taker.price))
        /\ QueuesOf(book') = IF rests THEN Abstract!Joined(q, taker) ELSE q
        /\ out'.md = IF rests THEN <<Abstract!MdEventFor("Add", taker, taker.qty)>> ELSE <<>>
    BY <1>1, <1>2, SameNoTaker DEF Abstract!Settle, Abstract!WantsMore, Abstract!Answer
  <1>4. ~ (taker.qty > 0 /\ CallLemmas!Marketable(q, taker.side, taker.price))
    BY <1>3, SameMarketable
  <1>5. /\ Abstract!Joined(q, taker) = CallLemmas!Joined(q, taker)
        /\ Abstract!MdEventFor("Add", taker, taker.qty)
             = CallLemmas!MdEventFor("Add", taker, taker.qty)
    BY SameRest
  <1> QED
    BY <1>2, <1>3, <1>4, <1>5

LEMMA InitQueuesOK == Init => QueuesOK
  <1> SUFFICES ASSUME Init PROVE QueuesOK
    OBVIOUS
  <1>1. QueuesOf(book) = Abstract!EmptyQueues
    BY InitIsInit DEF Abstract!Init
  <1>2. Abstract!EmptyQueues = CallLemmas!EmptyQueues
    BY Zenon DEF Abstract!EmptyQueues, CallLemmas!EmptyQueues, Abstract!Sides, CallLemmas!Sides,
       Abstract!Band, CallLemmas!Band
  <1>3. CallLemmas!GoodBook(CallLemmas!EmptyQueues)
    BY CallLemmas!EmptyGood, LadderAssumption, InputAssumption DEF CallLemmas!kNoAccount, kNoAccount
  <1> QED
    BY <1>1, <1>2, <1>3 DEF QueuesOK

(* An order that leaves the queues leaves good ones. *)
LEMMA WithoutQueuesOK ==
  ASSUME QueuesOK, NEW id, id \in Abstract!LiveIds(QueuesOf(book))
  PROVE  CallLemmas!GoodBook(Abstract!Without(QueuesOf(book), id))
  <1>1. PICK q, c : q = QueuesOf(book) /\ c = CallLemmas!Without(q, id)
    OBVIOUS
  <1>2. CallLemmas!GoodBook(q) /\ id \in CallLemmas!LiveIds(q)
    BY <1>1, SameLive DEF QueuesOK
  <1>3. CallLemmas!GoodBook(c)
    BY <1>1, <1>2, CallLemmas!WithoutGood, LadderAssumption, InputAssumption
    DEF CallLemmas!kNoAccount, kNoAccount
  <1> QED
    BY <1>1, <1>3, SameWithout

(* No step of a call breaks the queues. *)
LEMMA NextQueuesOK ==
  ASSUME TypeOK, RepOK, QueuesOK, [Next]_vars
  PROVE  QueuesOK'
  <1>1. PICK q : q = QueuesOf(book)
    OBVIOUS
  <1>2. CallLemmas!GoodBook(q)
    BY <1>1 DEF QueuesOK
  <1>3. ASSUME QueuesOf(book') = q PROVE QueuesOK'
    BY <1>2, <1>3 DEF QueuesOK
  <1>4. CASE UNCHANGED vars
    <2>1. QueuesOf(book') = QueuesOf(book)
      BY <1>4 DEF vars
    <2> QED
      BY <1>1, <1>3, <2>1
  <1>5. CASE Match
    <2>1. PICK resting, done, ev :
             CallLemmas!FirstTrade(q, taker, resting, done, ev, QueuesOf(book'), taker')
      BY <1>1, <1>5, MatchTradesFirst
    <2>2. CallLemmas!GoodBook(QueuesOf(book'))
      BY <1>2, <2>1, CallLemmas!AdmittedStep, LadderAssumption, InputAssumption
      DEF CallLemmas!kNoAccount, kNoAccount
    <2> QED
      BY <2>2 DEF QueuesOK
  <1>6. CASE Rest \/ Finish
    <2>1. PICK rests : rests = (taker.qty > 0 /\ taker.tif = "Gtc")
      OBVIOUS
    <2>2. /\ taker # NoTaker
          /\ QueuesOf(book') = IF rests THEN CallLemmas!Joined(q, taker) ELSE q
      BY <1>1, <1>6, <2>1, CallEndsSettled, Zenon
    <2>3. CASE ~ rests
      BY <1>3, <2>2, <2>3
    <2>4. CASE rests
      <3>1. CallLemmas!MayJoin(taker)
        <4>1. taker.qty > 0
          BY <2>1, <2>4, Zenon
        <4>2. /\ taker.order_id \in OrderIds /\ taker.account_id \in Accounts
              /\ taker.side \in Sides /\ taker.price \in Band /\ taker.qty \in Nat
          BY <2>2, TakerFacts
        <4> QED
          BY <4>1, <4>2
          DEF CallLemmas!MayJoin, CallLemmas!Sides, Sides, CallLemmas!Band, Band
      <3>2. taker.order_id \notin CallLemmas!LiveIds(q)
        <4>1. ~ Contains(book, taker.order_id) /\ taker.order_id \in OrderIds
          BY <2>2, TakerFacts DEF RepOK, TakerNotResting
        <4>2. taker.order_id \notin Abstract!LiveIds(QueuesOf(book))
          BY <4>1, BookInOrder, LiveIdsIndexed
        <4> QED
          BY <1>1, <4>2, SameLive
      <3>3. PICK c : c = CallLemmas!Joined(q, taker)
        OBVIOUS
      <3>4. CallLemmas!GoodBook(c)
        BY <1>2, <3>1, <3>2, <3>3, CallLemmas!JoinedGood, LadderAssumption, InputAssumption
        DEF CallLemmas!kNoAccount, kNoAccount
      <3> QED
        BY <2>2, <2>4, <3>3, <3>4 DEF QueuesOK
    <2> QED
      BY <2>3, <2>4
  <1>7. ASSUME NEW o \in Orders, AddOrder(o) PROVE QueuesOK'
    <2>1. QueuesOf(book') = QueuesOf(book)
      BY <1>7 DEF AddOrder, EnterAdd
    <2> QED
      BY <1>1, <1>3, <2>1
  <1>8. ASSUME NEW id \in OrderIds, CancelOrder(id) PROVE QueuesOK'
    <2>1. Contains(book, id) /\ book' = Cancelled(book, id)
      BY <1>8 DEF CancelOrder
    <2>2. /\ id \in Abstract!LiveIds(QueuesOf(book))
          /\ QueuesOf(book') = Abstract!Without(QueuesOf(book), id)
      BY <2>1, BookInOrder, CancelledQueues
    <2> QED
      BY <2>2, WithoutQueuesOK DEF QueuesOK
  <1>9. ASSUME NEW id \in OrderIds, CancelUnknown(id) PROVE QueuesOK'
    <2>1. QueuesOf(book') = QueuesOf(book)
      BY <1>9 DEF CancelUnknown
    <2> QED
      BY <1>1, <1>3, <2>1
  <1>10. ASSUME NEW old \in OrderIds, NEW o \in Orders, ReplaceOrder(old, o) PROVE QueuesOK'
    <2>1. Contains(book, old) /\ book' = Cancelled(book, old)
      BY <1>10 DEF ReplaceOrder, EnterAdd
    <2>2. /\ old \in Abstract!LiveIds(QueuesOf(book))
          /\ QueuesOf(book') = Abstract!Without(QueuesOf(book), old)
      BY <2>1, BookInOrder, CancelledQueues
    <2> QED
      BY <2>2, WithoutQueuesOK DEF QueuesOK
  <1>11. ASSUME NEW old \in OrderIds, NEW o \in Orders, ReplaceRefused(old, o) PROVE QueuesOK'
    <2>1. QueuesOf(book') = QueuesOf(book)
      BY <1>11 DEF ReplaceRefused
    <2> QED
      BY <1>1, <1>3, <2>1
  <1> QED
    BY <1>4, <1>5, <1>6, <1>7, <1>8, <1>9, <1>10, <1>11 DEF Next

(* No step changes the outcome of the call in progress. *)
LEMMA NextKeepsOutcome ==
  ASSUME TypeOK, RepOK, QueuesOK, Next, taker # NoTaker
  PROVE  /\ OutcomeFor(book', taker').queues = OutcomeFor(book, taker).queues
         /\ out'.md \o OutcomeFor(book', taker').md = OutcomeFor(book, taker).md
  <1>1. PICK q, q1 : q = QueuesOf(book) /\ q1 = QueuesOf(book')
    OBVIOUS
  <1>2. CallLemmas!GoodBook(q)
    BY <1>1 DEF QueuesOK
  <1>3. Match \/ Rest \/ Finish
    BY DEF Next, AddOrder, CancelOrder, CancelUnknown, ReplaceOrder, ReplaceRefused
  <1>4. OutcomeFor(book, taker) = CallLemmas!Admitted(q, taker)
    BY <1>1, SameAdmitted DEF OutcomeFor
  <1>5. CASE Match
    <2>1. PICK resting, done, ev :
             /\ CallLemmas!FirstTrade(q, taker, resting, done, ev, q1, taker')
             /\ out'.md = <<ev>> /\ taker' # NoTaker
      BY <1>1, <1>5, MatchTradesFirst
    <2>2. OutcomeFor(book', taker') = CallLemmas!Admitted(q1, taker')
      BY <1>1, <2>1, SameAdmitted DEF OutcomeFor
    <2>3. /\ CallLemmas!Admitted(q, taker).queues = CallLemmas!Admitted(q1, taker').queues
          /\ CallLemmas!Admitted(q, taker).md = <<ev>> \o CallLemmas!Admitted(q1, taker').md
      <3>1. PICK o, o1 : o = taker /\ o1 = taker'
        OBVIOUS
      <3>2. CallLemmas!FirstTrade(q, o, resting, done, ev, q1, o1)
        BY <2>1, <3>1
      <3>3. CallLemmas!BeginsWith(CallLemmas!Admitted(q, o), ev, CallLemmas!Admitted(q1, o1))
        BY <1>2, <3>2, CallLemmas!AdmittedStep, LadderAssumption, InputAssumption
        DEF CallLemmas!kNoAccount, kNoAccount
      <3> QED
        BY <3>1, <3>3, Zenon DEF CallLemmas!BeginsWith
    <2> QED
      BY <1>4, <2>1, <2>2, <2>3
  <1>6. CASE Rest \/ Finish
    <2>1. PICK rests, joined, added :
             /\ rests = (taker.qty > 0 /\ taker.tif = "Gtc")
             /\ joined = CallLemmas!Joined(q, taker)
             /\ added = CallLemmas!MdEventFor("Add", taker, taker.qty)
      OBVIOUS
    <2>2. /\ taker' = NoTaker
          /\ ~ (taker.qty > 0 /\ CallLemmas!Marketable(q, taker.side, taker.price))
          /\ q1 = IF rests THEN joined ELSE q
          /\ out'.md = IF rests THEN <<added>> ELSE <<>>
      BY <1>1, <1>6, <2>1, CallEndsSettled, Zenon
    <2>3. OutcomeFor(book', taker').queues = q1 /\ OutcomeFor(book', taker').md = <<>>
      BY <1>1, <2>2 DEF OutcomeFor, Calls!MatchOutput
    <2>4. PICK m : m = CallLemmas!LoopFrom(q, taker)
      OBVIOUS
    <2>5. m.queues = q /\ m.left = taker.qty /\ m.md = <<>>
      BY <2>4 DEF CallLemmas!LoopFrom
    <2>6. CallLemmas!Admitted(q, taker) = CallLemmas!Settled(m, taker)
      BY <1>2, <2>2, <2>4, CallLemmas!AdmittedEnds, LadderAssumption, InputAssumption
      DEF CallLemmas!kNoAccount, kNoAccount, CallLemmas!GoodBook
    <2>7. CASE ~ rests
      <3>1. CallLemmas!Settled(m, taker) = CallLemmas!MatchOutput(q, <<>>, "None")
        BY <2>1, <2>5, <2>7 DEF CallLemmas!Settled
      <3>2. out'.md = <<>> /\ q1 = q /\ <<>> \o <<>> = <<>>
        BY <2>2, <2>7
      <3> QED
        BY <1>4, <2>3, <2>6, <3>1, <3>2 DEF CallLemmas!MatchOutput
    <2>8. CASE rests
      <3>1. [taker EXCEPT !.qty = m.left] = taker
        BY <2>5, TakerIsOrder
      <3>2. CallLemmas!Settled(m, taker)
              = CallLemmas!MatchOutput(joined, Append(<<>>, added), "None")
        BY <2>1, <2>5, <2>8, <3>1 DEF CallLemmas!Settled
      <3>3. Append(<<>>, added) = <<added>> /\ <<added>> \o <<>> = <<added>>
        OBVIOUS
      <3>4. out'.md = <<added>> /\ q1 = joined
        BY <2>2, <2>8
      <3> QED
        BY <1>4, <2>3, <2>6, <3>2, <3>3, <3>4 DEF CallLemmas!MatchOutput
    <2> QED
      BY <2>7, <2>8
  <1> QED
    BY <1>3, <1>5, <1>6

(***************************************************************************)
(* A call of add_order in steps is the call at once: no iteration of its   *)
(* loop changes the book it will leave or the events it will have emitted, *)
(* and what BookCalls computes from the book and the order it began with   *)
(* is what is left when the loop returns.  This is why BookManager and     *)
(* Exchange may take a call as one step.                                   *)
(***************************************************************************)
THEOREM CallsKeepOutcome == Spec => LoopKeepsOutcome
  <1> DEFINE Inv == TypeOK /\ RepOK /\ QueuesOK
  <1>1. Init => Inv
    BY InitOK, InitQueuesOK
  <1>2. Inv /\ [Next]_vars => Inv'
    BY NextOK, NextQueuesOK
  <1>3. Inv /\ [Next]_vars =>
          [taker # NoTaker =>
             LET before == OutcomeFor(book, taker)
                 after == OutcomeFor(book', taker')
             IN  /\ after.queues = before.queues
                 /\ out'.md \o after.md = before.md]_vars
    BY NextKeepsOutcome
  <1> HIDE DEF Inv
  <1> QED
    BY <1>1, <1>2, <1>3, PTL DEF Spec, LoopKeepsOutcome

(***************************************************************************)
(* The queues of a book are at all times what the exchange takes a book    *)
(* for: no id rests twice, and every order has an owner and something left.*)
(***************************************************************************)
THEOREM QueuesCorrect == Spec => []QueuesOK
  <1>1. Init => TypeOK /\ RepOK /\ QueuesOK
    BY InitOK, InitQueuesOK
  <1>2. TypeOK /\ RepOK /\ QueuesOK /\ [Next]_vars => (TypeOK /\ RepOK /\ QueuesOK)'
    BY NextOK, NextQueuesOK
  <1> QED
    BY <1>1, <1>2, PTL DEF Spec

===============================================================================
