--------------------------- MODULE OrderBookProofs ---------------------------
(***************************************************************************)
(* The representation invariant of OrderBook, proved for every set of ids, *)
(* prices and quantities.                                                  *)
(***************************************************************************)
EXTENDS OrderBook, TLAPS, FiniteSetTheorems, SequenceTheorems, WellFoundedInduction

-----------------------------------------------------------------------------
(* Best levels. *)

(* Levels are finitely many numbers, and NoLevel is none of them. *)
LEMMA LevelsNat == Levels \subseteq Nat /\ IsFiniteSet(Levels) /\ NoLevel \notin Levels
  <1>1. MaxPrice - MinPrice \in Int
    BY LadderAssumption
  <1>2. IsFiniteSet(Levels)
    BY <1>1, FS_Interval DEF Levels
  <1> QED
    BY <1>1, <1>2 DEF Levels, NoLevel

(* A non-empty set of numbers has a least element. *)
LEMMA LeastExists ==
  ASSUME NEW S \in SUBSET Nat, S # {}
  PROVE  \E i \in S : \A j \in S : i <= j
  <1> DEFINE R == OpToRel(<, Nat)
  <1>1. IsWellFoundedOn(R, Nat)
    BY NatLessThanWellFounded
  <1>2. \E i \in S : \A j \in S : ~ (<<j, i>> \in R)
    BY <1>1, WFMin, Zenon
  <1>3. ASSUME NEW i \in S, NEW j \in S, ~ (<<j, i>> \in R)
        PROVE  i <= j
    <2>1. ~ (j < i)
      BY <1>3 DEF OpToRel
    <2> QED
      BY <2>1
  <1> QED
    BY <1>2, <1>3

(* find_lowest_occupied finds the lowest set bit, if there is one. *)
LEMMA FindLowestWorks ==
  ASSUME NEW bits \in SUBSET Levels, bits # {}
  PROVE  /\ FindLowest(bits) \in bits
         /\ \A j \in bits : FindLowest(bits) <= j
  <1>1. \E i \in bits : \A j \in bits : i <= j
    BY LevelsNat, LeastExists
  <1> QED
    BY <1>1 DEF FindLowest

(* find_highest_occupied finds the highest set bit, if there is one. *)
LEMMA FindHighestWorks ==
  ASSUME NEW bits \in SUBSET Levels, bits # {}
  PROVE  /\ FindHighest(bits) \in bits
         /\ \A j \in bits : FindHighest(bits) >= j
  <1> DEFINE top == MaxPrice - MinPrice
             mirrored == {top - i : i \in bits}
  <1>1. top \in Nat
    BY LadderAssumption
  <1>2. mirrored \in SUBSET Nat /\ mirrored # {}
    <2>1. \A i \in bits : top - i \in Nat
      BY <1>1 DEF Levels
    <2> QED
      BY <2>1
  <1>3. PICK m \in mirrored : \A j \in mirrored : m <= j
    BY <1>2, LeastExists
  <1>4. PICK i \in bits : m = top - i
    OBVIOUS
  <1>5. \A j \in bits : i >= j
    <2> TAKE j \in bits
    <2>1. top - j \in mirrored
      OBVIOUS
    <2>2. top - i <= top - j
      BY <1>3, <1>4, <2>1
    <2> QED
      BY <1>1, <2>2 DEF Levels
  <1> QED
    BY <1>5 DEF FindHighest

-----------------------------------------------------------------------------
(* The fields of a book. *)

(* Each field of a book has its type. *)
LEMMA BookFields ==
  ASSUME NEW b \in Books
  PROVE  /\ b.nodes \in Seq(Nodes) /\ b.free \in Seq(Nat)
         /\ b.index \in [OrderIds -> Nat]
         /\ b.levels \in [Sides -> [Levels -> LevelRecords]]
         /\ b.occupied \in [Sides -> SUBSET Levels]
         /\ b.best \in [Sides -> Levels \cup {NoLevel}]
         /\ b.level_count \in [Sides -> Int]
         /\ DOMAIN b.nodes = 1 .. Len(b.nodes) /\ Len(b.nodes) \in Nat
         /\ DOMAIN b.free = 1 .. Len(b.free) /\ Len(b.free) \in Nat
         /\ \A h \in DOMAIN b.nodes : b.nodes[h] \in Nodes
         /\ \A k \in DOMAIN b.free : b.free[k] \in Nat
  BY DEF Books

(* The total of a level is a quantity. *)
LEMMA LevelTotal ==
  ASSUME NEW lv \in LevelRecords
  PROVE  lv.total_qty \in Int
  <1>1. lv.total_qty \in Qty
    BY DEF LevelRecords
  <1> QED
    BY <1>1, QtyAssumption DEF Qty

(* An order add_order or feed_add is about to rest. *)
Restable(o) ==
  /\ o.order_id \in OrderIds
  /\ o.account_id \in Accounts
  /\ o.side \in Sides
  /\ o.price \in Band
  /\ o.qty \in Qty \ {0}

(* A node for an order in the ladder is well typed and on a level. *)
LEMMA NewNodeType ==
  ASSUME NEW o, Restable(o)
  PROVE  /\ NewNode(o) \in Nodes
         /\ PriceToIndex(o.price) \in Levels
  <1>1. PriceToIndex(o.price) \in Levels
    BY LadderAssumption DEF Restable, PriceToIndex, Levels, Band
  <1> QED
    BY <1>1 DEF Restable, NewNode, Nodes, kNull

(* alloc_node takes a slot that is not in use. *)
LEMMA AllocFields ==
  ASSUME NEW b \in Books, PoolOK(b), NEW o, Restable(o),
         NEW i, i = NextHandle(b), NEW a, a = AllocNode(b, o)
  PROVE  /\ i \in Nat \ {0}
         /\ i \notin Active(b)
         /\ a \in Books
         /\ DOMAIN a.nodes = DOMAIN b.nodes \cup {i}
         /\ a.nodes[i] = NewNode(o)
         /\ \A h \in DOMAIN b.nodes \ {i} : a.nodes[h] = b.nodes[h]
         /\ a.free = IF b.free # <<>> THEN SubSeq(b.free, 1, Len(b.free) - 1) ELSE b.free
         /\ a.index = [b.index EXCEPT ![o.order_id] = i]
         /\ a.levels = b.levels /\ a.occupied = b.occupied /\ a.best = b.best
         /\ a.level_count = b.level_count
  <1> DEFINE nodes == IF b.free # <<>> THEN [b.nodes EXCEPT ![i] = NewNode(o)]
                                       ELSE Append(b.nodes, NewNode(o))
             free == IF b.free # <<>> THEN SubSeq(b.free, 1, Len(b.free) - 1) ELSE b.free
             index == [b.index EXCEPT ![o.order_id] = i]
  <1>1. a = [nodes |-> nodes, free |-> free, index |-> index, levels |-> b.levels,
             occupied |-> b.occupied, best |-> b.best, level_count |-> b.level_count]
    BY DEF AllocNode, Books
  <1>2. /\ i \in Nat \ {0}
        /\ i \notin Active(b)
        /\ nodes \in Seq(Nodes)
        /\ DOMAIN nodes = DOMAIN b.nodes \cup {i}
        /\ nodes[i] = NewNode(o)
        /\ \A h \in DOMAIN b.nodes \ {i} : nodes[h] = b.nodes[h]
        /\ free \in Seq(Nat)
    <2>1. CASE b.free = <<>>
      <3>1. i = Len(b.nodes) + 1
        BY <2>1 DEF NextHandle
      <3>2. nodes = Append(b.nodes, NewNode(o)) /\ free = b.free
        BY <2>1
      <3> QED
        BY <3>1, <3>2, BookFields, NewNodeType DEF Active
    <2>2. CASE b.free # <<>>
      <3>1. Len(b.free) \in DOMAIN b.free /\ i = b.free[Len(b.free)]
        BY <2>2, BookFields DEF NextHandle
      <3>2. i \in DOMAIN b.nodes /\ i \notin Active(b)
        BY <3>1 DEF PoolOK, Active
      <3>3. /\ nodes = [b.nodes EXCEPT ![i] = NewNode(o)]
            /\ free = SubSeq(b.free, 1, Len(b.free) - 1)
        BY <2>2
      <3>4. free \in Seq(Nat)
        BY <3>1, <3>3, BookFields
      <3>5. nodes \in Seq(Nodes)
        BY <3>2, <3>3, BookFields, NewNodeType
      <3> QED
        BY <3>2, <3>3, <3>4, <3>5, BookFields
    <2> QED
      BY <2>1, <2>2
  <1>3. index \in [OrderIds -> Nat]
    BY <1>2, BookFields DEF Restable
  <1> HIDE DEF nodes, free, index
  <1>4. a \in Books
    BY <1>1, <1>2, <1>3, BookFields DEF Books
  <1> QED
    BY <1>1, <1>2, <1>4 DEF nodes, free, index

(* What set_occupied changes. *)
LEMMA SetOccupiedFields ==
  ASSUME NEW b \in Books, NEW s \in Sides, NEW l \in Levels,
         NEW c, c = SetOccupied(b, s, l)
  PROVE  /\ c \in Books
         /\ c.nodes = b.nodes /\ c.free = b.free /\ c.index = b.index
         /\ c.levels = b.levels /\ c.level_count = b.level_count
         /\ c.occupied = [b.occupied EXCEPT ![s] = @ \cup {l}]
         /\ c.best = [b.best EXCEPT ![s] = IF @ = NoLevel \/ Better(s, l, @) THEN l ELSE @]
  <1> DEFINE occupied == [b.occupied EXCEPT ![s] = @ \cup {l}]
             best == [b.best EXCEPT ![s] = IF @ = NoLevel \/ Better(s, l, @) THEN l ELSE @]
  <1>1. c = [nodes |-> b.nodes, free |-> b.free, index |-> b.index, levels |-> b.levels,
             occupied |-> occupied, best |-> best, level_count |-> b.level_count]
    BY DEF SetOccupied, Books
  <1>2. occupied \in [Sides -> SUBSET Levels] /\ best \in [Sides -> Levels \cup {NoLevel}]
    BY BookFields
  <1> HIDE DEF occupied, best
  <1>3. c \in Books
    BY <1>1, <1>2, BookFields DEF Books
  <1> QED
    BY <1>1, <1>3 DEF occupied, best

(* Unsigned arithmetic stays in its width. *)
LEMMA QtyMod ==
  ASSUME NEW x \in Int
  PROVE  x % QtyModulus \in Qty
  BY QtyAssumption DEF Qty

(* A level a node joins keeps its widths. *)
LEMMA LevelWithType ==
  ASSUME NEW lv \in LevelRecords, NEW i \in Nat, NEW qty \in Qty
  PROVE  LevelWith(lv, i, qty) \in LevelRecords
  <1>1. lv.total_qty + qty \in Int
    BY QtyAssumption DEF LevelRecords, Qty
  <1>2. (lv.total_qty + qty) % QtyModulus \in Qty
    BY <1>1, QtyMod
  <1> QED
    BY <1>2 DEF LevelRecords, LevelWith

(* A function on 1 .. n is a sequence. *)
LEMMA FunctionIsSeq ==
  ASSUME NEW S, NEW n \in Nat, NEW f \in [1 .. n -> S]
  PROVE  f \in Seq(S)
  <1>1. f \in UNION {[1 .. k -> S] : k \in Nat}
    OBVIOUS
  <1> QED
    BY <1>1, SeqDef, Zenon

(* Two nodes hold the same order. *)
SameOrder(m, n) ==
  /\ m.order_id = n.order_id /\ m.account_id = n.account_id
  /\ m.side = n.side /\ m.price = n.price /\ m.qty = n.qty
  /\ m.level_idx = n.level_idx /\ m.active = n.active

(* nodes with other links. *)
Relinked(new, old) ==
  /\ new \in Seq(Nodes)
  /\ DOMAIN new = DOMAIN old
  /\ \A h \in DOMAIN old : SameOrder(new[h], old[h])

(* What indexing the pool gives. *)
LEMMA NodeSeq ==
  ASSUME NEW nodes \in Seq(Nodes)
  PROVE  /\ DOMAIN nodes = 1 .. Len(nodes) /\ Len(nodes) \in Nat
         /\ \A h \in DOMAIN nodes : h \in Nat /\ nodes[h] \in Nodes
  OBVIOUS

LinksChanged(new, old) ==
  /\ new = [h \in DOMAIN old |-> new[h]]
  /\ \A h \in DOMAIN old : \E prev, next \in Nat :
       new[h] = [old[h] EXCEPT !.prev = prev, !.next = next]

(* Changing links only leaves every node its order. *)
LEMMA RelinkType ==
  ASSUME NEW nodes \in Seq(Nodes), NEW m, LinksChanged(m, nodes)
  PROVE  Relinked(m, nodes)
  <1>1. /\ DOMAIN nodes = 1 .. Len(nodes) /\ Len(nodes) \in Nat
        /\ \A h \in DOMAIN nodes : nodes[h] \in Nodes
    BY NodeSeq, Zenon
  <1>2. \A h \in DOMAIN nodes : m[h] \in Nodes /\ SameOrder(m[h], nodes[h])
    <2> TAKE h \in DOMAIN nodes
    <2>1. nodes[h] \in Nodes
      BY <1>1
    <2>2. PICK prev \in Nat, next \in Nat :
            m[h] = [nodes[h] EXCEPT !.prev = prev, !.next = next]
      BY DEF LinksChanged
    <2> QED
      BY <2>1, <2>2 DEF Nodes, SameOrder
  <1>3. m \in [1 .. Len(nodes) -> Nodes]
    BY <1>1, <1>2 DEF LinksChanged
  <1>4. m \in Seq(Nodes)
    BY <1>1, <1>3, FunctionIsSeq, Zenon
  <1> QED
    BY <1>1, <1>2, <1>3, <1>4 DEF Relinked

(* What the linking in append_to_level does to the slots. *)
LEMMA LinkLastFields ==
  ASSUME NEW nodes \in Seq(Nodes), NEW i \in DOMAIN nodes, NEW tail \in Nat,
         NEW m, m = LinkLast(nodes, i, tail)
  PROVE  /\ Relinked(m, nodes)
         /\ m[i].prev = tail /\ m[i].next = kNull
         /\ \A h \in DOMAIN nodes \ {i} :
              /\ m[h].prev = nodes[h].prev
              /\ m[h].next = IF h = tail THEN i ELSE nodes[h].next
  <1>1. \A h \in DOMAIN nodes : h \in Nat /\ nodes[h] \in Nodes
    BY NodeSeq, Zenon
  <1>2. \A h \in DOMAIN nodes :
          m[h] = [nodes[h] EXCEPT !.prev = IF h = i THEN tail ELSE @,
                                  !.next = IF h = i THEN kNull ELSE IF h = tail THEN i ELSE @]
    BY DEF LinkLast
  <1>3. DOMAIN m = DOMAIN nodes /\ m = [h \in DOMAIN nodes |-> m[h]]
    BY DEF LinkLast
  <1>4. \A h \in DOMAIN nodes : \E prev, next \in Nat :
          m[h] = [nodes[h] EXCEPT !.prev = prev, !.next = next]
    <2> TAKE h \in DOMAIN nodes
    <2>1. nodes[h] \in Nodes /\ h \in Nat /\ i \in Nat
      BY <1>1
    <2> QED
      BY ZenonT(40), <1>2, <2>1 DEF Nodes, kNull
  <1>5. Relinked(m, nodes)
    <2>1. LinksChanged(m, nodes)
      BY <1>3, <1>4 DEF LinksChanged
    <2> QED
      BY <2>1, RelinkType
  <1>6. \A h \in DOMAIN nodes :
          /\ m[h].prev = IF h = i THEN tail ELSE nodes[h].prev
          /\ m[h].next = IF h = i THEN kNull ELSE IF h = tail THEN i ELSE nodes[h].next
    <2> TAKE h \in DOMAIN nodes
    <2>1. nodes[h] \in Nodes
      BY <1>1
    <2>2. m[h] = [nodes[h] EXCEPT !.prev = IF h = i THEN tail ELSE @,
                                  !.next = IF h = i THEN kNull ELSE IF h = tail THEN i ELSE @]
      BY <1>2
    <2> QED
      BY <2>1, <2>2 DEF Nodes
  <1> QED
    BY <1>5, <1>6

(* What append_to_level changes. *)
LEMMA AppendFields ==
  ASSUME NEW b \in Books, NEW i \in DOMAIN b.nodes,
         NEW c, c = AppendToLevel(b, i), NEW n, n = b.nodes[i],
         NEW s, s = n.side, NEW l, l = n.level_idx, NEW lv, lv = b.levels[s][l]
  PROVE  /\ c \in Books
         /\ c.nodes = LinkLast(b.nodes, i, lv.tail)
         /\ c.free = b.free /\ c.index = b.index
         /\ c.levels = [b.levels EXCEPT ![s][l] = LevelWith(lv, i, n.qty)]
         /\ c.occupied = IF lv.count = 0 THEN [b.occupied EXCEPT ![s] = @ \cup {l}]
                                         ELSE b.occupied
         /\ c.best = IF lv.count = 0
                     THEN [b.best EXCEPT ![s] =
                             IF @ = NoLevel \/ Better(s, l, @) THEN l ELSE @]
                     ELSE b.best
         /\ c.level_count = IF lv.count = 0 THEN [b.level_count EXCEPT ![s] = @ + 1]
                                            ELSE b.level_count
  <1> DEFINE nodes == LinkLast(b.nodes, i, lv.tail)
             levels == [b.levels EXCEPT ![s][l] = LevelWith(lv, i, n.qty)]
             linked == [b EXCEPT !.nodes = nodes, !.levels = levels]
             counts == [b.level_count EXCEPT ![s] = @ + 1]
             counted == [linked EXCEPT !.level_count = counts]
  <1>1. /\ i \in Nat /\ n \in Nodes
        /\ s \in Sides /\ l \in Levels /\ lv \in LevelRecords
        /\ lv.tail \in Nat /\ n.qty \in Qty
    <2>1. i \in Nat /\ n \in Nodes
      BY BookFields
    <2>2. s \in Sides /\ l \in Levels /\ n.qty \in Qty
      BY <2>1 DEF Nodes
    <2>3. lv \in LevelRecords
      BY <2>2, BookFields
    <2> QED
      BY <2>1, <2>2, <2>3 DEF LevelRecords
  <1>2. nodes \in Seq(Nodes)
    BY <1>1, BookFields, LinkLastFields DEF Relinked
  <1>3. levels \in [Sides -> [Levels -> LevelRecords]]
    BY <1>1, BookFields, LevelWithType
  <1>4. counts \in [Sides -> Int]
    BY <1>1, BookFields
  <1>5. linked.level_count = b.level_count
    BY DEF Books
  <1>6. c = IF lv.count = 0 THEN SetOccupied(counted, s, l) ELSE linked
    BY <1>5 DEF AppendToLevel, Books
  <1> HIDE DEF nodes, levels, counts
  <1>7. linked \in Books /\ counted \in Books
    BY <1>2, <1>3, <1>4 DEF Books
  <1>8. CASE lv.count = 0
    <2>1. c = SetOccupied(counted, s, l)
      BY <1>6, <1>8
    <2>2. /\ counted.nodes = nodes /\ counted.free = b.free /\ counted.index = b.index
          /\ counted.levels = levels /\ counted.occupied = b.occupied
          /\ counted.best = b.best /\ counted.level_count = counts
      BY DEF Books
    <2>0. counted \in Books /\ s \in Sides /\ l \in Levels
      BY <1>1, <1>7
    <2> HIDE DEF counted
    <2>3. /\ c \in Books
          /\ c.nodes = counted.nodes /\ c.free = counted.free /\ c.index = counted.index
          /\ c.levels = counted.levels /\ c.level_count = counted.level_count
          /\ c.occupied = [counted.occupied EXCEPT ![s] = @ \cup {l}]
          /\ c.best = [counted.best EXCEPT ![s] =
                         IF @ = NoLevel \/ Better(s, l, @) THEN l ELSE @]
      BY <2>0, <2>1, SetOccupiedFields
    <2> QED
      BY ZenonT(40), <1>8, <2>2, <2>3 DEF nodes, levels, counts
  <1>9. CASE lv.count # 0
    <2>1. c = linked
      BY <1>6, <1>9
    <2>2. /\ c.nodes = nodes /\ c.free = b.free /\ c.index = b.index
          /\ c.levels = levels /\ c.occupied = b.occupied
          /\ c.best = b.best /\ c.level_count = b.level_count
      BY <2>1 DEF Books
    <2> QED
      BY <1>7, <1>9, <2>1, <2>2 DEF nodes, levels
  <1> QED
    BY <1>8, <1>9

(***************************************************************************)
(* alloc_node and append_to_level together: c is b with o resting in slot  *)
(* i, at the end of level l of side s, where lv was.                       *)
(***************************************************************************)
Rested(b, o, i, c, s, l, lv) ==
  /\ b \in Books /\ Restable(o) /\ s = o.side /\ l = PriceToIndex(o.price)
  /\ i = NextHandle(b)
  /\ i \in Nat \ {0} /\ i \notin Active(b)
  /\ s \in Sides /\ l \in Levels /\ lv \in LevelRecords /\ lv = b.levels[s][l]
  /\ c \in Books
  /\ DOMAIN c.nodes = DOMAIN b.nodes \cup {i}
  /\ SameOrder(c.nodes[i], NewNode(o))
  /\ c.nodes[i].prev = lv.tail /\ c.nodes[i].next = kNull
  /\ \A h \in DOMAIN b.nodes \ {i} :
       /\ SameOrder(c.nodes[h], b.nodes[h])
       /\ c.nodes[h].prev = b.nodes[h].prev
       /\ c.nodes[h].next = IF h = lv.tail THEN i ELSE b.nodes[h].next
  /\ c.free = IF b.free # <<>> THEN SubSeq(b.free, 1, Len(b.free) - 1) ELSE b.free
  /\ c.index = [b.index EXCEPT ![o.order_id] = i]
  /\ c.levels = [b.levels EXCEPT ![s][l] = LevelWith(lv, i, o.qty)]
  /\ c.occupied = IF lv.count = 0 THEN [b.occupied EXCEPT ![s] = @ \cup {l}]
                                  ELSE b.occupied
  /\ c.best = IF lv.count = 0
              THEN [b.best EXCEPT ![s] = IF @ = NoLevel \/ Better(s, l, @) THEN l ELSE @]
              ELSE b.best
  /\ c.level_count = IF lv.count = 0 THEN [b.level_count EXCEPT ![s] = @ + 1]
                                     ELSE b.level_count

(* What alloc_node and append_to_level together change. *)
LEMMA RestFields ==
  ASSUME NEW b \in Books, PoolOK(b), NEW o, Restable(o),
         NEW i, i = NextHandle(b), NEW c, c = RestOrder(b, o),
         NEW s, s = o.side, NEW l, l = PriceToIndex(o.price),
         NEW lv, lv = b.levels[s][l]
  PROVE  Rested(b, o, i, c, s, l, lv)
  <1>1. PICK a : a = AllocNode(b, o)
    OBVIOUS
  <1>2. /\ i \in Nat \ {0}
        /\ i \notin Active(b)
        /\ a \in Books
        /\ DOMAIN a.nodes = DOMAIN b.nodes \cup {i}
        /\ a.nodes[i] = NewNode(o)
        /\ \A h \in DOMAIN b.nodes \ {i} : a.nodes[h] = b.nodes[h]
        /\ a.free = IF b.free # <<>> THEN SubSeq(b.free, 1, Len(b.free) - 1) ELSE b.free
        /\ a.index = [b.index EXCEPT ![o.order_id] = i]
        /\ a.levels = b.levels /\ a.occupied = b.occupied /\ a.best = b.best
        /\ a.level_count = b.level_count
    BY <1>1, AllocFields
  <1>3. s \in Sides /\ l \in Levels
    BY NewNodeType DEF Restable
  <1>4. lv \in LevelRecords /\ lv.tail \in Nat
    BY <1>3, BookFields DEF LevelRecords
  <1>5. c = AppendToLevel(a, i)
    BY <1>1 DEF RestOrder
  <1>6. a.nodes[i].side = s /\ a.nodes[i].level_idx = l /\ a.nodes[i].qty = o.qty
    BY <1>2 DEF NewNode
  <1>7. /\ c \in Books
        /\ c.nodes = LinkLast(a.nodes, i, lv.tail)
        /\ c.free = a.free /\ c.index = a.index
        /\ c.levels = [a.levels EXCEPT ![s][l] = LevelWith(lv, i, o.qty)]
        /\ c.occupied = IF lv.count = 0 THEN [a.occupied EXCEPT ![s] = @ \cup {l}]
                                        ELSE a.occupied
        /\ c.best = IF lv.count = 0
                    THEN [a.best EXCEPT ![s] =
                            IF @ = NoLevel \/ Better(s, l, @) THEN l ELSE @]
                    ELSE a.best
        /\ c.level_count = IF lv.count = 0 THEN [a.level_count EXCEPT ![s] = @ + 1]
                                           ELSE a.level_count
    BY SMTT(30), <1>2, <1>5, <1>6, AppendFields
  <1>8. a.nodes \in Seq(Nodes) /\ i \in DOMAIN a.nodes
    BY <1>2, BookFields
  <1>9. c.nodes = LinkLast(a.nodes, i, lv.tail)
    BY <1>7
  <1>10. /\ Relinked(c.nodes, a.nodes)
         /\ c.nodes[i].prev = lv.tail /\ c.nodes[i].next = kNull
         /\ \A h \in DOMAIN a.nodes \ {i} :
              /\ c.nodes[h].prev = a.nodes[h].prev
              /\ c.nodes[h].next = IF h = lv.tail THEN i ELSE a.nodes[h].next
    <2> DEFINE nodes == a.nodes
               linked == c.nodes
               tail == lv.tail
    <2>1. /\ nodes \in Seq(Nodes) /\ i \in DOMAIN nodes /\ tail \in Nat
          /\ linked = LinkLast(nodes, i, tail)
      BY <1>4, <1>8, <1>9
    <2> HIDE DEF nodes, linked, tail
    <2>2. /\ Relinked(linked, nodes)
          /\ linked[i].prev = tail /\ linked[i].next = kNull
          /\ \A h \in DOMAIN nodes \ {i} :
               /\ linked[h].prev = nodes[h].prev
               /\ linked[h].next = IF h = tail THEN i ELSE nodes[h].next
      BY <2>1, LinkLastFields
    <2> QED
      BY <2>2 DEF nodes, linked, tail
  <1>11. /\ DOMAIN c.nodes = DOMAIN b.nodes \cup {i}
         /\ SameOrder(c.nodes[i], NewNode(o))
         /\ \A h \in DOMAIN b.nodes \ {i} :
              /\ SameOrder(c.nodes[h], b.nodes[h])
              /\ c.nodes[h].prev = b.nodes[h].prev
              /\ c.nodes[h].next = IF h = lv.tail THEN i ELSE b.nodes[h].next
    BY <1>2, <1>10 DEF Relinked
  <1>12. /\ c.index = [b.index EXCEPT ![o.order_id] = i]
         /\ c.levels = [b.levels EXCEPT ![s][l] = LevelWith(lv, i, o.qty)]
         /\ c.occupied = IF lv.count = 0 THEN [b.occupied EXCEPT ![s] = @ \cup {l}]
                                         ELSE b.occupied
         /\ c.best = IF lv.count = 0
                     THEN [b.best EXCEPT ![s] =
                             IF @ = NoLevel \/ Better(s, l, @) THEN l ELSE @]
                     ELSE b.best
         /\ c.level_count = IF lv.count = 0 THEN [b.level_count EXCEPT ![s] = @ + 1]
                                            ELSE b.level_count
    BY <1>2, <1>7
  <1>13. c.free = IF b.free # <<>> THEN SubSeq(b.free, 1, Len(b.free) - 1) ELSE b.free
    BY <1>2, <1>7
  <1> QED
    BY <1>2, <1>3, <1>4, <1>7, <1>10, <1>11, <1>12, <1>13 DEF Rested

(* The orders are those there were and the new one. *)
LEMMA RestedMembers ==
  ASSUME NEW b, NEW o, NEW i, NEW c, NEW lv, NEW s, NEW l,
         Rested(b, o, i, c, s, l, lv)
  PROVE  /\ Active(c) = Active(b) \cup {i}
         /\ Members(c, s, l) = Members(b, s, l) \cup {i}
         /\ \A t \in Sides, m \in Levels :
              t # s \/ m # l => Members(c, t, m) = Members(b, t, m)
  <1>1. /\ i \notin Active(b)
        /\ DOMAIN c.nodes = DOMAIN b.nodes \cup {i}
        /\ c.nodes[i].active = TRUE /\ c.nodes[i].side = s /\ c.nodes[i].level_idx = l
        /\ \A h \in DOMAIN b.nodes \ {i} : SameOrder(c.nodes[h], b.nodes[h])
    <2>1. /\ s = o.side /\ l = PriceToIndex(o.price) /\ i \notin Active(b)
          /\ DOMAIN c.nodes = DOMAIN b.nodes \cup {i}
          /\ SameOrder(c.nodes[i], NewNode(o))
      BY DEF Rested
    <2>2. \A h \in DOMAIN b.nodes \ {i} : SameOrder(c.nodes[h], b.nodes[h])
      BY DEF Rested
    <2>3. c.nodes[i].active = TRUE /\ c.nodes[i].side = s /\ c.nodes[i].level_idx = l
      BY <2>1 DEF SameOrder, NewNode
    <2> QED
      BY <2>1, <2>2, <2>3
  <1>2. Active(c) = Active(b) \cup {i}
    BY <1>1 DEF Active, SameOrder
  <1>3. \A h \in Active(b) : /\ h # i
                            /\ c.nodes[h].side = b.nodes[h].side
                            /\ c.nodes[h].level_idx = b.nodes[h].level_idx
    BY <1>1 DEF Active, SameOrder
  <1> QED
    BY <1>1, <1>2, <1>3 DEF Members

(* alloc_node takes a slot off the free stack, or a new one. *)
LEMMA RestedPool ==
  ASSUME NEW b, NEW o, NEW i, NEW c, NEW lv, NEW s, NEW l,
         Rested(b, o, i, c, s, l, lv),
         PoolOK(b)
  PROVE  PoolOK(c)
  <1>1. /\ Active(c) = Active(b) \cup {i}
        /\ DOMAIN c.nodes = DOMAIN b.nodes \cup {i}
    <2>1. Active(c) = Active(b) \cup {i}
      BY RestedMembers
    <2> QED
      BY <2>1 DEF Rested
  <1>0. b \in Books /\ i = NextHandle(b)
    BY DEF Rested
  <1>2. CASE b.free = <<>>
    <2>1. c.free = <<>> /\ i = Len(b.nodes) + 1 /\ DOMAIN c.free = {}
      <3>1. /\ c.free = IF b.free # <<>> THEN SubSeq(b.free, 1, Len(b.free) - 1)
                                        ELSE b.free
            /\ i = NextHandle(b)
        BY DEF Rested
      <3>2. c.free = <<>> /\ i = Len(b.nodes) + 1
        BY <3>1, <1>2 DEF NextHandle
      <3> QED
        BY <3>2
    <2>2. \A h \in DOMAIN b.nodes : h \in Active(b)
      BY <1>2 DEF PoolOK
    <2> QED
      BY <1>1, <2>1, <2>2 DEF PoolOK
  <1>3. CASE b.free # <<>>
    <2> DEFINE n == Len(b.free)
    <2>1. /\ n \in Nat \ {0} /\ i = b.free[n] /\ n \in DOMAIN b.free
          /\ DOMAIN b.free = 1 .. n
      BY <1>0, <1>3, BookFields DEF NextHandle
    <2>2. c.free = SubSeq(b.free, 1, n - 1)
      BY <1>3 DEF Rested
    <2>3. DOMAIN c.free = 1 .. (n - 1) /\ \A k \in 1 .. (n - 1) : c.free[k] = b.free[k]
      BY <1>0, <2>1, <2>2, BookFields
    <2>4. DOMAIN c.nodes = DOMAIN b.nodes
      BY <1>1, <2>1 DEF PoolOK
    <2>5. \A h \in DOMAIN c.nodes :
            h \in Active(c) <=> \A k \in DOMAIN c.free : c.free[k] # h
      <3> TAKE h \in DOMAIN c.nodes
      <3>1. h \in Active(b) <=> \A k \in DOMAIN b.free : b.free[k] # h
        BY <2>4 DEF PoolOK
      <3>2. CASE h = i
        BY <1>1, <2>1, <2>3, <3>2 DEF PoolOK
      <3>3. CASE h # i
        BY SMTT(30), <1>1, <2>1, <2>3, <3>1, <3>3
      <3> QED
        BY <3>2, <3>3
    <2>6. \A k \in DOMAIN c.free : c.free[k] \in DOMAIN c.nodes
      BY <2>1, <2>3, <2>4 DEF PoolOK
    <2>7. \A j, k \in DOMAIN c.free : c.free[j] = c.free[k] => j = k
      BY <2>1, <2>3 DEF PoolOK
    <2> QED
      BY <2>5, <2>6, <2>7 DEF PoolOK
  <1> QED
    BY <1>2, <1>3

(* The id enters index_ with its node. *)
LEMMA RestedIndex ==
  ASSUME NEW b, NEW o, NEW i, NEW c, NEW lv, NEW s, NEW l,
         Rested(b, o, i, c, s, l, lv),
         IndexOK(b), PlacedOK(b), OpenOK(b), ~ Contains(b, o.order_id)
  PROVE  IndexOK(c) /\ PlacedOK(c) /\ OpenOK(c)
  <1>1. /\ Active(c) = Active(b) \cup {i}
        /\ i \notin Active(b) /\ i # 0
        /\ c.index = [b.index EXCEPT ![o.order_id] = i] /\ b.index \in [OrderIds -> Nat]
        /\ SameOrder(c.nodes[i], NewNode(o))
    <2>1. Active(c) = Active(b) \cup {i}
      BY RestedMembers
    <2> QED
      BY <2>1, BookFields DEF Rested
  <1>2. \A h \in Active(b) : SameOrder(c.nodes[h], b.nodes[h])
    BY <1>1 DEF Rested, Active
  <1>3. /\ c.nodes[i].order_id = o.order_id /\ o.order_id \in OrderIds
        /\ c.nodes[i].price = o.price /\ c.nodes[i].qty = o.qty
        /\ c.nodes[i].level_idx = PriceToIndex(o.price)
        /\ o.price \in Band /\ o.qty > 0
    <2>1. Restable(o)
      BY DEF Rested
    <2> QED
      BY <1>1, <2>1, QtyAssumption DEF SameOrder, NewNode, Restable, Qty
  <1>4. IndexOK(c)
    <2>1. \A h \in Active(b) :
            /\ c.nodes[h].order_id = b.nodes[h].order_id
            /\ b.nodes[h].order_id \in OrderIds
            /\ b.nodes[h].order_id # o.order_id
            /\ b.index[b.nodes[h].order_id] = h
      <3>1. \A h \in Active(b) : h # 0
        <4>1. b \in Books
          BY DEF Rested
        <4>2. DOMAIN b.nodes = 1 .. Len(b.nodes) /\ Len(b.nodes) \in Nat
          BY <4>1, BookFields
        <4> QED
          BY <4>2 DEF Active
      <3>2. \A h \in Active(b) : c.nodes[h].order_id = b.nodes[h].order_id
        BY <1>2 DEF SameOrder
      <3> QED
        BY <3>1, <3>2 DEF IndexOK, Contains, kNull
    <2>2. \A id \in OrderIds \ {o.order_id} :
            /\ c.index[id] = b.index[id]
            /\ Contains(b, id) => b.index[id] \in Active(b) /\ b.nodes[b.index[id]].order_id = id
      BY <1>1 DEF IndexOK
    <2>3. c.index[o.order_id] = i
      BY <1>1, <1>3
    <2> QED
      BY <1>1, <1>3, <2>1, <2>2, <2>3 DEF IndexOK, Contains
  <1>5. PlacedOK(c)
    BY <1>1, <1>2, <1>3 DEF PlacedOK, SameOrder
  <1>6. OpenOK(c)
    BY <1>1, <1>2, <1>3 DEF OpenOK, SameOrder
  <1> QED
    BY <1>4, <1>5, <1>6

(* The new order is the last of its line; the other lines stay as they are. *)
LEMMA RestedLines ==
  ASSUME NEW b, NEW o, NEW i, NEW c, NEW lv, NEW s, NEW l,
         Rested(b, o, i, c, s, l, lv), LinesOK(b)
  PROVE  LinesOK(c)
  <1>1. /\ b \in Books /\ i \notin Active(b)
        /\ s \in Sides /\ l \in Levels /\ lv \in LevelRecords /\ lv = b.levels[s][l]
        /\ c.levels = [b.levels EXCEPT ![s][l] = LevelWith(lv, i, o.qty)]
        /\ b.levels \in [Sides -> [Levels -> LevelRecords]]
        /\ c.nodes[i].prev = lv.tail /\ c.nodes[i].next = kNull /\ i # 0 /\ i \in Nat
    BY BookFields DEF Rested
  <1>2. \A h \in Active(b) : /\ h # 0 /\ h # i
                            /\ c.nodes[h].prev = b.nodes[h].prev
                            /\ c.nodes[h].next = IF h = lv.tail THEN i ELSE b.nodes[h].next
    <2>1. DOMAIN b.nodes = 1 .. Len(b.nodes) /\ Len(b.nodes) \in Nat
      BY <1>1, BookFields
    <2>2. \A h \in DOMAIN b.nodes \ {i} :
            /\ c.nodes[h].prev = b.nodes[h].prev
            /\ c.nodes[h].next = IF h = lv.tail THEN i ELSE b.nodes[h].next
      BY DEF Rested
    <2>3. \A h \in Active(b) : h \in DOMAIN b.nodes /\ h # i /\ h # 0
      BY <1>1, <2>1 DEF Active
    <2> QED
      BY <2>2, <2>3
  <1>3. /\ Members(c, s, l) = Members(b, s, l) \cup {i}
        /\ \A t \in Sides, m \in Levels :
             t # s \/ m # l => Members(c, t, m) = Members(b, t, m)
    BY RestedMembers
  <1>4. lv.count \in Nat /\ lv.tail \in Nat /\ lv.head \in Nat
    BY <1>1 DEF LevelRecords
  <1>5. PICK old \in [1 .. lv.count -> Members(b, s, l)] : IsLine(b, s, l, old)
    BY <1>1 DEF LinesOK
  <1>6. /\ \A h \in Members(b, s, l) : \E k \in 1 .. lv.count : old[k] = h
        /\ \A j, k \in 1 .. lv.count : old[j] = old[k] => j = k
        /\ lv.head = (IF lv.count = 0 THEN kNull ELSE old[1])
        /\ lv.tail = (IF lv.count = 0 THEN kNull ELSE old[lv.count])
        /\ \A k \in 1 .. lv.count :
             /\ b.nodes[old[k]].prev = (IF k = 1 THEN kNull ELSE old[k - 1])
             /\ b.nodes[old[k]].next = (IF k = lv.count THEN kNull ELSE old[k + 1])
    BY <1>1, <1>5 DEF IsLine
  <1>7. \A h \in Members(b, s, l) : h \in Active(b) /\ h # 0
    BY <1>2 DEF Members
  <1>8. lv.count # 0 => lv.count \in 1 .. lv.count /\ lv.tail \in Members(b, s, l)
    BY <1>4, <1>5, <1>6
  <1>9. /\ \A h \in Members(b, s, l) : h \in Active(b)
        /\ lv.tail # 0 => lv.tail \in Members(b, s, l)
        /\ lv.tail = 0 <=> lv.count = 0
    BY <1>6, <1>7, <1>8 DEF kNull
  <1>10. ASSUME NEW t \in Sides, NEW m \in Levels, t # s \/ m # l
        PROVE  \E line \in [1 .. c.levels[t][m].count -> Members(c, t, m)] :
                  IsLine(c, t, m, line)
    <2>1. c.levels[t][m] = b.levels[t][m] /\ Members(c, t, m) = Members(b, t, m)
      BY <1>1, <1>3, <1>10
    <2>2. PICK line \in [1 .. b.levels[t][m].count -> Members(b, t, m)] :
             IsLine(b, t, m, line)
      BY DEF LinesOK
    <2>3. \A h \in Members(b, t, m) : h \in Active(b) /\ h # lv.tail
      BY <1>2, <1>9, <1>10 DEF Members
    <2>4. \A h \in Members(b, t, m) : /\ c.nodes[h].prev = b.nodes[h].prev
                                     /\ c.nodes[h].next = b.nodes[h].next
      BY <1>2, <2>3
    <2>5. IsLine(c, t, m, line)
      BY ZenonT(40), <2>1, <2>2, <2>4 DEF IsLine
    <2> QED
      BY <2>1, <2>2, <2>5
  <1>11. \E line \in [1 .. c.levels[s][l].count -> Members(c, s, l)] : IsLine(c, s, l, line)
    <2> DEFINE new == c.levels[s][l]
               line == [k \in 1 .. lv.count + 1 |-> IF k <= lv.count THEN old[k] ELSE i]
    <2>1. /\ new.head = IF lv.tail = kNull THEN i ELSE lv.head
          /\ new.tail = i
          /\ new.count = lv.count + 1
      BY <1>1 DEF LevelWith
    <2> HIDE DEF new
    <2>2. line \in [1 .. new.count -> Members(c, s, l)]
      BY <1>3, <1>4, <2>1
    <2>3. /\ \A k \in 1 .. lv.count : line[k] = old[k] /\ old[k] \in Members(b, s, l)
          /\ line[lv.count + 1] = i
          /\ i \notin Members(b, s, l)
      <3>1. \A k \in 1 .. lv.count : line[k] = old[k]
        BY <1>4
      <3>2. \A k \in 1 .. lv.count : old[k] \in Members(b, s, l)
        BY <1>5
      <3>3. line[lv.count + 1] = i
        BY <1>4
      <3>4. i \notin Members(b, s, l)
        BY <1>1, <1>9
      <3> QED
        BY <3>1, <3>2, <3>3, <3>4
    <2> HIDE DEF line
    <2>4. \A h \in Members(c, s, l) : \E k \in 1 .. new.count : line[k] = h
      <3> TAKE h \in Members(c, s, l)
      <3>1. CASE h = i
        BY <1>4, <2>1, <2>3, <3>1
      <3>2. CASE h # i
        <4>1. PICK k \in 1 .. lv.count : old[k] = h
          BY <1>3, <1>6, <3>2
        <4> QED
          BY <1>4, <2>1, <2>3, <4>1
      <3> QED
        BY <3>1, <3>2
    <2>5. \A j, k \in 1 .. new.count : line[j] = line[k] => j = k
      <3> TAKE j, k \in 1 .. new.count
      <3>1. \A x \in 1 .. new.count : x \in 1 .. lv.count \/ x = lv.count + 1
        BY <1>4, <2>1
      <3>2. \A x \in 1 .. lv.count : line[x] # i
        BY <2>3
      <3>3. \A x, y \in 1 .. lv.count : line[x] = line[y] => x = y
        BY <1>6, <2>3
      <3> QED
        BY <2>3, <3>1, <3>2, <3>3
    <2>6. /\ new.head = IF new.count = 0 THEN kNull ELSE line[1]
          /\ new.tail = IF new.count = 0 THEN kNull ELSE line[new.count]
      BY <1>4, <1>9, <1>6, <2>1, <2>3 DEF kNull
    <2>7. \A k \in 1 .. new.count :
            /\ c.nodes[line[k]].prev = IF k = 1 THEN kNull ELSE line[k - 1]
            /\ c.nodes[line[k]].next = IF k = new.count THEN kNull ELSE line[k + 1]
      <3> TAKE k \in 1 .. new.count
      <3>1. CASE k = lv.count + 1
        <4>1. line[k] = i /\ k = new.count
          BY <2>1, <2>3, <3>1
        <4>2. lv.count # 0 => k # 1 /\ line[k - 1] = old[lv.count]
          BY <1>4, <2>3, <3>1
        <4>3. lv.count = 0 => k = 1
          BY <3>1
        <4> QED
          BY <1>1, <1>6, <4>1, <4>2, <4>3
      <3>2. CASE k # lv.count + 1
        <4>1. k \in 1 .. lv.count /\ line[k] = old[k] /\ old[k] \in Active(b)
          BY <1>4, <1>9, <2>1, <2>3, <3>2
        <4>2. /\ b.nodes[old[k]].prev = IF k = 1 THEN kNull ELSE old[k - 1]
              /\ b.nodes[old[k]].next = IF k = lv.count THEN kNull ELSE old[k + 1]
              /\ old[k] = lv.tail <=> k = lv.count
          BY <1>4, <1>6, <4>1
        <4>3. c.nodes[line[k]].prev = IF k = 1 THEN kNull ELSE line[k - 1]
          BY <1>2, <1>4, <2>3, <4>1, <4>2
        <4>4. c.nodes[line[k]].next = line[k + 1]
          BY <1>2, <1>4, <2>3, <4>1, <4>2
        <4> QED
          BY <2>1, <3>2, <4>3, <4>4
      <3> QED
        BY <3>1, <3>2
    <2>8. IsLine(c, s, l, line)
      BY <2>4, <2>5, <2>6, <2>7 DEF IsLine, new
    <2> QED
      BY <2>2, <2>8 DEF new
  <1> QED
    BY <1>10, <1>11 DEF LinesOK

(* The bitmap, the counters and the cached best level follow the addition. *)
LEMMA RestedBest ==
  ASSUME NEW b, NEW o, NEW i, NEW c, NEW lv, NEW s, NEW l,
         Rested(b, o, i, c, s, l, lv), BestOK(b)
  PROVE  BestOK(c)
  <1>1. /\ b \in Books /\ c \in Books
        /\ s \in Sides /\ l \in Levels /\ lv \in LevelRecords /\ lv = b.levels[s][l]
        /\ c.levels = [b.levels EXCEPT ![s][l] = LevelWith(lv, i, o.qty)]
        /\ b.levels \in [Sides -> [Levels -> LevelRecords]]
        /\ b.occupied \in [Sides -> SUBSET Levels]
        /\ b.best \in [Sides -> Levels \cup {NoLevel}]
        /\ b.level_count \in [Sides -> Int]
    BY BookFields DEF Rested
  <1>2. \A t \in Sides, m \in Levels :
          c.levels[t][m].count = IF t = s /\ m = l THEN lv.count + 1 ELSE b.levels[t][m].count
    BY <1>1 DEF LevelWith
  <1>3. lv.count \in Nat
    BY <1>1 DEF LevelRecords
  <1>4. \A t \in Sides :
          /\ \A m \in Levels : m \in b.occupied[t] <=> b.levels[t][m].count > 0
          /\ b.level_count[t] = Cardinality(b.occupied[t])
          /\ b.best[t] = NoLevel => b.occupied[t] = {}
          /\ b.best[t] # NoLevel =>
               /\ b.best[t] \in b.occupied[t]
               /\ \A m \in b.occupied[t] : m = b.best[t] \/ Better(t, b.best[t], m)
    BY DEF BestOK
  <1>5. CASE lv.count # 0
    <2>1. c.occupied = b.occupied /\ c.best = b.best /\ c.level_count = b.level_count
      BY <1>5 DEF Rested
    <2>2. \A t \in Sides, m \in Levels : c.levels[t][m].count > 0 <=> b.levels[t][m].count > 0
      BY <1>1, <1>2, <1>3, <1>5
    <2> QED
      BY <1>4, <2>1, <2>2 DEF BestOK
  <1>6. CASE lv.count = 0
    <2>1. /\ c.occupied = [b.occupied EXCEPT ![s] = @ \cup {l}]
          /\ c.best = [b.best EXCEPT ![s] = IF @ = NoLevel \/ Better(s, l, @) THEN l ELSE @]
          /\ c.level_count = [b.level_count EXCEPT ![s] = @ + 1]
      BY <1>6 DEF Rested
    <2>2. l \notin b.occupied[s]
      BY <1>1, <1>4, <1>6
    <2>3. ASSUME NEW t \in Sides
          PROVE  \A m \in Levels : m \in c.occupied[t] <=> c.levels[t][m].count > 0
      BY <1>1, <1>2, <1>3, <1>4, <1>6, <2>1
    <2>4. ASSUME NEW t \in Sides
          PROVE  c.level_count[t] = Cardinality(c.occupied[t])
      <3>1. CASE t = s
        <4>1. IsFiniteSet(b.occupied[s])
          BY <1>1, LevelsNat, FS_Subset
        <4>2. Cardinality(b.occupied[s] \cup {l}) = Cardinality(b.occupied[s]) + 1
          BY <2>2, <4>1, FS_AddElement
        <4> QED
          BY <1>1, <1>4, <2>1, <3>1, <4>2
      <3>2. CASE t # s
        BY <1>1, <1>4, <2>1, <3>2
      <3> QED
        BY <3>1, <3>2
    <2>5. ASSUME NEW t \in Sides
          PROVE  /\ c.best[t] = NoLevel => c.occupied[t] = {}
                 /\ c.best[t] # NoLevel =>
                      /\ c.best[t] \in c.occupied[t]
                      /\ \A m \in c.occupied[t] : m = c.best[t] \/ Better(t, c.best[t], m)
      <3>1. CASE t # s
        BY <1>1, <1>4, <2>1, <3>1
      <3>2. CASE t = s /\ b.best[s] = NoLevel
        BY <1>1, <1>4, <2>1, <3>2, LevelsNat
      <3>3. CASE t = s /\ b.best[s] # NoLevel
        <4>1. /\ b.best[s] \in Nat /\ l \in Nat /\ \A m \in b.occupied[s] : m \in Nat
              /\ \A m \in b.occupied[s] : m = b.best[s] \/ Better(s, b.best[s], m)
              /\ c.occupied[s] = b.occupied[s] \cup {l}
              /\ c.best[s] = IF Better(s, l, b.best[s]) THEN l ELSE b.best[s]
          BY <1>1, <1>4, <2>1, <3>3, LevelsNat
        <4>2. b.best[s] = l \/ Better(s, l, b.best[s]) \/ Better(s, b.best[s], l)
          BY <4>1 DEF Better
        <4>3. \A m \in b.occupied[s] :
                Better(s, l, b.best[s]) => Better(s, l, m)
          BY <4>1 DEF Better
        <4>4. c.best[s] # NoLevel /\ c.best[s] \in c.occupied[s]
          BY <1>1, <1>4, <3>3, <4>1, LevelsNat
        <4> QED
          BY <3>3, <4>1, <4>2, <4>3, <4>4
      <3> QED
        BY <3>1, <3>2, <3>3
    <2> QED
      BY <2>3, <2>4, <2>5 DEF BestOK
  <1> QED
    BY <1>5, <1>6

(* Resting an order keeps the book in order. *)
LEMMA RestOrderOK ==
  ASSUME NEW b \in Books, BookInv(b), NEW o, Restable(o), ~ Contains(b, o.order_id)
  PROVE  /\ RestOrder(b, o) \in Books
         /\ BookInv(RestOrder(b, o))
         /\ \A t \in Sides : RestOrder(b, o).occupied[t] \subseteq
              b.occupied[t] \cup (IF t = o.side THEN {PriceToIndex(o.price)} ELSE {})
  <1>1. PICK i, c, s, l, lv : /\ i = NextHandle(b) /\ c = RestOrder(b, o)
                              /\ s = o.side /\ l = PriceToIndex(o.price)
                              /\ lv = b.levels[s][l]
    OBVIOUS
  <1>2. Rested(b, o, i, c, s, l, lv)
    BY <1>1, RestFields DEF BookInv
  <1>3. PoolOK(c)
    BY <1>2, RestedPool DEF BookInv
  <1>4. IndexOK(c) /\ PlacedOK(c) /\ OpenOK(c)
    BY <1>2, RestedIndex DEF BookInv
  <1>5. LinesOK(c)
    BY <1>2, RestedLines DEF BookInv
  <1>6. BestOK(c)
    BY <1>2, RestedBest DEF BookInv
  <1>7. c \in Books
    BY <1>2 DEF Rested
  <1>8. \A t \in Sides : c.occupied[t] \subseteq b.occupied[t] \cup (IF t = s THEN {l} ELSE {})
    <2>1. c.occupied = IF lv.count = 0 THEN [b.occupied EXCEPT ![s] = @ \cup {l}]
                                       ELSE b.occupied
      BY <1>2 DEF Rested
    <2> QED
      BY <2>1, BookFields
  <1> QED
    BY <1>1, <1>3, <1>4, <1>5, <1>6, <1>7, <1>8 DEF BookInv

-----------------------------------------------------------------------------
(* remove_node. *)

(* A level a node leaves keeps its widths. *)
LEMMA LevelWithoutType ==
  ASSUME NEW lv \in LevelRecords, NEW prev \in Nat, NEW next \in Nat, NEW q \in Nat
  PROVE  LevelWithout(lv, prev, next, q) \in LevelRecords
  <1>1. lv.total_qty - MinOf(lv.total_qty, q) \in Qty
    BY QtyAssumption DEF LevelRecords, Qty, MinOf
  <1>2. lv.count > 1 => lv.count - 1 \in Nat
    BY DEF LevelRecords
  <1>3. EmptyLevel \in LevelRecords
    BY QtyAssumption DEF EmptyLevel, LevelRecords, Qty, kNull
  <1>4. lv.count \in Nat /\ lv.head \in Nat /\ lv.tail \in Nat
    BY DEF LevelRecords
  <1>5. CASE lv.count <= 1
    BY <1>3, <1>5 DEF LevelWithout
  <1>6. CASE lv.count > 1
    BY <1>1, <1>2, <1>4, <1>6 DEF LevelWithout, LevelRecords
  <1> QED
    BY <1>4, <1>5, <1>6

(* recompute_best_after_clear finds a level, or that there is none. *)
LEMMA RecomputeType ==
  ASSUME NEW best \in Levels \cup {NoLevel}, NEW s \in Sides, NEW l \in Levels,
         NEW bits \in SUBSET Levels
  PROVE  RecomputeBestAfterClear(best, s, l, bits) \in Levels \cup {NoLevel}
  <1>1. FindLowest(bits) \in Levels \cup {NoLevel}
    BY FindLowestWorks DEF FindLowest
  <1>2. FindHighest(bits) \in Levels \cup {NoLevel}
    BY FindHighestWorks DEF FindHighest
  <1> QED
    BY <1>1, <1>2 DEF RecomputeBestAfterClear

(* clear_occupied: c is b with level l of side s empty. *)
Cleared(b, s, l, c) ==
  /\ c \in Books
  /\ c.nodes = b.nodes /\ c.free = b.free /\ c.index = b.index
  /\ c.levels = b.levels /\ c.level_count = b.level_count
  /\ \A t \in Sides :
       c.occupied[t] = IF t = s THEN b.occupied[s] \ {l} ELSE b.occupied[t]
  /\ \A t \in Sides :
       c.best[t] = IF t = s
                   THEN RecomputeBestAfterClear(b.best[s], s, l, b.occupied[s] \ {l})
                   ELSE b.best[t]

(* What clear_occupied changes. *)
LEMMA ClearOccupiedFields ==
  ASSUME NEW b \in Books, NEW s \in Sides, NEW l \in Levels,
         NEW c, c = ClearOccupied(b, s, l)
  PROVE  Cleared(b, s, l, c)
  <1> DEFINE bits == b.occupied[s] \ {l}
             found == RecomputeBestAfterClear(b.best[s], s, l, bits)
             occupied == [b.occupied EXCEPT ![s] = @ \ {l}]
             best == [b.best EXCEPT ![s] = found]
  <1>1. c = [nodes |-> b.nodes, free |-> b.free, index |-> b.index, levels |-> b.levels,
             occupied |-> occupied, best |-> best, level_count |-> b.level_count]
    BY BookFields DEF ClearOccupied, Books
  <1>2. found \in Levels \cup {NoLevel}
    BY BookFields, RecomputeType
  <1>3. occupied \in [Sides -> SUBSET Levels]
    BY BookFields
  <1>4. best \in [Sides -> Levels \cup {NoLevel}]
    <2> HIDE DEF found
    <2> QED
      BY <1>2, BookFields
  <1> HIDE DEF occupied, best
  <1>5. c \in Books
    BY <1>1, <1>3, <1>4, BookFields DEF Books
  <1>7. \A t \in Sides :
          occupied[t] = IF t = s THEN b.occupied[s] \ {l} ELSE b.occupied[t]
    BY BookFields DEF occupied
  <1>6. \A t \in Sides : best[t] = IF t = s THEN found ELSE b.best[t]
    <2> HIDE DEF found
    <2> QED
      BY BookFields DEF best
  <1> HIDE DEF found, bits
  <1> QED
    BY <1>1, <1>5, <1>6, <1>7 DEF bits, found, Cleared

(* What free_node changes. *)
LEMMA FreeNodeFields ==
  ASSUME NEW b \in Books, NEW i \in DOMAIN b.nodes, b.nodes[i].order_id \in OrderIds,
         NEW c, c = FreeNode(b, i)
  PROVE  /\ c \in Books
         /\ c.nodes = [b.nodes EXCEPT ![i] = EmptyNode]
         /\ c.free = Append(b.free, i)
         /\ c.index = [b.index EXCEPT ![b.nodes[i].order_id] = kNull]
         /\ c.levels = b.levels /\ c.occupied = b.occupied /\ c.best = b.best
         /\ c.level_count = b.level_count
  <1> DEFINE nodes == [b.nodes EXCEPT ![i] = EmptyNode]
             free == Append(b.free, i)
             index == [b.index EXCEPT ![b.nodes[i].order_id] = kNull]
  <1>1. c = [nodes |-> nodes, free |-> free, index |-> index, levels |-> b.levels,
             occupied |-> b.occupied, best |-> b.best, level_count |-> b.level_count]
    BY DEF FreeNode, Books
  <1>2. EmptyNode \in Nodes
    BY QtyAssumption, LadderAssumption
    DEF EmptyNode, Nodes, Qty, Levels, Sides, kNull, kNoAccount
  <1>3. nodes \in Seq(Nodes)
    BY <1>2, BookFields
  <1>4. free \in Seq(Nat)
    BY BookFields
  <1>5. index \in [OrderIds -> Nat]
    BY BookFields DEF kNull
  <1> HIDE DEF nodes, free, index
  <1>6. c \in Books
    BY <1>1, <1>3, <1>4, <1>5, BookFields DEF Books
  <1> QED
    BY <1>1, <1>6 DEF nodes, free, index

(* What the unlinking in remove_node does to the slots. *)
LEMMA UnlinkFields ==
  ASSUME NEW nodes \in Seq(Nodes), NEW prev \in Nat, NEW next \in Nat,
         NEW m, m = Unlink(nodes, prev, next)
  PROVE  /\ Relinked(m, nodes)
         /\ \A h \in DOMAIN nodes :
              /\ m[h].prev = IF h = next THEN prev ELSE nodes[h].prev
              /\ m[h].next = IF h = prev THEN next ELSE nodes[h].next
  <1>1. \A h \in DOMAIN nodes : h \in Nat /\ nodes[h] \in Nodes
    BY NodeSeq, Zenon
  <1>2. \A h \in DOMAIN nodes :
          m[h] = [nodes[h] EXCEPT !.next = IF h = prev THEN next ELSE @,
                                  !.prev = IF h = next THEN prev ELSE @]
    BY DEF Unlink
  <1>3. m = [h \in DOMAIN nodes |-> m[h]]
    BY DEF Unlink
  <1>4. ASSUME NEW h \in DOMAIN nodes
        PROVE  /\ \E p, x \in Nat : m[h] = [nodes[h] EXCEPT !.prev = p, !.next = x]
               /\ m[h].prev = IF h = next THEN prev ELSE nodes[h].prev
               /\ m[h].next = IF h = prev THEN next ELSE nodes[h].next
    <2>1. nodes[h] \in Nodes
      BY <1>1
    <2>2. m[h] = [nodes[h] EXCEPT !.next = IF h = prev THEN next ELSE @,
                                  !.prev = IF h = next THEN prev ELSE @]
      BY <1>2
    <2> DEFINE p == IF h = next THEN prev ELSE nodes[h].prev
               x == IF h = prev THEN next ELSE nodes[h].next
    <2>3. m[h] = [nodes[h] EXCEPT !.prev = p, !.next = x]
      BY <2>1, <2>2 DEF Nodes
    <2>4. p \in Nat /\ x \in Nat
      BY <2>1 DEF Nodes
    <2>5. m[h].prev = p /\ m[h].next = x
      BY <2>1, <2>3 DEF Nodes
    <2>6. \E y, z \in Nat : m[h] = [nodes[h] EXCEPT !.prev = y, !.next = z]
      BY <2>3, <2>4
    <2> QED
      BY <2>5, <2>6
  <1>5. LinksChanged(m, nodes)
    BY <1>3, <1>4 DEF LinksChanged
  <1>6. Relinked(m, nodes)
    BY <1>5, RelinkType
  <1> QED
    BY <1>4, <1>6

(***************************************************************************)
(* remove_node: c is b without the order in slot i, which was on level l   *)
(* of side s, where lv was.                                                *)
(***************************************************************************)
Removed(b, i, q, c, s, l, lv, n) ==
  /\ b \in Books /\ i \in Active(b) /\ i \in DOMAIN b.nodes /\ i \in Nat
  /\ n = b.nodes[i] /\ n.order_id \in OrderIds /\ q \in Nat
  /\ s = n.side /\ l = n.level_idx
  /\ s \in Sides /\ l \in Levels /\ lv \in LevelRecords /\ lv = b.levels[s][l]
  /\ c \in Books
  /\ DOMAIN c.nodes = DOMAIN b.nodes
  /\ c.nodes[i] = EmptyNode
  /\ \A h \in DOMAIN b.nodes \ {i} :
       /\ SameOrder(c.nodes[h], b.nodes[h])
       /\ c.nodes[h].prev = IF h = n.next THEN n.prev ELSE b.nodes[h].prev
       /\ c.nodes[h].next = IF h = n.prev THEN n.next ELSE b.nodes[h].next
  /\ c.free = Append(b.free, i)
  /\ c.index = [b.index EXCEPT ![n.order_id] = kNull]
  /\ c.levels = [b.levels EXCEPT ![s][l] = LevelWithout(lv, n.prev, n.next, q)]
  /\ \A t \in Sides :
       c.occupied[t] = IF lv.count <= 1 /\ t = s THEN b.occupied[s] \ {l}
                                                 ELSE b.occupied[t]
  /\ \A t \in Sides :
       c.best[t] = IF lv.count <= 1 /\ t = s
                   THEN RecomputeBestAfterClear(b.best[s], s, l, b.occupied[s] \ {l})
                   ELSE b.best[t]
  /\ c.level_count = IF lv.count <= 1 THEN [b.level_count EXCEPT ![s] = @ - 1]
                                      ELSE b.level_count

(* What remove_node changes. *)
LEMMA RemoveFields ==
  ASSUME NEW b \in Books, IndexOK(b), NEW i \in Active(b), NEW q \in Nat,
         NEW c, c = RemoveNode(b, i, q), NEW n, n = b.nodes[i],
         NEW s, s = n.side, NEW l, l = n.level_idx,
         NEW lv, lv = b.levels[s][l]
  PROVE  Removed(b, i, q, c, s, l, lv, n)
  <1> DEFINE nodes == Unlink(b.nodes, n.prev, n.next)
             levels == [b.levels EXCEPT ![s][l] = LevelWithout(lv, n.prev, n.next, q)]
             unlinked == [b EXCEPT !.nodes = nodes, !.levels = levels]
             counts == [b.level_count EXCEPT ![s] = @ - 1]
             counted == [unlinked EXCEPT !.level_count = counts]
  <1>1. /\ i \in Nat /\ i \in DOMAIN b.nodes /\ n \in Nodes
        /\ n.order_id \in OrderIds
    BY BookFields DEF Active, IndexOK
  <1>2. s \in Sides /\ l \in Levels /\ n.prev \in Nat /\ n.next \in Nat
    BY <1>1 DEF Nodes
  <1>3. lv \in LevelRecords
    BY <1>2, BookFields
  <1>4. nodes \in Seq(Nodes) /\ DOMAIN nodes = DOMAIN b.nodes
        /\ \A h \in DOMAIN b.nodes :
             /\ SameOrder(nodes[h], b.nodes[h])
             /\ nodes[h].prev = IF h = n.next THEN n.prev ELSE b.nodes[h].prev
             /\ nodes[h].next = IF h = n.prev THEN n.next ELSE b.nodes[h].next
    <2>1. b.nodes \in Seq(Nodes)
      BY BookFields
    <2>0. nodes = Unlink(b.nodes, n.prev, n.next)
      OBVIOUS
    <2> HIDE DEF nodes
    <2>2. /\ Relinked(nodes, b.nodes)
          /\ \A h \in DOMAIN b.nodes :
              /\ nodes[h].prev = IF h = n.next THEN n.prev ELSE b.nodes[h].prev
              /\ nodes[h].next = IF h = n.prev THEN n.next ELSE b.nodes[h].next
      <3>1. PICK p, x : p = n.prev /\ x = n.next
        OBVIOUS
      <3>2. p \in Nat /\ x \in Nat /\ nodes = Unlink(b.nodes, p, x)
        BY <1>2, <2>0, <3>1
      <3>3. /\ Relinked(nodes, b.nodes)
            /\ \A h \in DOMAIN b.nodes :
                /\ nodes[h].prev = IF h = x THEN p ELSE b.nodes[h].prev
                /\ nodes[h].next = IF h = p THEN x ELSE b.nodes[h].next
        BY <2>1, <3>2, UnlinkFields
      <3> QED
        BY <3>1, <3>3
    <2> QED
      BY <2>2 DEF Relinked
  <1>5. levels \in [Sides -> [Levels -> LevelRecords]]
    <2>1. LevelWithout(lv, n.prev, n.next, q) \in LevelRecords
      BY <1>2, <1>3, LevelWithoutType
    <2> QED
      BY SMTT(30), <1>2, <2>1, BookFields
  <1>6. counts \in [Sides -> Int]
    BY <1>2, BookFields
  <1>7. c = FreeNode(IF lv.count <= 1 THEN ClearOccupied(counted, s, l) ELSE unlinked, i)
    <2>1. unlinked.level_count = b.level_count
      BY DEF Books
    <2> QED
      BY <2>1 DEF RemoveNode, Books
  <1> HIDE DEF nodes, levels, counts
  <1>8. unlinked \in Books /\ counted \in Books
    BY <1>4, <1>5, <1>6 DEF Books
  <1>9. PICK m : m = IF lv.count <= 1 THEN ClearOccupied(counted, s, l) ELSE unlinked
    OBVIOUS
  <1>10. /\ m \in Books /\ m.nodes = nodes /\ m.free = b.free /\ m.index = b.index
         /\ m.levels = levels
         /\ \A t \in Sides :
              m.occupied[t] = IF lv.count <= 1 /\ t = s THEN b.occupied[s] \ {l}
                                                        ELSE b.occupied[t]
         /\ \A t \in Sides :
              m.best[t] = IF lv.count <= 1 /\ t = s
                          THEN RecomputeBestAfterClear(b.best[s], s, l, b.occupied[s] \ {l})
                          ELSE b.best[t]
         /\ m.level_count = IF lv.count <= 1 THEN counts ELSE b.level_count
    <2>1. CASE lv.count <= 1
      <3>1. PICK d : d = counted
        OBVIOUS
      <3>2. /\ d.nodes = nodes /\ d.free = b.free /\ d.index = b.index
            /\ d.levels = levels /\ d.occupied = b.occupied
            /\ d.best = b.best /\ d.level_count = counts
        BY <3>1 DEF Books
      <3>3. m = ClearOccupied(d, s, l) /\ d \in Books /\ s \in Sides /\ l \in Levels
        BY <1>2, <1>8, <1>9, <2>1, <3>1
      <3>4. Cleared(d, s, l, m)
        BY <3>3, ClearOccupiedFields
      <3>5. /\ m \in Books /\ m.nodes = nodes /\ m.free = b.free /\ m.index = b.index
            /\ m.levels = levels /\ m.level_count = counts
        BY <3>2, <3>4 DEF Cleared
      <3>6. \A t \in Sides :
              m.occupied[t] = IF t = s THEN b.occupied[s] \ {l} ELSE b.occupied[t]
        BY <3>2, <3>4 DEF Cleared
      <3>7. \A t \in Sides :
              m.best[t] = IF t = s
                          THEN RecomputeBestAfterClear(b.best[s], s, l, b.occupied[s] \ {l})
                          ELSE b.best[t]
        BY <3>2, <3>4 DEF Cleared
      <3> QED
        BY <2>1, <3>5, <3>6, <3>7
    <2>2. CASE ~ (lv.count <= 1)
      <3>1. m = unlinked
        BY <1>9, <2>2
      <3>2. /\ m.nodes = nodes /\ m.free = b.free /\ m.index = b.index
            /\ m.levels = levels /\ m.occupied = b.occupied
            /\ m.best = b.best /\ m.level_count = b.level_count
        BY <3>1 DEF Books
      <3> QED
        BY <1>8, <2>2, <3>1, <3>2
    <2> QED
      BY <2>1, <2>2
  <1>11. i \in DOMAIN m.nodes /\ m.nodes[i].order_id = n.order_id /\ c = FreeNode(m, i)
    <2>1. c = FreeNode(m, i)
      BY <1>7, <1>9
    <2>2. i \in DOMAIN m.nodes /\ SameOrder(m.nodes[i], n)
      BY <1>1, <1>4, <1>10
    <2> QED
      BY <2>1, <2>2 DEF SameOrder
  <1>12. /\ c \in Books
         /\ c.nodes = [m.nodes EXCEPT ![i] = EmptyNode]
         /\ c.free = Append(m.free, i)
         /\ c.index = [m.index EXCEPT ![n.order_id] = kNull]
         /\ c.levels = m.levels /\ c.occupied = m.occupied /\ c.best = m.best
         /\ c.level_count = m.level_count
    <2>1. m \in Books /\ i \in DOMAIN m.nodes /\ m.nodes[i].order_id \in OrderIds
          /\ c = FreeNode(m, i)
      BY <1>1, <1>10, <1>11
    <2>2. /\ c \in Books
          /\ c.nodes = [m.nodes EXCEPT ![i] = EmptyNode]
          /\ c.free = Append(m.free, i)
          /\ c.index = [m.index EXCEPT ![m.nodes[i].order_id] = kNull]
          /\ c.levels = m.levels /\ c.occupied = m.occupied /\ c.best = m.best
          /\ c.level_count = m.level_count
      BY <2>1, FreeNodeFields
    <2> QED
      BY <1>11, <2>2
  <1>13. /\ DOMAIN c.nodes = DOMAIN b.nodes
         /\ c.nodes[i] = EmptyNode
         /\ \A h \in DOMAIN b.nodes \ {i} : c.nodes[h] = nodes[h]
    BY <1>1, <1>4, <1>10, <1>12
  <1>14. \A h \in DOMAIN b.nodes \ {i} :
           /\ SameOrder(c.nodes[h], b.nodes[h])
           /\ c.nodes[h].prev = IF h = n.next THEN n.prev ELSE b.nodes[h].prev
           /\ c.nodes[h].next = IF h = n.prev THEN n.next ELSE b.nodes[h].next
    BY <1>4, <1>13
  <1>15. /\ c.free = Append(b.free, i)
         /\ c.index = [b.index EXCEPT ![n.order_id] = kNull]
         /\ c.levels = [b.levels EXCEPT ![s][l] = LevelWithout(lv, n.prev, n.next, q)]
    BY <1>10, <1>12 DEF levels
  <1>16. /\ \A t \in Sides :
              c.occupied[t] = IF lv.count <= 1 /\ t = s THEN b.occupied[s] \ {l}
                                                        ELSE b.occupied[t]
         /\ \A t \in Sides :
              c.best[t] = IF lv.count <= 1 /\ t = s
                          THEN RecomputeBestAfterClear(b.best[s], s, l, b.occupied[s] \ {l})
                          ELSE b.best[t]
         /\ c.level_count = IF lv.count <= 1 THEN [b.level_count EXCEPT ![s] = @ - 1]
                                             ELSE b.level_count
    <2>1. /\ c.occupied = m.occupied /\ c.best = m.best
          /\ c.level_count = m.level_count
      BY <1>12
    <2>2. c.level_count = IF lv.count <= 1 THEN [b.level_count EXCEPT ![s] = @ - 1]
                                          ELSE b.level_count
      BY <1>10, <2>1 DEF counts
    <2>3. PICK occupied, best : occupied = m.occupied /\ best = m.best
      OBVIOUS
    <2>4. /\ \A t \in Sides :
               occupied[t] = IF lv.count <= 1 /\ t = s THEN b.occupied[s] \ {l}
                                                       ELSE b.occupied[t]
          /\ \A t \in Sides :
               best[t] = IF lv.count <= 1 /\ t = s
                         THEN RecomputeBestAfterClear(b.best[s], s, l, b.occupied[s] \ {l})
                         ELSE b.best[t]
      BY <1>10, <2>3, Zenon
    <2>5. c.occupied = occupied /\ c.best = best
      BY <2>1, <2>3
    <2> QED
      BY <2>2, <2>4, <2>5, Zenon
  <1>17. c \in Books
    BY <1>12
  <1>18. b \in Books /\ i \in Active(b) /\ q \in Nat
    OBVIOUS
  <1> QED
    BY <1>1, <1>2, <1>3, <1>13, <1>14, <1>15, <1>16, <1>17, <1>18 DEF Removed

(* The orders left are those there were, less the one removed. *)
LEMMA RemovedMembers ==
  ASSUME NEW b, NEW i, NEW q, NEW c, NEW s, NEW l, NEW lv, NEW n,
         Removed(b, i, q, c, s, l, lv, n)
  PROVE  /\ Active(c) = Active(b) \ {i}
         /\ i \in Members(b, s, l)
         /\ Members(c, s, l) = Members(b, s, l) \ {i}
         /\ \A t \in Sides, m \in Levels :
              t # s \/ m # l => Members(c, t, m) = Members(b, t, m)
  <1>1. /\ i \in Active(b) /\ b.nodes[i].side = s /\ b.nodes[i].level_idx = l
        /\ DOMAIN c.nodes = DOMAIN b.nodes
        /\ c.nodes[i].active = FALSE
        /\ \A h \in DOMAIN b.nodes \ {i} : SameOrder(c.nodes[h], b.nodes[h])
    <2>1. c.nodes[i] = EmptyNode /\ i \in Active(b) /\ DOMAIN c.nodes = DOMAIN b.nodes
      BY DEF Removed
    <2>2. b.nodes[i].side = s /\ b.nodes[i].level_idx = l
      BY DEF Removed
    <2>3. \A h \in DOMAIN b.nodes \ {i} : SameOrder(c.nodes[h], b.nodes[h])
      BY DEF Removed
    <2> QED
      BY <2>1, <2>2, <2>3 DEF EmptyNode
  <1>2. Active(c) = Active(b) \ {i}
    BY <1>1 DEF Active, SameOrder
  <1>3. \A h \in Active(b) \ {i} : /\ c.nodes[h].side = b.nodes[h].side
                                  /\ c.nodes[h].level_idx = b.nodes[h].level_idx
    BY <1>1 DEF Active, SameOrder
  <1> QED
    BY <1>1, <1>2, <1>3 DEF Members

(* free_node gives the slot back once. *)
LEMMA RemovedPool ==
  ASSUME NEW b, NEW i, NEW q, NEW c, NEW s, NEW l, NEW lv, NEW n,
         Removed(b, i, q, c, s, l, lv, n), PoolOK(b)
  PROVE  PoolOK(c)
  <1>1. Active(c) = Active(b) \ {i} /\ i \in Active(b)
    BY RemovedMembers DEF Members
  <1>2. /\ b \in Books /\ DOMAIN c.nodes = DOMAIN b.nodes /\ i \in DOMAIN b.nodes
        /\ c.free = Append(b.free, i)
    BY DEF Removed
  <1> DEFINE m == Len(b.free)
  <1>3. /\ m \in Nat /\ DOMAIN b.free = 1 .. m
        /\ DOMAIN c.free = 1 .. (m + 1)
        /\ c.free[m + 1] = i
        /\ \A k \in 1 .. m : c.free[k] = b.free[k]
    <2>1. b.free \in Seq(Nat) /\ i \in Nat
      BY <1>2, BookFields
    <2> QED
      BY <1>2, <2>1
  <1> HIDE DEF m
  <1>4. \A k \in 1 .. m : b.free[k] # i
    BY <1>1, <1>2, <1>3 DEF PoolOK
  <1>5. \A k \in DOMAIN c.free : k \in 1 .. m \/ k = m + 1
    BY <1>3
  <1>6. \A k \in DOMAIN c.free : c.free[k] \in DOMAIN c.nodes
    BY <1>2, <1>3, <1>5 DEF PoolOK
  <1>7. \A j, k \in DOMAIN c.free : c.free[j] = c.free[k] => j = k
    BY <1>3, <1>4, <1>5 DEF PoolOK
  <1>8. \A h \in DOMAIN c.nodes :
          h \in Active(c) <=> \A k \in DOMAIN c.free : c.free[k] # h
    <2> TAKE h \in DOMAIN c.nodes
    <2>1. h \in Active(b) <=> \A k \in DOMAIN b.free : b.free[k] # h
      BY <1>2 DEF PoolOK
    <2>2. CASE h = i
      BY <1>1, <1>3, <2>2
    <2>3. CASE h # i
      BY <1>1, <1>3, <1>5, <2>1, <2>3
    <2> QED
      BY <2>2, <2>3
  <1> QED
    BY <1>6, <1>7, <1>8 DEF PoolOK

(* The id leaves index_ with its node. *)
LEMMA RemovedIndex ==
  ASSUME NEW b, NEW i, NEW q, NEW c, NEW s, NEW l, NEW lv, NEW n,
         Removed(b, i, q, c, s, l, lv, n), IndexOK(b), PlacedOK(b),
         \A h \in Active(b) \ {i} : b.nodes[h].qty > 0
  PROVE  IndexOK(c) /\ PlacedOK(c) /\ OpenOK(c)
  <1>1. /\ Active(c) = Active(b) \ {i} /\ i \in Active(b)
        /\ n = b.nodes[i] /\ n.order_id \in OrderIds
        /\ c.index = [b.index EXCEPT ![n.order_id] = kNull]
        /\ b.index \in [OrderIds -> Nat]
    <2>1. Active(c) = Active(b) \ {i}
      BY RemovedMembers
    <2>2. /\ i \in Active(b) /\ n = b.nodes[i] /\ n.order_id \in OrderIds
          /\ c.index = [b.index EXCEPT ![n.order_id] = kNull] /\ b \in Books
      BY DEF Removed
    <2> QED
      BY <2>1, <2>2, BookFields
  <1>2. \A h \in Active(b) \ {i} : SameOrder(c.nodes[h], b.nodes[h])
    BY DEF Removed, Active
  <1>3. \A id \in OrderIds :
          c.index[id] = IF id = n.order_id THEN kNull ELSE b.index[id]
    BY <1>1
  <1>4. /\ \A id \in OrderIds : Contains(b, id) =>
             b.index[id] \in Active(b) /\ b.nodes[b.index[id]].order_id = id
        /\ \A h \in Active(b) :
             b.nodes[h].order_id \in OrderIds /\ b.index[b.nodes[h].order_id] = h
    BY DEF IndexOK
  <1>5. IndexOK(c)
    <2>1. \A h \in Active(c) : /\ c.nodes[h].order_id = b.nodes[h].order_id
                              /\ c.nodes[h].order_id # n.order_id
      BY <1>1, <1>2, <1>4 DEF SameOrder
    <2>2. \A h \in Active(c) : c.nodes[h].order_id \in OrderIds
                              /\ c.index[c.nodes[h].order_id] = h
      BY <1>1, <1>3, <1>4, <2>1
    <2>3. ASSUME NEW id \in OrderIds, Contains(c, id)
          PROVE  c.index[id] \in Active(c) /\ c.nodes[c.index[id]].order_id = id
      <3>1. id # n.order_id /\ c.index[id] = b.index[id] /\ Contains(b, id)
        BY <1>3, <2>3 DEF Contains
      <3>2. b.index[id] \in Active(b) /\ b.nodes[b.index[id]].order_id = id
        BY <1>4, <3>1
      <3>3. b.index[id] # i
        BY <1>1, <3>1, <3>2
      <3> QED
        BY <1>1, <2>1, <3>1, <3>2, <3>3
    <2> QED
      BY <2>2, <2>3 DEF IndexOK
  <1>6. PlacedOK(c)
    BY <1>1, <1>2 DEF PlacedOK, SameOrder
  <1>7. OpenOK(c)
    BY <1>1, <1>2 DEF OpenOK, SameOrder
  <1> QED
    BY <1>5, <1>6, <1>7

(***************************************************************************)
(* The line of the level the order leaves closes the gap; the other lines  *)
(* stay as they are.                                                       *)
(***************************************************************************)
LEMMA RemovedLines ==
  ASSUME NEW b, NEW i, NEW q, NEW c, NEW s, NEW l, NEW lv, NEW n,
         Removed(b, i, q, c, s, l, lv, n), LinesOK(b)
  PROVE  LinesOK(c)
  <1>1. /\ b \in Books /\ i \in Active(b) /\ n = b.nodes[i]
        /\ s \in Sides /\ l \in Levels /\ lv \in LevelRecords /\ lv = b.levels[s][l]
        /\ c.levels = [b.levels EXCEPT ![s][l] = LevelWithout(lv, n.prev, n.next, q)]
    BY DEF Removed
  <1>2. b.levels \in [Sides -> [Levels -> LevelRecords]]
    BY <1>1, BookFields
  <1>3. \A h \in Active(b) \ {i} :
          /\ h # 0
          /\ c.nodes[h].prev = IF h = n.next THEN n.prev ELSE b.nodes[h].prev
          /\ c.nodes[h].next = IF h = n.prev THEN n.next ELSE b.nodes[h].next
    <2>1. \A h \in Active(b) : h # 0 /\ h \in DOMAIN b.nodes
      BY <1>1, BookFields DEF Active
    <2> QED
      BY <2>1 DEF Removed
  <1>4. /\ Active(c) = Active(b) \ {i}
        /\ i \in Members(b, s, l)
        /\ Members(c, s, l) = Members(b, s, l) \ {i}
        /\ \A t \in Sides, m \in Levels :
             t # s \/ m # l => Members(c, t, m) = Members(b, t, m)
    BY RemovedMembers
  <1>5. lv.count \in Nat
    BY <1>1 DEF LevelRecords
  <1>6. PICK old \in [1 .. lv.count -> Members(b, s, l)] : IsLine(b, s, l, old)
    BY <1>1 DEF LinesOK
  <1>7. /\ \A h \in Members(b, s, l) : \E k \in 1 .. lv.count : old[k] = h
        /\ \A j, k \in 1 .. lv.count : old[j] = old[k] => j = k
        /\ lv.head = (IF lv.count = 0 THEN kNull ELSE old[1])
        /\ lv.tail = (IF lv.count = 0 THEN kNull ELSE old[lv.count])
        /\ \A k \in 1 .. lv.count :
             /\ b.nodes[old[k]].prev = (IF k = 1 THEN kNull ELSE old[k - 1])
             /\ b.nodes[old[k]].next = (IF k = lv.count THEN kNull ELSE old[k + 1])
    BY <1>1, <1>6 DEF IsLine
  <1>8. PICK at \in 1 .. lv.count : old[at] = i
    BY <1>4, <1>7
  <1>9. /\ n.prev = (IF at = 1 THEN 0 ELSE old[at - 1])
        /\ n.next = (IF at = lv.count THEN 0 ELSE old[at + 1])
    BY <1>1, <1>7, <1>8 DEF kNull
  <1>10. \A h \in Members(b, s, l) : h \in Active(b) /\ h # 0
    <2>1. \A h \in Active(b) : h # 0
      BY <1>1, BookFields DEF Active
    <2> QED
      BY <2>1 DEF Members
  <1>11. /\ n.prev # 0 => n.prev \in Members(b, s, l)
         /\ n.next # 0 => n.next \in Members(b, s, l)
    BY <1>5, <1>6, <1>8, <1>9
  <1>12. ASSUME NEW t \in Sides, NEW m \in Levels, t # s \/ m # l
         PROVE  \E line \in [1 .. c.levels[t][m].count -> Members(c, t, m)] :
                  IsLine(c, t, m, line)
    <2>1. c.levels[t][m] = b.levels[t][m] /\ Members(c, t, m) = Members(b, t, m)
      BY <1>1, <1>2, <1>4, <1>12
    <2>2. PICK line \in [1 .. b.levels[t][m].count -> Members(b, t, m)] :
             IsLine(b, t, m, line)
      BY DEF LinesOK
    <2>3. \A h \in Members(b, t, m) : h \in Active(b) /\ h \notin Members(b, s, l)
      BY <1>12 DEF Members
    <2>4. \A h \in Members(b, t, m) : /\ c.nodes[h].prev = b.nodes[h].prev
                                     /\ c.nodes[h].next = b.nodes[h].next
      BY <1>3, <1>4, <1>11, <2>3
    <2>5. IsLine(c, t, m, line)
      BY ZenonT(40), <2>1, <2>2, <2>4 DEF IsLine
    <2> QED
      BY <2>1, <2>2, <2>5
  <1>13. PICK new : new = c.levels[s][l]
    OBVIOUS
  <1>14. new = LevelWithout(lv, n.prev, n.next, q)
    BY <1>1, <1>2, <1>13
  <1>15. CASE lv.count = 1
    <2>1. new = EmptyLevel
      BY <1>14, <1>15 DEF LevelWithout
    <2>2. new.head = 0 /\ new.tail = 0 /\ new.count = 0
      BY <2>1 DEF EmptyLevel, kNull
    <2>3. Members(c, s, l) = {}
      <3>1. \A h \in Members(b, s, l) : h = i
        BY <1>7, <1>8, <1>15
      <3> QED
        BY <1>4, <3>1
    <2> DEFINE line == [k \in 1 .. 0 |-> i]
    <2>4. line \in [1 .. new.count -> Members(c, s, l)]
      BY <2>2
    <2>5. IsLine(c, s, l, line)
      BY <1>13, <2>2, <2>3 DEF IsLine, kNull
    <2>6. \E x \in [1 .. c.levels[s][l].count -> Members(c, s, l)] : IsLine(c, s, l, x)
      BY <1>13, <2>4, <2>5
    <2> QED
      BY <1>12, <2>6 DEF LinesOK
  <1>16. CASE lv.count > 1
    <2> DEFINE len == lv.count - 1
               line == [k \in 1 .. len |-> IF k < at THEN old[k] ELSE old[k + 1]]
    <2>1. /\ len \in Nat \ {0} /\ lv.count = len + 1
          /\ new.head = (IF n.prev = 0 THEN n.next ELSE lv.head)
          /\ new.tail = (IF n.next = 0 THEN n.prev ELSE lv.tail)
          /\ new.count = len
      BY <1>5, <1>14, <1>16 DEF LevelWithout, kNull
    <2>2. \A k \in 1 .. len : line[k] = IF k < at THEN old[k] ELSE old[k + 1]
      OBVIOUS
    <2>3. line \in [1 .. len -> Members(c, s, l)]
      <3>1. \A k \in 1 .. lv.count : old[k] \in Members(b, s, l)
        BY <1>6
      <3>2. \A k \in 1 .. len : line[k] \in Members(b, s, l) \ {i}
        BY <1>7, <1>8, <2>1, <2>2, <3>1
      <3> QED
        BY <1>4, <3>2
    <2> HIDE DEF line, len
    <2>4. \A h \in Members(c, s, l) : \E k \in 1 .. len : line[k] = h
      <3> TAKE h \in Members(c, s, l)
      <3>1. h \in Members(b, s, l) /\ h # i
        BY <1>4
      <3>2. PICK k \in 1 .. lv.count : old[k] = h
        BY <1>7, <3>1
      <3>3. CASE k < at
        <4>1. k \in 1 .. len /\ line[k] = h
          BY <1>8, <2>1, <2>2, <3>2, <3>3
        <4> QED
          BY <4>1
      <3>4. CASE k > at
        <4>1. k - 1 \in 1 .. len /\ line[k - 1] = h
          BY <1>8, <2>1, <2>2, <3>2, <3>4
        <4> QED
          BY <4>1
      <3>5. k # at
        BY <1>8, <3>1, <3>2
      <3> QED
        BY <3>3, <3>4, <3>5
    <2>5. \A j, k \in 1 .. len : line[j] = line[k] => j = k
      <3> TAKE j, k \in 1 .. len
      <3> DEFINE from(x) == IF x < at THEN x ELSE x + 1
      <3>1. \A x \in 1 .. len : from(x) \in 1 .. lv.count /\ line[x] = old[from(x)]
        BY <2>1, <2>2
      <3>2. from(j) = from(k) => j = k
        OBVIOUS
      <3> HIDE DEF from
      <3> QED
        BY <1>7, <3>1, <3>2
    <2>6. /\ new.head = line[1]
          /\ new.tail = line[len]
      <3>1. CASE at = 1
        <4>1. new.head = old[2] /\ line[1] = old[2]
          BY <1>9, <1>16, <2>1, <2>2, <3>1
        <4>2. new.tail = old[lv.count] /\ line[len] = old[lv.count]
          <5>1. n.next = old[2] /\ n.next \in Members(b, s, l)
            BY <1>6, <1>9, <1>16, <2>1, <3>1
          <5>2. new.tail = old[lv.count]
            BY <1>7, <1>10, <1>16, <2>1, <5>1
          <5>3. len \in 1 .. len /\ ~ (len < at)
            BY <2>1, <3>1
          <5> QED
            BY <2>1, <2>2, <5>2, <5>3
        <4> QED
          BY <4>1, <4>2
      <3>2. CASE at # 1
        <4>1. n.prev = old[at - 1] /\ n.prev \in Members(b, s, l)
          BY <1>6, <1>8, <1>9, <2>1, <3>2
        <4>2. new.head = old[1] /\ line[1] = old[1]
          BY <1>7, <1>8, <1>10, <1>16, <2>1, <2>2, <3>2, <4>1
        <4>3. CASE at = lv.count
          <5>1. new.tail = old[at - 1]
            BY <1>9, <2>1, <4>1, <4>3
          <5>2. len \in 1 .. len /\ len < at /\ len = at - 1
            BY <2>1, <4>3
          <5>3. line[len] = old[at - 1]
            BY <2>2, <5>2
          <5> QED
            BY <4>2, <5>1, <5>3
        <4>4. CASE at # lv.count
          <5>1. n.next = old[at + 1] /\ n.next \in Members(b, s, l)
            BY <1>6, <1>8, <1>9, <2>1, <4>4
          <5>2. new.tail = old[lv.count]
            BY SMTT(30), <1>7, <1>10, <1>16, <2>1, <5>1
          <5>3. len \in 1 .. len /\ ~ (len < at)
            BY <1>8, <2>1, <4>4
          <5> QED
            BY <2>1, <2>2, <4>2, <5>2, <5>3
        <4> QED
          BY <4>3, <4>4
      <3> QED
        BY <3>1, <3>2
    <2>7. \A k \in 1 .. len :
            /\ c.nodes[line[k]].prev = (IF k = 1 THEN kNull ELSE line[k - 1])
            /\ c.nodes[line[k]].next = (IF k = len THEN kNull ELSE line[k + 1])
      <3> TAKE k \in 1 .. len
      <3>1. line[k] \in Active(b) \ {i} /\ line[k] # 0
        BY <1>4, <1>10, <2>3
      <3>2. /\ c.nodes[line[k]].prev =
                 (IF line[k] = n.next THEN n.prev ELSE b.nodes[line[k]].prev)
            /\ c.nodes[line[k]].next =
                 (IF line[k] = n.prev THEN n.next ELSE b.nodes[line[k]].next)
        BY <1>3, <3>1
      <3>3. CASE k < at
        <4>1. k \in 1 .. lv.count /\ line[k] = old[k]
          BY <2>1, <2>2, <3>3
        <4>2. line[k] # n.next
          BY <1>7, <1>8, <1>9, <2>1, <3>1, <3>3, <4>1
        <4>3. line[k] = n.prev <=> k = at - 1
          <5>1. at - 1 \in 1 .. lv.count /\ n.prev = old[at - 1]
            BY <1>8, <1>9, <2>1, <3>3
          <5> QED
            BY <1>7, <4>1, <5>1
        <4>4. c.nodes[line[k]].prev = (IF k = 1 THEN kNull ELSE old[k - 1])
          BY <1>7, <3>2, <4>1, <4>2
        <4>5. k # 1 => line[k - 1] = old[k - 1]
          BY <1>8, <2>1, <2>2, <3>3
        <4>6. c.nodes[line[k]].next = (IF k = at - 1 THEN n.next ELSE old[k + 1])
          <5>1. b.nodes[old[k]].next = old[k + 1]
            BY <1>7, <1>8, <2>1, <3>3, <4>1
          <5> QED
            BY <3>2, <4>1, <4>3, <5>1
        <4>7. k # at - 1 => k # len /\ line[k + 1] = old[k + 1]
          BY <1>8, <2>1, <2>2, <3>3
        <4>8. k = at - 1 => n.next = (IF k = len THEN kNull ELSE line[k + 1])
          BY <1>8, <1>9, <2>1, <2>2 DEF kNull
        <4> QED
          BY <4>4, <4>5, <4>6, <4>7, <4>8
      <3>4. CASE ~ (k < at)
        <4>1. k + 1 \in 1 .. lv.count /\ line[k] = old[k + 1]
          BY <2>1, <2>2, <3>4
        <4>2. line[k] # n.prev
          BY <1>7, <1>8, <1>9, <2>1, <3>1, <3>4, <4>1
        <4>3. line[k] = n.next <=> k = at
          <5>1. at + 1 \in 1 .. lv.count /\ n.next = old[at + 1]
            BY <1>8, <1>9, <2>1, <3>4
          <5>2. line[k] = n.next <=> k + 1 = at + 1
            BY <1>7, <4>1, <5>1
          <5> QED
            BY <1>8, <5>2
        <4>4. c.nodes[line[k]].next = (IF k = len THEN kNull ELSE old[k + 2])
          BY <1>7, <2>1, <3>2, <4>1, <4>2
        <4>5. k # len => line[k + 1] = old[k + 2]
          BY <1>8, <2>1, <2>2, <3>4
        <4>6. c.nodes[line[k]].prev = (IF k = at THEN n.prev ELSE old[k])
          BY <1>7, <1>8, <2>1, <3>2, <3>4, <4>1, <4>3
        <4>7. k # at => k # 1 /\ line[k - 1] = old[k]
          BY <1>8, <2>1, <2>2, <3>4
        <4>8. k = at => n.prev = (IF k = 1 THEN kNull ELSE line[k - 1])
          BY <1>8, <1>9, <2>1, <2>2 DEF kNull
        <4> QED
          BY <4>4, <4>5, <4>6, <4>7, <4>8
      <3> QED
        BY <3>3, <3>4
    <2>8. IsLine(c, s, l, line)
      BY <1>13, <2>1, <2>4, <2>5, <2>6, <2>7 DEF IsLine
    <2>9. \E x \in [1 .. c.levels[s][l].count -> Members(c, s, l)] : IsLine(c, s, l, x)
      BY <1>13, <2>1, <2>3, <2>8
    <2> QED
      BY <1>12, <2>9 DEF LinesOK
  <1> QED
    BY <1>5, <1>8, <1>15, <1>16

(* Clearing the cached best level finds the best of the others. *)
LEMMA RecomputeWorks ==
  ASSUME NEW t \in Sides, NEW best, NEW l \in Levels, NEW bits \in SUBSET Levels,
         l \notin bits,
         best \in bits \cup {l},
         \A m \in bits \cup {l} : m = best \/ Better(t, best, m),
         NEW new, new = RecomputeBestAfterClear(best, t, l, bits)
  PROVE  /\ new = NoLevel => bits = {}
         /\ new # NoLevel => /\ new \in bits
                             /\ \A m \in bits : m = new \/ Better(t, new, m)
  <1>1. \A m \in bits : m \in Nat /\ m # NoLevel
    BY LevelsNat
  <1>2. CASE best # l
    <2>1. new = best
      BY <1>2 DEF RecomputeBestAfterClear
    <2> QED
      BY <1>1, <1>2, <2>1
  <1>3. CASE best = l /\ bits = {}
    <2>1. new = NoLevel
      BY <1>3 DEF RecomputeBestAfterClear, FindLowest, FindHighest
    <2> QED
      BY <1>3, <2>1
  <1>4. CASE best = l /\ bits # {} /\ t = "Buy"
    <2>1. new = FindHighest(bits)
      BY <1>4 DEF RecomputeBestAfterClear
    <2>2. new \in bits /\ \A m \in bits : new >= m
      BY <1>4, <2>1, FindHighestWorks
    <2> QED
      BY <1>1, <1>4, <2>2 DEF Better
  <1>5. CASE best = l /\ bits # {} /\ t = "Sell"
    <2>1. new = FindLowest(bits)
      BY <1>5 DEF RecomputeBestAfterClear
    <2>2. new \in bits /\ \A m \in bits : new <= m
      BY <1>5, <2>1, FindLowestWorks
    <2> QED
      BY <1>1, <1>5, <2>2 DEF Better
  <1> QED
    BY <1>2, <1>3, <1>4, <1>5 DEF Sides

(* The bitmap, the counters and the cached best level follow the removal. *)
LEMMA RemovedBest ==
  ASSUME NEW b, NEW i, NEW q, NEW c, NEW s, NEW l, NEW lv, NEW n,
         Removed(b, i, q, c, s, l, lv, n), BestOK(b), lv.count > 0
  PROVE  BestOK(c)
  <1>1. /\ b \in Books
        /\ s \in Sides /\ l \in Levels /\ lv \in LevelRecords /\ lv = b.levels[s][l]
        /\ c.levels = [b.levels EXCEPT ![s][l] = LevelWithout(lv, n.prev, n.next, q)]
    BY DEF Removed
  <1>2. /\ b.levels \in [Sides -> [Levels -> LevelRecords]]
        /\ b.occupied \in [Sides -> SUBSET Levels]
        /\ b.best \in [Sides -> Levels \cup {NoLevel}]
        /\ b.level_count \in [Sides -> Int]
    BY <1>1, BookFields
  <1>3. \A t \in Sides, m \in Levels :
          c.levels[t][m].count = IF t = s /\ m = l
                                 THEN LevelWithout(lv, n.prev, n.next, q).count
                                 ELSE b.levels[t][m].count
    BY <1>1, <1>2
  <1>4. lv.count \in Nat
    BY <1>1 DEF LevelRecords
  <1>5. \A t \in Sides :
          /\ \A m \in Levels : m \in b.occupied[t] <=> b.levels[t][m].count > 0
          /\ b.level_count[t] = Cardinality(b.occupied[t])
          /\ b.best[t] = NoLevel => b.occupied[t] = {}
          /\ b.best[t] # NoLevel =>
               /\ b.best[t] \in b.occupied[t]
               /\ \A m \in b.occupied[t] : m = b.best[t] \/ Better(t, b.best[t], m)
    BY DEF BestOK
  <1>6. CASE lv.count > 1
    <2>1. /\ \A t \in Sides : c.occupied[t] = b.occupied[t] /\ c.best[t] = b.best[t]
          /\ c.level_count = b.level_count
      <3>1. ~ (lv.count <= 1)
        BY <1>4, <1>6
      <3> QED
        BY <3>1, Zenon DEF Removed
    <2>2. LevelWithout(lv, n.prev, n.next, q).count > 0
      BY <1>4, <1>6 DEF LevelWithout
    <2>3. \A t \in Sides, m \in Levels : c.levels[t][m].count > 0 <=> b.levels[t][m].count > 0
      BY <1>1, <1>3, <1>6, <2>2
    <2> QED
      BY <1>5, <2>1, <2>3 DEF BestOK
  <1>7. CASE lv.count <= 1
    <2> DEFINE bits == b.occupied[s] \ {l}
    <2>1. /\ \A t \in Sides : c.occupied[t] = IF t = s THEN bits ELSE b.occupied[t]
          /\ \A t \in Sides :
               c.best[t] = IF t = s THEN RecomputeBestAfterClear(b.best[s], s, l, bits)
                                    ELSE b.best[t]
          /\ c.level_count = [b.level_count EXCEPT ![s] = @ - 1]
      BY <1>7 DEF Removed
    <2>2. l \in b.occupied[s]
      BY <1>1, <1>5
    <2>3. LevelWithout(lv, n.prev, n.next, q).count = 0
      BY <1>7 DEF LevelWithout, EmptyLevel
    <2>4. ASSUME NEW t \in Sides
          PROVE  \A m \in Levels : m \in c.occupied[t] <=> c.levels[t][m].count > 0
      BY <1>1, <1>3, <1>5, <2>1, <2>3
    <2>5. ASSUME NEW t \in Sides
          PROVE  c.level_count[t] = Cardinality(c.occupied[t])
      <3>1. CASE t = s
        <4>1. IsFiniteSet(b.occupied[s])
          BY <1>1, <1>2, LevelsNat, FS_Subset
        <4>2. Cardinality(b.occupied[s] \ {l}) = Cardinality(b.occupied[s]) - 1
          BY <2>2, <4>1, FS_RemoveElement
        <4> QED
          BY <1>1, <1>2, <1>5, <2>1, <3>1, <4>2
      <3>2. CASE t # s
        BY <1>1, <1>2, <1>5, <2>1, <3>2
      <3> QED
        BY <3>1, <3>2
    <2>6. ASSUME NEW t \in Sides
          PROVE  /\ c.best[t] = NoLevel => c.occupied[t] = {}
                 /\ c.best[t] # NoLevel =>
                      /\ c.best[t] \in c.occupied[t]
                      /\ \A m \in c.occupied[t] : m = c.best[t] \/ Better(t, c.best[t], m)
      <3>1. CASE t # s
        BY <1>5, <2>1, <3>1
      <3>2. CASE t = s
        <4>1. /\ b.best[s] \in bits \cup {l} /\ bits \in SUBSET Levels /\ l \notin bits
              /\ \A m \in bits \cup {l} : m = b.best[s] \/ Better(s, b.best[s], m)
          BY <1>1, <1>2, <1>5, <2>2
        <4>2. PICK new, best, x : /\ new = RecomputeBestAfterClear(b.best[s], s, l, bits)
                                  /\ best = b.best[s] /\ x = bits
          OBVIOUS
        <4>3. c.best[t] = new /\ c.occupied[t] = x
          BY <2>1, <3>2, <4>2
        <4>4. /\ best \in x \cup {l} /\ x \in SUBSET Levels /\ l \notin x
              /\ \A m \in x \cup {l} : m = best \/ Better(s, best, m)
              /\ new = RecomputeBestAfterClear(best, s, l, x)
              /\ s \in Sides /\ l \in Levels
          BY <1>1, <4>1, <4>2
        <4>5. /\ new = NoLevel => x = {}
              /\ new # NoLevel => /\ new \in x
                                  /\ \A m \in x : m = new \/ Better(s, new, m)
          BY <4>4, RecomputeWorks
        <4> QED
          BY <3>2, <4>3, <4>5
      <3> QED
        BY <3>1, <3>2
    <2> QED
      BY <2>4, <2>5, <2>6 DEF BestOK
  <1> QED
    BY <1>4, <1>6, <1>7

(***************************************************************************)
(* remove_node keeps the book in order.  The node may have nothing left,   *)
(* as execute_head leaves it; every other order must be open.              *)
(***************************************************************************)
LEMMA RemoveNodeOK ==
  ASSUME NEW b \in Books, PoolOK(b), IndexOK(b), PlacedOK(b), LinesOK(b), BestOK(b),
         NEW i \in Active(b), NEW q \in Nat,
         \A h \in Active(b) \ {i} : b.nodes[h].qty > 0
  PROVE  /\ RemoveNode(b, i, q) \in Books
         /\ BookInv(RemoveNode(b, i, q))
         /\ ~ Contains(RemoveNode(b, i, q), b.nodes[i].order_id)
         /\ \A id \in OrderIds : ~ Contains(b, id) => ~ Contains(RemoveNode(b, i, q), id)
         /\ \A t \in Sides : RemoveNode(b, i, q).occupied[t] \subseteq b.occupied[t]
  <1>1. PICK c, n, s, l, lv : /\ c = RemoveNode(b, i, q) /\ n = b.nodes[i]
                              /\ s = n.side /\ l = n.level_idx /\ lv = b.levels[s][l]
    OBVIOUS
  <1>2. Removed(b, i, q, c, s, l, lv, n)
    BY <1>1, RemoveFields
  <1>3. lv.count > 0
    <2>1. i \in Members(b, s, l)
      BY <1>2, RemovedMembers
    <2>2. s \in Sides /\ l \in Levels /\ lv = b.levels[s][l] /\ lv \in LevelRecords
      BY <1>2 DEF Removed
    <2>3. PICK line \in [1 .. lv.count -> Members(b, s, l)] : IsLine(b, s, l, line)
      BY <2>2 DEF LinesOK
    <2>4. \E k \in 1 .. lv.count : line[k] = i
      BY <2>1, <2>2, <2>3 DEF IsLine
    <2> QED
      BY <2>2, <2>4 DEF LevelRecords
  <1>4. PoolOK(c)
    BY <1>2, RemovedPool
  <1>5. IndexOK(c) /\ PlacedOK(c) /\ OpenOK(c)
    BY <1>2, RemovedIndex
  <1>6. LinesOK(c)
    BY <1>2, RemovedLines
  <1>7. BestOK(c)
    BY <1>2, <1>3, RemovedBest
  <1>8. /\ c \in Books /\ n.order_id \in OrderIds
        /\ c.index = [b.index EXCEPT ![n.order_id] = kNull]
    BY <1>2 DEF Removed
  <1>9. b.index \in [OrderIds -> Nat]
    BY BookFields
  <1>10. /\ ~ Contains(c, n.order_id)
         /\ \A id \in OrderIds : ~ Contains(b, id) => ~ Contains(c, id)
    BY <1>8, <1>9 DEF Contains
  <1>11. \A t \in Sides : c.occupied[t] \subseteq b.occupied[t]
    <2>1. \A t \in Sides :
            c.occupied[t] = IF lv.count <= 1 /\ t = s THEN b.occupied[s] \ {l}
                                                      ELSE b.occupied[t]
      BY <1>2, Zenon DEF Removed
    <2> QED
      BY <2>1
  <1> QED
    BY <1>1, <1>4, <1>5, <1>6, <1>7, <1>8, <1>10, <1>11 DEF BookInv

-----------------------------------------------------------------------------
(* Partial executions. *)

(* c is b with qty x left in slot i and y as the total of its level. *)
Reduced(b, i, x, y, c) ==
  LET n == b.nodes[i]
  IN  c = [b EXCEPT !.nodes[i].qty = x, !.levels[n.side][n.level_idx].total_qty = y]

(* Changing what an order has left disturbs nothing but OpenOK. *)
LEMMA ReduceOK ==
  ASSUME NEW b \in Books, PoolOK(b), IndexOK(b), PlacedOK(b), LinesOK(b), BestOK(b),
         NEW i \in Active(b), NEW x \in Qty, NEW y \in Qty, NEW c, Reduced(b, i, x, y, c)
  PROVE  /\ c \in Books
         /\ PoolOK(c) /\ IndexOK(c) /\ PlacedOK(c) /\ LinesOK(c) /\ BestOK(c)
         /\ Active(c) = Active(b) /\ c.index = b.index /\ c.occupied = b.occupied
         /\ c.nodes[i].qty = x /\ c.nodes[i].order_id = b.nodes[i].order_id
         /\ \A h \in Active(b) \ {i} : c.nodes[h].qty = b.nodes[h].qty
  <1> DEFINE n == b.nodes[i]
             s == n.side
             l == n.level_idx
             nodes == [b.nodes EXCEPT ![i].qty = x]
             levels == [b.levels EXCEPT ![s][l].total_qty = y]
  <1>1. i \in DOMAIN b.nodes /\ n \in Nodes /\ s \in Sides /\ l \in Levels
    <2>1. i \in DOMAIN b.nodes
      BY DEF Active
    <2>2. n \in Nodes
      BY <2>1, BookFields
    <2> QED
      BY <2>1, <2>2 DEF Nodes
  <1>2. [n EXCEPT !.qty = x] \in Nodes
    BY <1>1 DEF Nodes
  <1>3. nodes \in Seq(Nodes)
    BY <1>1, <1>2, BookFields
  <1>4. b.levels[s][l] \in LevelRecords
    BY <1>1, BookFields
  <1>5. [b.levels[s][l] EXCEPT !.total_qty = y] \in LevelRecords
    BY <1>4 DEF LevelRecords
  <1>6. levels \in [Sides -> [Levels -> LevelRecords]]
    BY <1>1, <1>5, BookFields
  <1>7. c = [nodes |-> nodes, free |-> b.free, index |-> b.index, levels |-> levels,
             occupied |-> b.occupied, best |-> b.best, level_count |-> b.level_count]
    BY DEF Reduced, Books
  <1>8. /\ DOMAIN nodes = DOMAIN b.nodes
        /\ \A h \in DOMAIN b.nodes :
             /\ nodes[h].active = b.nodes[h].active
             /\ nodes[h].order_id = b.nodes[h].order_id
             /\ nodes[h].side = b.nodes[h].side
             /\ nodes[h].level_idx = b.nodes[h].level_idx
             /\ nodes[h].price = b.nodes[h].price
             /\ nodes[h].prev = b.nodes[h].prev
             /\ nodes[h].next = b.nodes[h].next
             /\ nodes[h].qty = IF h = i THEN x ELSE b.nodes[h].qty
    <2>1. DOMAIN nodes = DOMAIN b.nodes
      OBVIOUS
    <2>2. ASSUME NEW h \in DOMAIN b.nodes, h # i
          PROVE  nodes[h] = b.nodes[h]
      BY <2>2
    <2>3. nodes[i] = [n EXCEPT !.qty = x]
      BY <1>1
    <2>4. /\ nodes[i].active = n.active /\ nodes[i].order_id = n.order_id
          /\ nodes[i].side = n.side /\ nodes[i].level_idx = n.level_idx
          /\ nodes[i].price = n.price /\ nodes[i].prev = n.prev
          /\ nodes[i].next = n.next /\ nodes[i].qty = x
      BY <1>1, <2>3 DEF Nodes
    <2> HIDE DEF nodes
    <2> QED
      BY <2>1, <2>2, <2>4
  <1>9. \A t \in Sides, m \in Levels :
          /\ levels[t][m].count = b.levels[t][m].count
          /\ levels[t][m].head = b.levels[t][m].head
          /\ levels[t][m].tail = b.levels[t][m].tail
    <2> TAKE t \in Sides, m \in Levels
    <2>1. CASE t = s /\ m = l
      <3>1. levels[t][m] = [b.levels[s][l] EXCEPT !.total_qty = y]
        BY <1>1, <2>1, BookFields
      <3> QED
        BY <1>4, <2>1, <3>1 DEF LevelRecords
    <2>2. CASE ~ (t = s /\ m = l)
      <3>1. levels[t][m] = b.levels[t][m]
        BY <1>1, <2>2, BookFields
      <3> QED
        BY <3>1
    <2> QED
      BY <2>1, <2>2
  <1> HIDE DEF nodes, levels
  <1>10. c \in Books
    BY <1>3, <1>6, <1>7, BookFields DEF Books
  <1>11. /\ c.nodes = nodes /\ c.levels = levels /\ c.index = b.index /\ c.free = b.free
         /\ c.occupied = b.occupied /\ c.best = b.best /\ c.level_count = b.level_count
    BY <1>7
  <1>12. Active(c) = Active(b)
    BY <1>8, <1>11 DEF Active
  <1>13. \A t \in Sides, m \in Levels : Members(c, t, m) = Members(b, t, m)
    BY <1>8, <1>11, <1>12 DEF Members, Active
  <1>14. PoolOK(c)
    BY <1>8, <1>11, <1>12 DEF PoolOK
  <1>15. IndexOK(c)
    BY <1>8, <1>11, <1>12 DEF IndexOK, Contains, Active
  <1>16. PlacedOK(c)
    BY <1>8, <1>11, <1>12 DEF PlacedOK, Active
  <1>17. LinesOK(c)
    <2> SUFFICES ASSUME NEW t \in Sides, NEW m \in Levels
                 PROVE  \E line \in [1 .. c.levels[t][m].count -> Members(c, t, m)] :
                           IsLine(c, t, m, line)
      BY DEF LinesOK
    <2>1. PICK line \in [1 .. b.levels[t][m].count -> Members(b, t, m)] :
             IsLine(b, t, m, line)
      BY DEF LinesOK
    <2>2. \A k \in 1 .. b.levels[t][m].count : line[k] \in DOMAIN b.nodes
      BY <2>1 DEF Members, Active
    <2>3. IsLine(c, t, m, line)
      <3>1. /\ c.levels[t][m].count = b.levels[t][m].count
            /\ c.levels[t][m].head = b.levels[t][m].head
            /\ c.levels[t][m].tail = b.levels[t][m].tail
        BY <1>9, <1>11
      <3>2. \A k \in 1 .. b.levels[t][m].count :
              /\ c.nodes[line[k]].prev = b.nodes[line[k]].prev
              /\ c.nodes[line[k]].next = b.nodes[line[k]].next
        BY <1>8, <1>11, <2>2
      <3>3. Members(c, t, m) = Members(b, t, m)
        BY <1>13
      <3> QED
        BY ZenonT(40), <2>1, <3>1, <3>2, <3>3 DEF IsLine
    <2>4. line \in [1 .. c.levels[t][m].count -> Members(c, t, m)]
      BY <1>9, <1>11, <1>13, <2>1
    <2> QED
      BY <2>3, <2>4
  <1>18. BestOK(c)
    BY <1>9, <1>11 DEF BestOK
  <1>19. \A h \in Active(b) \ {i} : c.nodes[h].qty = b.nodes[h].qty
    BY <1>8, <1>11 DEF Active
  <1> QED
    BY <1>1, <1>8, <1>10, <1>11, <1>12, <1>14, <1>15, <1>16, <1>17, <1>18, <1>19

(* The head of the best level is an order. *)
LEMMA BestHeadActive ==
  ASSUME NEW b \in Books, LinesOK(b), BestOK(b), NEW s \in Sides, b.best[s] # NoLevel
  PROVE  BestHead(b, s) \in Active(b)
  <1> DEFINE l == b.best[s]
  <1>1. l \in Levels /\ b.levels[s][l].count > 0
    <2>1. l \in b.occupied[s]
      BY DEF BestOK
    <2>2. l \in Levels
      BY <2>1, BookFields
    <2> QED
      BY <2>1, <2>2 DEF BestOK
  <1>2. PICK line \in [1 .. b.levels[s][l].count -> Members(b, s, l)] : IsLine(b, s, l, line)
    BY <1>1 DEF LinesOK
  <1>3. b.levels[s][l].count \in Nat
    BY <1>1, BookFields DEF LevelRecords
  <1>4. b.levels[s][l].head = line[1] /\ 1 \in 1 .. b.levels[s][l].count
    <2> HIDE DEF l
    <2>1. 1 \in 1 .. b.levels[s][l].count /\ b.levels[s][l].count # 0
      BY <1>1, <1>3
    <2> QED
      BY <1>2, <2>1 DEF IsLine
  <1>5. line[1] \in Members(b, s, l)
    BY <1>2, <1>4
  <1> QED
    BY <1>4, <1>5 DEF BestHead, Members

(* execute_head and the partial fill of feed_execute. *)
LEMMA ExecuteHeadOK ==
  ASSUME NEW b \in Books, BookInv(b), NEW i \in Active(b), NEW qty \in Nat
  PROVE  /\ ExecuteHead(b, i, qty) \in Books
         /\ BookInv(ExecuteHead(b, i, qty))
         /\ \A id \in OrderIds : ~ Contains(b, id) => ~ Contains(ExecuteHead(b, i, qty), id)
         /\ \A t \in Sides : ExecuteHead(b, i, qty).occupied[t] \subseteq b.occupied[t]
  <1> DEFINE n == b.nodes[i]
             done == ExecutedQty(b, i, qty)
             x == n.qty - done
             y == (b.levels[n.side][n.level_idx].total_qty - done) % QtyModulus
             c == [b EXCEPT !.nodes[i].qty = x,
                            !.levels[n.side][n.level_idx].total_qty = y]
  <1>1. n \in Nodes
    BY BookFields DEF Active
  <1>2. b.levels[n.side][n.level_idx] \in LevelRecords
    <2>1. n.side \in Sides /\ n.level_idx \in Levels
      BY <1>1 DEF Nodes
    <2> QED
      BY <2>1, BookFields
  <1>3. /\ n.qty \in Nat /\ done \in Nat /\ done <= n.qty /\ x \in Qty
        /\ n.qty # done => x > 0
    <2>1. n.qty \in Nat /\ n.qty < QtyModulus
      BY <1>1, QtyAssumption DEF Nodes, Qty
    <2>2. done = IF n.qty < qty THEN n.qty ELSE qty
      BY DEF ExecutedQty, MinOf
    <2> HIDE DEF done, n
    <2> QED
      BY <2>1, <2>2, QtyAssumption DEF Qty
  <1>4. y \in Qty
    <2>1. b.levels[n.side][n.level_idx].total_qty \in Int
      BY <1>2, LevelTotal
    <2>2. b.levels[n.side][n.level_idx].total_qty - done \in Int
      BY <1>3, <2>1
    <2> QED
      BY <2>2, QtyMod
  <1>5. ExecuteHead(b, i, qty) = IF n.qty = done THEN RemoveNode(c, i, 0) ELSE c
    BY <1>1, <1>2 DEF ExecuteHead, Nodes, LevelRecords, Books
  <1>6. PICK p, u, v : p = c /\ u = x /\ v = y
    OBVIOUS
  <1>7. Reduced(b, i, u, v, p) /\ u \in Qty /\ v \in Qty
    BY <1>3, <1>4, <1>6 DEF Reduced
  <1>8. ExecuteHead(b, i, qty) = IF n.qty = done THEN RemoveNode(p, i, 0) ELSE p
    BY <1>5, <1>6
  <1>9. /\ p \in Books
        /\ PoolOK(p) /\ IndexOK(p) /\ PlacedOK(p) /\ LinesOK(p) /\ BestOK(p)
        /\ Active(p) = Active(b) /\ p.index = b.index
        /\ p.occupied = b.occupied
        /\ p.nodes[i].qty = u
        /\ \A h \in Active(b) \ {i} : p.nodes[h].qty = b.nodes[h].qty
    BY <1>7, ReduceOK DEF BookInv
  <1>10. \A h \in Active(b) \ {i} : p.nodes[h].qty > 0
    BY <1>9 DEF BookInv, OpenOK
  <1>11. \A id \in OrderIds : ~ Contains(b, id) => ~ Contains(p, id)
    BY <1>9 DEF Contains
  <1>12. CASE n.qty = done
    <2>1. /\ RemoveNode(p, i, 0) \in Books /\ BookInv(RemoveNode(p, i, 0))
          /\ \A id \in OrderIds : ~ Contains(p, id) => ~ Contains(RemoveNode(p, i, 0), id)
          /\ \A t \in Sides : RemoveNode(p, i, 0).occupied[t] \subseteq p.occupied[t]
      BY <1>9, <1>10, RemoveNodeOK
    <2> QED
      BY <1>8, <1>9, <1>11, <1>12, <2>1
  <1>13. CASE n.qty # done
    <2>1. OpenOK(p)
      BY <1>3, <1>6, <1>9, <1>10, <1>13 DEF OpenOK
    <2> QED
      BY <1>8, <1>9, <1>11, <1>13, <2>1 DEF BookInv
  <1> QED
    BY <1>12, <1>13

(* feed_execute, on an order that rests. *)
LEMMA FeedExecuteNodeOK ==
  ASSUME NEW b \in Books, BookInv(b), NEW i \in Active(b), NEW qty \in Nat, qty # 0
  PROVE  FeedExecuteNode(b, i, qty) \in Books /\ BookInv(FeedExecuteNode(b, i, qty))
  <1> DEFINE n == b.nodes[i]
             x == n.qty - qty
             y == (b.levels[n.side][n.level_idx].total_qty - qty) % QtyModulus
             c == [b EXCEPT !.nodes[i].qty = x,
                            !.levels[n.side][n.level_idx].total_qty = y]
  <1>1. n \in Nodes /\ n.qty \in Nat /\ n.qty < QtyModulus
    <2>1. n \in Nodes
      BY BookFields DEF Active
    <2> QED
      BY <2>1, QtyAssumption DEF Nodes, Qty
  <1>2. b.levels[n.side][n.level_idx] \in LevelRecords
    <2>1. n.side \in Sides /\ n.level_idx \in Levels
      BY <1>1 DEF Nodes
    <2> QED
      BY <2>1, BookFields
  <1>3. CASE qty >= n.qty
    <2>1. FeedExecuteNode(b, i, qty) = RemoveNode(b, i, n.qty)
      BY <1>3 DEF FeedExecuteNode
    <2>2. \A h \in Active(b) : b.nodes[h].qty > 0
      BY DEF BookInv, OpenOK
    <2>3. RemoveNode(b, i, n.qty) \in Books /\ BookInv(RemoveNode(b, i, n.qty))
      BY <1>1, <2>2, RemoveNodeOK DEF BookInv
    <2> QED
      BY <2>1, <2>3
  <1>4. CASE ~ (qty >= n.qty)
    <2>1. FeedExecuteNode(b, i, qty) = c
      BY <1>1, <1>2, <1>4 DEF FeedExecuteNode, Nodes, LevelRecords, Books
    <2>2. x \in Qty /\ x > 0
      BY <1>1, <1>4, QtyAssumption DEF Qty
    <2>3. y \in Qty
      <3>1. b.levels[n.side][n.level_idx].total_qty \in Int
        BY <1>2, LevelTotal
      <3>2. b.levels[n.side][n.level_idx].total_qty - qty \in Int
        BY <3>1
      <3> QED
        BY <3>2, QtyMod
    <2>4. PICK p, u, v : p = c /\ u = x /\ v = y
      OBVIOUS
    <2>5. Reduced(b, i, u, v, p) /\ u \in Qty /\ v \in Qty
      BY <2>2, <2>3, <2>4 DEF Reduced
    <2>6. /\ p \in Books
          /\ PoolOK(p) /\ IndexOK(p) /\ PlacedOK(p) /\ LinesOK(p) /\ BestOK(p)
          /\ Active(p) = Active(b)
          /\ p.nodes[i].qty = u
          /\ \A h \in Active(b) \ {i} : p.nodes[h].qty = b.nodes[h].qty
      BY <2>5, ReduceOK DEF BookInv
    <2>7. OpenOK(p)
      BY <2>2, <2>4, <2>6 DEF BookInv, OpenOK
    <2> QED
      BY <2>1, <2>4, <2>6, <2>7 DEF BookInv
  <1> QED
    BY <1>3, <1>4

(* The book an OrderBook starts with. *)
LEMMA EmptyBookOK == EmptyBook \in Books /\ BookInv(EmptyBook)
  <1>1. EmptyLevel \in LevelRecords
    BY QtyAssumption DEF EmptyLevel, LevelRecords, Qty, kNull
  <1>2. EmptyBook \in Books
    BY <1>1 DEF EmptyBook, Books, kNull
  <1>3. EmptyBook.nodes = <<>> /\ EmptyBook.free = <<>> /\ Active(EmptyBook) = {}
    BY DEF EmptyBook, Active
  <1>4. PoolOK(EmptyBook)
    BY <1>3 DEF PoolOK
  <1>5. IndexOK(EmptyBook) /\ PlacedOK(EmptyBook) /\ OpenOK(EmptyBook)
    BY <1>3 DEF IndexOK, PlacedOK, OpenOK, Contains, EmptyBook
  <1>6. \A s \in Sides, l \in Levels : EmptyBook.levels[s][l] = EmptyLevel
    BY DEF EmptyBook
  <1>7. LinesOK(EmptyBook)
    <2> SUFFICES ASSUME NEW s \in Sides, NEW l \in Levels
                 PROVE  \E line \in [1 .. EmptyBook.levels[s][l].count ->
                                        Members(EmptyBook, s, l)] :
                           IsLine(EmptyBook, s, l, line)
      BY DEF LinesOK
    <2> DEFINE line == [k \in 1 .. 0 |-> 0]
    <2>1. /\ EmptyBook.levels[s][l].count = 0
          /\ EmptyBook.levels[s][l].head = kNull /\ EmptyBook.levels[s][l].tail = kNull
      BY <1>6 DEF EmptyLevel
    <2>2. Members(EmptyBook, s, l) = {}
      BY <1>3 DEF Members
    <2>3. line \in [1 .. EmptyBook.levels[s][l].count -> Members(EmptyBook, s, l)]
      BY <2>1
    <2>4. IsLine(EmptyBook, s, l, line)
      BY <2>1, <2>2 DEF IsLine
    <2> QED
      BY <2>3, <2>4
  <1>8. BestOK(EmptyBook)
    <2>1. \A s \in Sides : /\ EmptyBook.occupied[s] = {} /\ EmptyBook.best[s] = NoLevel
                           /\ EmptyBook.level_count[s] = 0
      BY DEF EmptyBook
    <2>2. Cardinality({}) = 0
      BY FS_EmptySet
    <2>3. \A s \in Sides, l \in Levels : ~ (EmptyBook.levels[s][l].count > 0)
      BY <1>6 DEF EmptyLevel
    <2> QED
      BY <2>1, <2>2, <2>3 DEF BestOK
  <1> QED
    BY <1>2, <1>4, <1>5, <1>7, <1>8 DEF BookInv

-----------------------------------------------------------------------------
(* The steps. *)

(* What the type of the taker says of an order being matched. *)
LEMMA TakerFacts ==
  ASSUME TypeOK, taker # NoTaker
  PROVE  /\ taker.order_id \in OrderIds /\ taker.account_id \in Accounts
         /\ taker.side \in Sides /\ taker.price \in Band
         /\ taker.qty \in Nat /\ taker.qty < QtyModulus
         /\ \A q \in 0 .. taker.qty :
              \E o \in Takers : \E r \in 0 .. o.qty : [taker EXCEPT !.qty = q] = [o EXCEPT !.qty = r]
  <1>0. PICK o \in Takers : \E q \in 0 .. o.qty : taker = [o EXCEPT !.qty = q]
    BY DEF TypeOK
  <1>1. PICK q \in 0 .. o.qty : taker = [o EXCEPT !.qty = q]
    BY <1>0
  <1>2. /\ o \in Orders /\ o.price \in Band
        /\ o.qty \in Nat /\ o.qty < QtyModulus /\ QtyModulus \in Nat
    BY InputAssumption, QtyAssumption DEF Takers, Orders, PriceInBand
  <1>3. /\ taker.order_id = o.order_id /\ taker.account_id = o.account_id
        /\ taker.side = o.side /\ taker.price = o.price /\ taker.qty = q
    BY <1>1, <1>2 DEF Orders
  <1>4. ASSUME NEW r \in 0 .. taker.qty
        PROVE  [taker EXCEPT !.qty = r] = [o EXCEPT !.qty = r] /\ r \in 0 .. o.qty
    <2>1. r \in 0 .. o.qty
      BY <1>1, <1>2, <1>3
    <2>2. [taker EXCEPT !.qty = r] = [o EXCEPT !.qty = r]
      BY <1>1, <1>2 DEF Orders
    <2> QED
      BY <2>1, <2>2
  <1>5. o.order_id \in OrderIds /\ o.account_id \in Accounts /\ o.side \in Sides
    BY <1>2 DEF Orders
  <1>6. q \in Nat /\ q < QtyModulus
    BY <1>2
  <1>7. \A r \in 0 .. taker.qty :
          \E x \in Takers : \E y \in 0 .. x.qty : [taker EXCEPT !.qty = r] = [x EXCEPT !.qty = y]
    BY <1>1, <1>4
  <1> QED
    BY <1>2, <1>3, <1>5, <1>6, <1>7

(* An event about an order that rests. *)
LEMMA EventType ==
  ASSUME NEW b \in Books, BookInv(b), NEW i \in Active(b),
         NEW type \in {"Cancel", "Execute"}, NEW q \in Nat
  PROVE  MdEvent(type, b.nodes[i], q) \in MdEvents
  <1>1. b.nodes[i] \in Nodes
    BY BookFields DEF Active
  <1>2. b.nodes[i].order_id \in OrderIds /\ b.nodes[i].price \in Band
    BY DEF BookInv, IndexOK, PlacedOK
  <1> QED
    BY <1>1, <1>2 DEF MdEvent, MdEvents, Nodes

(* add_order up to its loop. *)
LEMMA EnterAddOK ==
  ASSUME NEW STATE b, b \in Books, BookInv(b), NEW STATE md, md \in Seq(MdEvents),
         NEW o \in Orders, EnterAdd(b, md, o)
  PROVE  TypeOK' /\ RepOK'
  <1>1. book' = b /\ out' = [md |-> md, reject |-> AddReject(b, o)]
        /\ taker' = IF AddReject(b, o) = "None" THEN o ELSE NoTaker
    BY DEF EnterAdd
  <1>2. AddReject(b, o) \in BookRejects
    BY DEF AddReject, BookRejects
  <1>3. CASE AddReject(b, o) = "None"
    <2>1. PriceInBand(o.price) /\ ~ Contains(b, o.order_id)
      BY <1>3 DEF AddReject
    <2>2. taker' = o
      BY <1>1, <1>3
    <2>3. o \in Takers /\ o.qty \in 0 .. o.qty /\ o = [o EXCEPT !.qty = o.qty]
      BY <2>1, InputAssumption DEF Takers, Orders
    <2>4. TypeOK'
      BY <1>1, <1>2, <2>2, <2>3 DEF TypeOK
    <2>5. RepOK'
      BY <1>1, <2>1, <2>2 DEF RepOK, TakerNotResting
    <2> QED
      BY <2>4, <2>5
  <1>4. CASE AddReject(b, o) # "None"
    <2>1. taker' = NoTaker
      BY <1>1, <1>4
    <2> QED
      BY <1>1, <1>2, <2>1 DEF TypeOK, RepOK, TakerNotResting
  <1> QED
    BY <1>3, <1>4

(* Calls that leave no taker behind. *)
LEMMA IdleOK ==
  ASSUME book' \in Books, BookInv(book'), taker' = NoTaker,
         NEW STATE md, md \in Seq(MdEvents), NEW reason \in BookRejects,
         out' = [md |-> md, reject |-> reason]
  PROVE  TypeOK' /\ RepOK'
  BY DEF TypeOK, RepOK, TakerNotResting

(* cancel_order on an order that rests. *)
LEMMA CancelledOK ==
  ASSUME NEW b \in Books, BookInv(b), NEW id \in OrderIds, Contains(b, id)
  PROVE  /\ Cancelled(b, id) \in Books
         /\ BookInv(Cancelled(b, id))
         /\ <<CancelEvent(b, id)>> \in Seq(MdEvents)
         /\ \A t \in Sides : Cancelled(b, id).occupied[t] \subseteq b.occupied[t]
  <1>1. PICK i : i = b.index[id]
    OBVIOUS
  <1>2. i \in Active(b)
    BY <1>1 DEF BookInv, IndexOK
  <1>3. b.nodes[i].qty \in Nat
    BY <1>2, BookFields, QtyAssumption DEF Active, Nodes, Qty
  <1>4. \A h \in Active(b) : b.nodes[h].qty > 0
    BY DEF BookInv, OpenOK
  <1>5. PICK q : q = b.nodes[i].qty
    OBVIOUS
  <1>6. /\ RemoveNode(b, i, q) \in Books /\ BookInv(RemoveNode(b, i, q))
        /\ \A t \in Sides : RemoveNode(b, i, q).occupied[t] \subseteq b.occupied[t]
    BY <1>2, <1>3, <1>4, <1>5, RemoveNodeOK DEF BookInv
  <1>7. MdEvent("Cancel", b.nodes[i], q) \in MdEvents
    BY <1>2, <1>3, <1>5, EventType
  <1>8. Cancelled(b, id) = RemoveNode(b, i, q)
    BY <1>1, <1>5 DEF Cancelled
  <1>9. CancelEvent(b, id) = MdEvent("Cancel", b.nodes[i], q)
    BY <1>1, <1>5 DEF CancelEvent
  <1>10. <<CancelEvent(b, id)>> \in Seq(MdEvents)
    BY <1>7, <1>9
  <1> QED
    BY <1>6, <1>8, <1>10

(* One iteration of the loop of add_order. *)
LEMMA MatchOK ==
  ASSUME TypeOK, RepOK, Match
  PROVE  TypeOK' /\ RepOK'
  <1> DEFINE s == Opposite(taker.side)
             i == BestHead(book, s)
             done == ExecutedQty(book, i, taker.qty)
  <1>1. /\ taker # NoTaker /\ book \in Books /\ BookInv(book)
        /\ ~ Contains(book, taker.order_id)
    BY DEF Match, TypeOK, RepOK, TakerNotResting
  <1>2. /\ taker.order_id \in OrderIds /\ taker.side \in Sides
        /\ taker.qty \in Nat /\ taker.qty < QtyModulus
        /\ \A q \in 0 .. taker.qty :
             \E o \in Takers : \E r \in 0 .. o.qty : [taker EXCEPT !.qty = q] = [o EXCEPT !.qty = r]
    BY <1>1, TakerFacts
  <1>3. s \in Sides /\ book.best[s] # NoLevel
    BY <1>2 DEF Match, Matching, Crosses, Opposite, Sides
  <1>4. i \in Active(book)
    BY <1>1, <1>3, BestHeadActive DEF BookInv
  <1>5. /\ book' = ExecuteHead(book, i, taker.qty)
        /\ taker' = [taker EXCEPT !.qty = @ - done]
        /\ out' = Emit(<<MdEvent("Execute", book.nodes[i], done)>>)
    BY DEF Match
  <1>6. done \in Nat /\ taker.qty - done \in 0 .. taker.qty
    <2>1. book.nodes[i].qty \in Nat
      BY <1>1, <1>4, BookFields, QtyAssumption DEF Active, Nodes, Qty
    <2> HIDE DEF i
    <2> QED
      BY <1>2, <2>1 DEF ExecutedQty, MinOf
  <1> HIDE DEF i, done, s
  <1>7. /\ book' \in Books /\ BookInv(book') /\ ~ Contains(book', taker.order_id)
    BY <1>1, <1>2, <1>4, <1>5, ExecuteHeadOK
  <1>8. <<MdEvent("Execute", book.nodes[i], done)>> \in Seq(MdEvents)
    <2>1. MdEvent("Execute", book.nodes[i], done) \in MdEvents
      BY <1>1, <1>4, <1>6, EventType
    <2> QED
      BY <2>1
  <1>9. taker' = [taker EXCEPT !.qty = taker.qty - done]
    BY <1>5
  <1>10. \E o \in Takers : \E r \in 0 .. o.qty : taker' = [o EXCEPT !.qty = r]
    BY <1>2, <1>6, <1>9
  <1>11. taker'.order_id = taker.order_id
    BY <1>9
  <1>12. TypeOK'
    BY <1>5, <1>7, <1>8, <1>10 DEF TypeOK, Emit, BookRejects
  <1>13. RepOK'
    BY <1>7, <1>11 DEF RepOK, TakerNotResting
  <1> QED
    BY <1>12, <1>13

(* The end of add_order, when a remainder rests. *)
LEMMA RestOK ==
  ASSUME TypeOK, RepOK, Rest
  PROVE  TypeOK' /\ RepOK'
  <1>1. /\ taker # NoTaker /\ taker.qty > 0 /\ book' = RestOrder(book, taker)
        /\ taker' = NoTaker /\ out' = Emit(<<MdEvent("Add", taker, taker.qty)>>)
    BY DEF Rest
  <1>2. /\ taker.order_id \in OrderIds /\ taker.account_id \in Accounts
        /\ taker.side \in Sides /\ taker.price \in Band
        /\ taker.qty \in Nat /\ taker.qty < QtyModulus
    BY <1>1, TakerFacts
  <1>3. Restable(taker)
    BY <1>1, <1>2, QtyAssumption DEF Restable, Qty
  <1>4. book \in Books /\ BookInv(book) /\ ~ Contains(book, taker.order_id)
    BY <1>1 DEF TypeOK, RepOK, TakerNotResting
  <1>5. book' \in Books /\ BookInv(book')
    BY <1>1, <1>3, <1>4, RestOrderOK
  <1>6. MdEvent("Add", taker, taker.qty) \in MdEvents
    BY <1>2 DEF MdEvent, MdEvents
  <1>7. <<MdEvent("Add", taker, taker.qty)>> \in Seq(MdEvents)
    BY <1>6
  <1> QED
    BY <1>1, <1>5, <1>7, IdleOK DEF Emit, BookRejects

(* The calls that change nothing in the book. *)
LEMMA SameBookOK ==
  ASSUME TypeOK, RepOK, book' = book, taker' = NoTaker,
         NEW reason \in BookRejects, out' = [md |-> <<>>, reject |-> reason]
  PROVE  TypeOK' /\ RepOK'
  <1>1. book' \in Books /\ BookInv(book')
    BY DEF TypeOK, RepOK
  <1>2. <<>> \in Seq(MdEvents)
    OBVIOUS
  <1> QED
    BY <1>1, <1>2, IdleOK

(* feed_add, and so the Add of a subscriber. *)
LEMMA FeedAddActionOK ==
  ASSUME TypeOK, RepOK, NEW o \in Orders, FeedAdd(o)
  PROVE  TypeOK' /\ RepOK'
  <1>1. /\ ~ Contains(book, o.order_id) /\ o.qty # 0 /\ o.price \in Band
        /\ book' = RestOrder(book, o) /\ taker' = NoTaker
        /\ out' = Emit(<<MdEvent("Add", o, o.qty)>>)
    BY DEF FeedAdd, FeedAddOk, PriceInBand
  <1>2. /\ o.order_id \in OrderIds /\ o.account_id \in Accounts /\ o.side \in Sides
        /\ o.qty \in Nat /\ o.qty < QtyModulus
    BY InputAssumption, QtyAssumption DEF Orders
  <1>3. Restable(o)
    BY <1>1, <1>2, QtyAssumption DEF Restable, Qty
  <1>4. book \in Books /\ BookInv(book)
    BY DEF TypeOK, RepOK
  <1>5. book' \in Books /\ BookInv(book')
    BY <1>1, <1>3, <1>4, RestOrderOK
  <1>6. MdEvent("Add", o, o.qty) \in MdEvents
    BY <1>1, <1>2 DEF MdEvent, MdEvents
  <1>7. <<MdEvent("Add", o, o.qty)>> \in Seq(MdEvents)
    BY <1>6
  <1> QED
    BY <1>1, <1>5, <1>7, IdleOK DEF Emit, BookRejects

(* feed_execute, and so the Execute of a subscriber. *)
LEMMA FeedExecuteActionOK ==
  ASSUME TypeOK, RepOK, NEW id \in OrderIds, NEW qty \in Quantities, FeedExecute(id, qty)
  PROVE  TypeOK' /\ RepOK'
  <1> DEFINE i == book.index[id]
             done == ExecutedQty(book, i, qty)
  <1>1. /\ Contains(book, id) /\ qty # 0 /\ taker' = NoTaker
        /\ book' = FeedExecuteNode(book, i, qty)
        /\ out' = Emit(<<MdEvent("Execute", book.nodes[i], done)>>)
    BY DEF FeedExecute, FeedExecuteOk
  <1>2. book \in Books /\ BookInv(book) /\ qty \in Nat
    BY InputAssumption DEF TypeOK, RepOK
  <1>3. i \in Active(book)
    BY <1>1, <1>2 DEF BookInv, IndexOK
  <1>4. done \in Nat
    <2>1. book.nodes[i].qty \in Nat
      BY <1>2, <1>3, BookFields, QtyAssumption DEF Active, Nodes, Qty
    <2> QED
      BY <1>2, <2>1 DEF ExecutedQty, MinOf
  <1> HIDE DEF i, done
  <1>5. book' \in Books /\ BookInv(book')
    BY <1>1, <1>2, <1>3, FeedExecuteNodeOK
  <1>6. MdEvent("Execute", book.nodes[i], done) \in MdEvents
    BY <1>2, <1>3, <1>4, EventType
  <1>7. <<MdEvent("Execute", book.nodes[i], done)>> \in Seq(MdEvents)
    BY <1>6
  <1> QED
    BY <1>1, <1>5, <1>7, IdleOK DEF Emit, BookRejects

(* cancel_order on an order that rests. *)
LEMMA CancelOrderOK ==
  ASSUME TypeOK, RepOK, NEW id \in OrderIds, CancelOrder(id)
  PROVE  TypeOK' /\ RepOK'
  <1>1. /\ Contains(book, id) /\ taker' = NoTaker /\ book' = Cancelled(book, id)
        /\ out' = [md |-> <<CancelEvent(book, id)>>, reject |-> "None"]
    BY DEF CancelOrder, Emit
  <1>2. book \in Books /\ BookInv(book)
    BY DEF TypeOK, RepOK
  <1>3. /\ Cancelled(book, id) \in Books /\ BookInv(Cancelled(book, id))
        /\ <<CancelEvent(book, id)>> \in Seq(MdEvents)
    BY <1>1, <1>2, CancelledOK
  <1>4. book' \in Books /\ BookInv(book')
    BY <1>1, <1>3
  <1> QED
    BY <1>1, <1>3, <1>4, IdleOK DEF BookRejects

(* The initial book is in order. *)
LEMMA InitOK == Init => TypeOK /\ RepOK
  <1> SUFFICES ASSUME Init PROVE TypeOK /\ RepOK
    OBVIOUS
  <1>1. book = EmptyBook /\ taker = NoTaker /\ out = [md |-> <<>>, reject |-> "None"]
    BY DEF Init, Emit
  <1> QED
    BY <1>1, EmptyBookOK DEF TypeOK, RepOK, TakerNotResting, BookRejects

(* Every call of an exchange keeps the book in order. *)
LEMMA NextOK ==
  ASSUME TypeOK, RepOK, [Next]_vars
  PROVE  TypeOK' /\ RepOK'
  <1>1. CASE UNCHANGED vars
    BY <1>1 DEF vars, TypeOK, RepOK, TakerNotResting
  <1>2. ASSUME NEW o \in Orders, AddOrder(o)
        PROVE  TypeOK' /\ RepOK'
    <2>1. EnterAdd(book, <<>>, o) /\ book \in Books /\ BookInv(book)
      BY <1>2 DEF AddOrder, TypeOK, RepOK
    <2>2. <<>> \in Seq(MdEvents)
      OBVIOUS
    <2> QED
      BY <2>1, <2>2, EnterAddOK
  <1>3. CASE Match
    BY <1>3, MatchOK
  <1>4. CASE Rest
    BY <1>4, RestOK
  <1>5. CASE Finish
    BY <1>5, SameBookOK DEF Finish, Emit, BookRejects
  <1>6. ASSUME NEW id \in OrderIds, CancelOrder(id)
        PROVE  TypeOK' /\ RepOK'
    BY <1>6, CancelOrderOK
  <1>7. ASSUME NEW id \in OrderIds, CancelUnknown(id)
        PROVE  TypeOK' /\ RepOK'
    BY <1>7, SameBookOK DEF CancelUnknown, Refuse, BookRejects
  <1>8. ASSUME NEW old \in OrderIds, NEW o \in Orders, ReplaceOrder(old, o)
        PROVE  TypeOK' /\ RepOK'
    <2>1. /\ Contains(book, old) /\ book \in Books /\ BookInv(book)
          /\ EnterAdd(Cancelled(book, old), <<CancelEvent(book, old)>>, o)
      BY <1>8 DEF ReplaceOrder, TypeOK, RepOK
    <2>2. /\ Cancelled(book, old) \in Books /\ BookInv(Cancelled(book, old))
          /\ <<CancelEvent(book, old)>> \in Seq(MdEvents)
      BY <2>1, CancelledOK
    <2> QED
      BY <2>1, <2>2, EnterAddOK
  <1>9. ASSUME NEW old \in OrderIds, NEW o \in Orders, ReplaceRefused(old, o)
        PROVE  TypeOK' /\ RepOK'
    BY <1>9, SameBookOK DEF ReplaceRefused, Refuse, BookRejects
  <1> QED
    BY <1>1, <1>2, <1>3, <1>4, <1>5, <1>6, <1>7, <1>8, <1>9 DEF Next

(* Every call of a subscriber keeps the book in order. *)
LEMMA FeedNextOK ==
  ASSUME TypeOK, RepOK, [FeedNext]_vars
  PROVE  TypeOK' /\ RepOK'
  <1>1. CASE UNCHANGED vars
    BY <1>1 DEF vars, TypeOK, RepOK, TakerNotResting
  <1> QED
    BY <1>1, FeedAddActionOK, FeedExecuteActionOK, CancelOrderOK DEF FeedNext

-----------------------------------------------------------------------------
(* The theorems. *)

(***************************************************************************)
(* The fields of OrderBook keep their widths and ranges through any calls  *)
(* of add_order, cancel_order and replace_order.                           *)
(***************************************************************************)
THEOREM TypeCorrect == Spec => []TypeOK
  <1>1. TypeOK /\ RepOK /\ [Next]_vars => (TypeOK /\ RepOK)'
    BY NextOK
  <1> QED
    BY <1>1, InitOK, PTL DEF Spec

(***************************************************************************)
(* Pool, index, lists, bitmap and cached best levels agree after any calls *)
(* of add_order, cancel_order and replace_order and within their loop: the *)
(* inductive invariant is RepOK with the types.                            *)
(***************************************************************************)
THEOREM RepresentationCorrect == Spec => []RepOK
  <1>1. TypeOK /\ RepOK /\ [Next]_vars => (TypeOK /\ RepOK)'
    BY NextOK
  <1> QED
    BY <1>1, InitOK, PTL DEF Spec

(***************************************************************************)
(* The same of a book that takes feed_add, feed_execute and cancel_order,  *)
(* as a subscriber's does.                                                 *)
(***************************************************************************)
THEOREM FeedRepresentationCorrect == FeedSpec => []RepOK
  <1>1. TypeOK /\ RepOK /\ [FeedNext]_vars => (TypeOK /\ RepOK)'
    BY FeedNextOK
  <1> QED
    BY <1>1, InitOK, PTL DEF FeedSpec

-----------------------------------------------------------------------------
(* The book never locks or crosses. *)

(* Every level of bids is below every level of asks. *)
LevelsApart(b) == \A l \in b.occupied["Buy"], m \in b.occupied["Sell"] : l < m

(* Calls that only take orders out keep the sides apart. *)
LEMMA ShrinkApart ==
  ASSUME NEW b, NEW c, LevelsApart(b),
         \A t \in Sides : c.occupied[t] \subseteq b.occupied[t]
  PROVE  LevelsApart(c)
  BY DEF LevelsApart, Sides

(* The cached best levels decide it. *)
LEMMA ApartUncrossed ==
  ASSUME book \in Books, BestOK(book), LevelsApart(book)
  PROVE  Uncrossed
  BY DEF BestOK, LevelsApart, Uncrossed, Sides

(* A remainder rests only where it does not cross. *)
LEMMA RestApart ==
  ASSUME TypeOK, RepOK, LevelsApart(book), Rest
  PROVE  LevelsApart(book')
  <1> DEFINE t == taker.side
             l == PriceToIndex(taker.price)
  <1>1. /\ taker # NoTaker /\ taker.qty > 0 /\ book' = RestOrder(book, taker)
        /\ ~ Crosses(book, taker.side, taker.price)
    BY DEF Rest, Matching
  <1>2. /\ taker.order_id \in OrderIds /\ taker.account_id \in Accounts
        /\ taker.side \in Sides /\ taker.price \in Band
        /\ taker.qty \in Nat /\ taker.qty < QtyModulus
    BY <1>1, TakerFacts
  <1>3. Restable(taker)
    BY <1>1, <1>2, QtyAssumption DEF Restable, Qty
  <1>4. /\ book \in Books /\ BookInv(book) /\ BestOK(book)
        /\ ~ Contains(book, taker.order_id)
    BY <1>1 DEF TypeOK, RepOK, TakerNotResting, BookInv
  <1>5. \A u \in Sides : book'.occupied[u] \subseteq
          book.occupied[u] \cup (IF u = t THEN {l} ELSE {})
    BY <1>1, <1>3, <1>4, RestOrderOK
  <1>6. l \in Int /\ \A u \in Sides : book.occupied[u] \subseteq Nat /\ book.best[u] \in Int
    <2>1. l \in Int
      BY <1>2, LadderAssumption DEF PriceToIndex, Band
    <2>2. \A u \in Sides : book.occupied[u] \subseteq Levels
                          /\ book.best[u] \in Levels \cup {NoLevel}
      BY <1>4, BookFields
    <2>3. Levels \subseteq Nat /\ NoLevel \in Int
      BY LevelsNat DEF NoLevel
    <2>4. \A u \in Sides : book.occupied[u] \subseteq Nat
      BY <2>2, <2>3, Zenon
    <2>5. \A u \in Sides : book.best[u] \in Int
      <3>1. \A x \in Levels \cup {NoLevel} : x \in Int
        BY <2>3
      <3> QED
        BY <2>2, <3>1, Zenon
    <2> QED
      BY <2>1, <2>4, <2>5
  <1>7. CASE t = "Buy"
    <2>1. book.best["Sell"] = NoLevel \/ l < book.best["Sell"]
      BY <1>1, <1>2, <1>6, <1>7, LadderAssumption
      DEF Crosses, Opposite, Sides, PriceToIndex, IndexToPrice, Band
    <2>2. \A m \in book.occupied["Sell"] : l < m
      BY <1>4, <1>6, <2>1 DEF BestOK, Better, Sides
    <2>3. /\ book'.occupied["Buy"] \subseteq book.occupied["Buy"] \cup {l}
          /\ book'.occupied["Sell"] \subseteq book.occupied["Sell"]
      BY <1>5, <1>7 DEF Sides
    <2> QED
      BY <2>2, <2>3 DEF LevelsApart
  <1>8. CASE t = "Sell"
    <2>1. book.best["Buy"] = NoLevel \/ book.best["Buy"] < l
      BY <1>1, <1>2, <1>6, <1>8, LadderAssumption
      DEF Crosses, Opposite, Sides, PriceToIndex, IndexToPrice, Band
    <2>2. \A m \in book.occupied["Buy"] : m < l
      BY <1>4, <1>6, <2>1 DEF BestOK, Better, Sides
    <2>3. /\ book'.occupied["Sell"] \subseteq book.occupied["Sell"] \cup {l}
          /\ book'.occupied["Buy"] \subseteq book.occupied["Buy"]
      BY <1>5, <1>8 DEF Sides
    <2> QED
      BY <2>2, <2>3 DEF LevelsApart
  <1> QED
    BY <1>2, <1>7, <1>8 DEF Sides

(* One iteration of the loop only takes orders out. *)
LEMMA MatchApart ==
  ASSUME TypeOK, RepOK, LevelsApart(book), Match
  PROVE  LevelsApart(book')
  <1> DEFINE s == Opposite(taker.side)
             i == BestHead(book, s)
  <1>1. /\ taker # NoTaker /\ book \in Books /\ BookInv(book)
        /\ book' = ExecuteHead(book, i, taker.qty)
    BY DEF Match, TypeOK, RepOK
  <1>2. taker.side \in Sides /\ taker.qty \in Nat
    BY <1>1, TakerFacts
  <1>3. s \in Sides /\ book.best[s] # NoLevel
    BY <1>2 DEF Match, Matching, Crosses, Opposite, Sides
  <1>4. i \in Active(book)
    BY <1>1, <1>3, BestHeadActive DEF BookInv
  <1> HIDE DEF i, s
  <1>5. \A t \in Sides : book'.occupied[t] \subseteq book.occupied[t]
    BY <1>1, <1>2, <1>4, ExecuteHeadOK
  <1> QED
    BY <1>5, ShrinkApart

(* Every call of an exchange keeps the sides apart. *)
LEMMA NextApart ==
  ASSUME TypeOK, RepOK, LevelsApart(book), [Next]_vars
  PROVE  LevelsApart(book')
  <1>1. CASE book' = book
    BY <1>1
  <1>2. ASSUME NEW id \in OrderIds, Contains(book, id), book' = Cancelled(book, id)
        PROVE  LevelsApart(book')
    <2>1. book \in Books /\ BookInv(book)
      BY DEF TypeOK, RepOK
    <2>2. \A t \in Sides : book'.occupied[t] \subseteq book.occupied[t]
      BY <1>2, <2>1, CancelledOK
    <2> QED
      BY <2>2, ShrinkApart
  <1>3. ASSUME NEW id \in OrderIds, CancelOrder(id)
        PROVE  LevelsApart(book')
    BY <1>2, <1>3 DEF CancelOrder
  <1>4. ASSUME NEW old \in OrderIds, NEW o \in Orders, ReplaceOrder(old, o)
        PROVE  LevelsApart(book')
    BY <1>2, <1>4 DEF ReplaceOrder, EnterAdd
  <1>5. ASSUME NEW o \in Orders, AddOrder(o)
        PROVE  book' = book
    BY <1>5 DEF AddOrder, EnterAdd
  <1>6. ASSUME NEW old \in OrderIds, NEW o \in Orders, ReplaceRefused(old, o)
        PROVE  book' = book
    BY <1>6 DEF ReplaceRefused
  <1>7. ASSUME NEW id \in OrderIds, CancelUnknown(id)
        PROVE  book' = book
    BY <1>7 DEF CancelUnknown
  <1>8. Finish => book' = book
    BY DEF Finish
  <1>9. UNCHANGED vars => book' = book
    BY DEF vars
  <1> QED
    BY <1>1, <1>3, <1>4, <1>5, <1>6, <1>7, <1>8, <1>9, MatchApart, RestApart DEF Next

(***************************************************************************)
(* The best bid is below the best ask after any calls of an exchange and   *)
(* between the iterations of a loop: all bids are below all asks, which    *)
(* removing orders keeps and the loop's condition makes true of a          *)
(* remainder.                                                              *)
(***************************************************************************)
THEOREM NeverCrossed == Spec => []Uncrossed
  <1> DEFINE Inv == TypeOK /\ RepOK /\ LevelsApart(book)
  <1>1. Init => Inv
    <2>1. Init => LevelsApart(book)
      BY DEF Init, LevelsApart, EmptyBook, Sides
    <2> QED
      BY <2>1, InitOK
  <1>2. Inv /\ [Next]_vars => Inv'
    BY NextOK, NextApart
  <1>3. Inv => Uncrossed
    BY ApartUncrossed DEF TypeOK, RepOK, BookInv
  <1> QED
    BY <1>1, <1>2, <1>3, PTL DEF Spec
=============================================================================
