------------------------------ MODULE CallProofs ------------------------------
(***************************************************************************)
(* What the calls of a book do to the ids and the orders that rest in it,  *)
(* for every ladder, set of ids, accounts and quantities: the lemmas the   *)
(* proofs about the exchange rest on.                                      *)
(***************************************************************************)
EXTENDS BookCalls, TLAPS, FiniteSetTheorems, SequenceTheorems, WellFoundedInduction

(* A non-empty set of numbers has a least. *)
LEMMA LeastNumber ==
  ASSUME NEW S \in SUBSET Nat, S # {}
  PROVE  \E i \in S : \A j \in S : i <= j
  <1> DEFINE R == OpToRel(<, Nat)
  <1>1. \E i \in S : \A j \in S : ~ (<<j, i>> \in R)
    BY NatLessThanWellFounded, WFMin, Zenon
  <1>2. ASSUME NEW i \in S, NEW j \in S, ~ (<<j, i>> \in R)
        PROVE  i <= j
    BY <1>2 DEF OpToRel
  <1> QED
    BY <1>1, <1>2

-----------------------------------------------------------------------------
(* Books. *)

(* No id rests twice. *)
Unique(q) ==
  \A s, t \in Sides, p, r \in Band :
    \A j \in DOMAIN q[s][p], k \in DOMAIN q[t][r] :
      q[s][p][j].order_id = q[t][r][k].order_id => s = t /\ p = r /\ j = k

GoodBook(q) == q \in QueueBooks /\ Unique(q)

(* id is the k-th in the line of s and p. *)
IsAt(q, id, s, p, k) ==
  /\ s \in Sides /\ p \in Band /\ k \in DOMAIN q[s][p]
  /\ q[s][p][k].order_id = id

(* An order that may join. *)
MayJoin(o) ==
  /\ o.order_id \in OrderIds /\ o.account_id \in Accounts /\ o.side \in Sides
  /\ o.price \in Band /\ o.qty \in Nat \ {0}

(* All that rests in q rested in q0, at its place and with at least as much *)
(* to fill.                                                                 *)
StemsFrom(q, q0) ==
  \A s \in Sides, p \in Band : \A k \in DOMAIN q[s][p] :
    \E j \in DOMAIN q0[s][p] :
      /\ q[s][p][k].order_id = q0[s][p][j].order_id
      /\ q[s][p][k].account_id = q0[s][p][j].account_id
      /\ q[s][p][k].qty <= q0[s][p][j].qty

(* The lines of a book. *)
LEMMA LineType ==
  ASSUME NEW q \in QueueBooks, NEW s \in Sides, NEW p \in Band
  PROVE  /\ q[s][p] \in Seq(Resting)
         /\ Len(q[s][p]) \in Nat
         /\ DOMAIN q[s][p] = 1 .. Len(q[s][p])
         /\ \A k \in DOMAIN q[s][p] :
              /\ q[s][p][k] \in Resting
              /\ q[s][p][k].order_id \in OrderIds
              /\ q[s][p][k].account_id \in Accounts
              /\ q[s][p][k].qty \in Nat \ {0}
  <1>1. q[s][p] \in Seq(Resting)
    BY DEF QueueBooks
  <1>2. \A k \in DOMAIN q[s][p] : q[s][p][k] \in Resting
    BY <1>1
  <1> QED
    BY <1>1, <1>2 DEF Resting

(* Two books with the same lines are the same book. *)
LEMMA BookOfLines ==
  ASSUME NEW q,
         q = [s \in Sides |-> [p \in Band |-> q[s][p]]],
         \A s \in Sides, p \in Band : q[s][p] \in Seq(Resting)
  PROVE  q \in QueueBooks
  BY DEF QueueBooks

LEMMA EmptyGood == GoodBook(EmptyQueues) /\ LiveIds(EmptyQueues) = {}
  <1>1. EmptyQueues \in QueueBooks
    BY DEF EmptyQueues, QueueBooks
  <1>2. \A s \in Sides, p \in Band : EmptyQueues[s][p] = <<>>
    BY DEF EmptyQueues
  <1>3. \A s \in Sides, p \in Band : DOMAIN EmptyQueues[s][p] = {}
    BY <1>2
  <1> QED
    BY <1>1, <1>3 DEF GoodBook, Unique, LiveIds, RestsAt

(* An id that rests is somewhere. *)
LEMMA LiveIsAt ==
  ASSUME NEW q, q \in QueueBooks, NEW id
  PROVE  id \in LiveIds(q) <=> \E s, p, k : IsAt(q, id, s, p, k)
  <1>1. ASSUME id \in LiveIds(q) PROVE \E s, p, k : IsAt(q, id, s, p, k)
    BY <1>1 DEF LiveIds, RestsAt, IsAt
  <1>2. ASSUME NEW s, NEW p, NEW k, IsAt(q, id, s, p, k) PROVE id \in LiveIds(q)
    <2>1. id \in OrderIds
      BY <1>2, LineType DEF IsAt
    <2> QED
      BY <1>2, <2>1 DEF LiveIds, RestsAt, IsAt
  <1> QED
    BY <1>1, <1>2

(* The place found for an id is where it is. *)
LEMMA PlaceFound ==
  ASSUME NEW q, GoodBook(q), NEW id, NEW s, NEW p, NEW k, IsAt(q, id, s, p, k)
  PROVE  /\ id \in LiveIds(q)
         /\ PlaceOf(q, id, s, p) = k
         /\ OrderOf(q, id) = RestingAs(q[s][p][k], s, p)
         /\ \A t \in Sides, r \in Band : RestsAt(q, id, t, r) <=> t = s /\ r = p
  <1>1. id \in LiveIds(q)
    BY LiveIsAt DEF GoodBook
  <1>2. \A t \in Sides, r \in Band : RestsAt(q, id, t, r) <=> t = s /\ r = p
    BY DEF RestsAt, IsAt, GoodBook, Unique
  <1>3. \A j \in DOMAIN q[s][p] : q[s][p][j].order_id = id => j = k
    BY DEF IsAt, GoodBook, Unique
  <1>4. PlaceOf(q, id, s, p) = k
    BY <1>3 DEF PlaceOf, IsAt
  <1>5. (CHOOSE t \in Sides : \E r \in Band : RestsAt(q, id, t, r)) = s
    BY <1>2 DEF IsAt
  <1>6. (CHOOSE r \in Band : RestsAt(q, id, s, r)) = p
    BY <1>2 DEF IsAt
  <1>7. OrderOf(q, id) = RestingAs(q[s][p][k], s, p)
    BY <1>4, <1>5, <1>6 DEF OrderOf
  <1> QED
    BY <1>1, <1>2, <1>4, <1>7

(* What stems from what stems from q0 stems from q0. *)
LEMMA StemsFurther ==
  ASSUME NEW q, NEW q1, NEW q0, q \in QueueBooks, q1 \in QueueBooks, q0 \in QueueBooks,
         StemsFrom(q, q1), StemsFrom(q1, q0)
  PROVE  StemsFrom(q, q0)
  <1> SUFFICES ASSUME NEW s \in Sides, NEW p \in Band, NEW k \in DOMAIN q[s][p]
               PROVE  \E j \in DOMAIN q0[s][p] :
                        /\ q[s][p][k].order_id = q0[s][p][j].order_id
                        /\ q[s][p][k].account_id = q0[s][p][j].account_id
                        /\ q[s][p][k].qty <= q0[s][p][j].qty
    BY DEF StemsFrom
  <1>1. PICK i \in DOMAIN q1[s][p] :
          /\ q[s][p][k].order_id = q1[s][p][i].order_id
          /\ q[s][p][k].account_id = q1[s][p][i].account_id
          /\ q[s][p][k].qty <= q1[s][p][i].qty
    BY DEF StemsFrom
  <1>2. PICK j \in DOMAIN q0[s][p] :
          /\ q1[s][p][i].order_id = q0[s][p][j].order_id
          /\ q1[s][p][i].account_id = q0[s][p][j].account_id
          /\ q1[s][p][i].qty <= q0[s][p][j].qty
    BY DEF StemsFrom
  <1>3. /\ q[s][p][k].qty \in Nat /\ q1[s][p][i].qty \in Nat /\ q0[s][p][j].qty \in Nat
    BY LineType
  <1> QED
    BY <1>1, <1>2, <1>3

LEMMA StemsFromItself == ASSUME NEW q, q \in QueueBooks PROVE StemsFrom(q, q)
  <1>1. \A s \in Sides, p \in Band : \A k \in DOMAIN q[s][p] : q[s][p][k].qty \in Nat
    BY LineType
  <1> QED
    BY <1>1 DEF StemsFrom

(* Nothing new lives in a book that stems from another. *)
LEMMA StemsLive ==
  ASSUME NEW q, NEW q0, q \in QueueBooks, q0 \in QueueBooks, StemsFrom(q, q0)
  PROVE  LiveIds(q) \subseteq LiveIds(q0)
  BY DEF StemsFrom, LiveIds, RestsAt

-----------------------------------------------------------------------------
(* Orders that join, leave and are reduced. *)

(* The orders of q other than id rest in c, at the same price. *)
Carries(q, c, id) ==
  \A s \in Sides, p \in Band : \A k \in DOMAIN q[s][p] :
    q[s][p][k].order_id # id => \E j \in DOMAIN c[s][p] : c[s][p][j] = q[s][p][k]

(* What Joined appends. *)
EntryOf(o) == [order_id |-> o.order_id, account_id |-> o.account_id, qty |-> o.qty]

LEMMA JoinedLines ==
  ASSUME NEW q \in QueueBooks, NEW o, MayJoin(o), NEW c, c = Joined(q, o)
  PROVE  /\ c \in QueueBooks
         /\ \A s \in Sides, p \in Band :
              c[s][p] = IF s = o.side /\ p = o.price THEN Append(q[s][p], EntryOf(o))
                                                     ELSE q[s][p]
  <1>1. EntryOf(o) \in Resting
    BY DEF MayJoin, EntryOf, Resting
  <1>2. o.side \in Sides /\ o.price \in Band
    BY DEF MayJoin
  <1>3. PICK line : line = Append(q[o.side][o.price], EntryOf(o))
    OBVIOUS
  <1>4. line \in Seq(Resting)
    BY <1>1, <1>2, <1>3, LineType
  <1>5. c = [q EXCEPT ![o.side][o.price] = line]
    BY <1>3 DEF Joined, EntryOf
  <1>6. c \in QueueBooks
    BY <1>2, <1>4, <1>5 DEF QueueBooks
  <1>7. \A s \in Sides, p \in Band :
          c[s][p] = IF s = o.side /\ p = o.price THEN line ELSE q[s][p]
    BY <1>2, <1>5 DEF QueueBooks
  <1> QED
    BY <1>3, <1>6, <1>7

(* Joining with a new id keeps ids apart and adds that id. *)
LEMMA JoinedGood ==
  ASSUME NEW q, GoodBook(q), NEW o, MayJoin(o), o.order_id \notin LiveIds(q),
         NEW c, c = Joined(q, o)
  PROVE  /\ GoodBook(c)
         /\ LiveIds(c) = LiveIds(q) \cup {o.order_id}
         /\ \A s \in Sides, p \in Band : \A k \in DOMAIN c[s][p] :
              \/ k \in DOMAIN q[s][p] /\ c[s][p][k] = q[s][p][k]
              \/ s = o.side /\ p = o.price /\ c[s][p][k] = EntryOf(o)
         /\ OrderOf(c, o.order_id) = RestingAs(o, o.side, o.price)
         /\ Carries(q, c, o.order_id) /\ Carries(c, q, o.order_id)
  <1>1. q \in QueueBooks
    BY DEF GoodBook
  <1>2. /\ c \in QueueBooks
        /\ \A s \in Sides, p \in Band :
             c[s][p] = IF s = o.side /\ p = o.price THEN Append(q[s][p], EntryOf(o))
                                                    ELSE q[s][p]
    BY <1>1, JoinedLines
  <1>3. o.side \in Sides /\ o.price \in Band /\ EntryOf(o).order_id = o.order_id
        /\ o.order_id \in OrderIds
    BY DEF MayJoin, EntryOf
  <1>4. PICK n : n = Len(q[o.side][o.price])
    OBVIOUS
  <1>5. /\ n \in Nat /\ DOMAIN q[o.side][o.price] = 1 .. n
        /\ DOMAIN c[o.side][o.price] = 1 .. n + 1
        /\ c[o.side][o.price][n + 1] = EntryOf(o)
        /\ \A k \in 1 .. n : c[o.side][o.price][k] = q[o.side][o.price][k]
    <2>1. PICK e : e = EntryOf(o)
      OBVIOUS
    <2>2. c[o.side][o.price] = Append(q[o.side][o.price], e)
      BY <1>2, <1>3, <2>1
    <2>3. q[o.side][o.price] \in Seq(Resting)
      BY <1>1, <1>3, LineType
    <2> QED
      BY <1>4, <2>1, <2>2, <2>3
  <1>6. \A s \in Sides, p \in Band : ~ (s = o.side /\ p = o.price) => c[s][p] = q[s][p]
    BY <1>2
  <1>7. \A s \in Sides, p \in Band : \A k \in DOMAIN c[s][p] :
          \/ k \in DOMAIN q[s][p] /\ c[s][p][k] = q[s][p][k]
          \/ s = o.side /\ p = o.price /\ k = n + 1 /\ c[s][p][k] = EntryOf(o)
    <2> TAKE s \in Sides, p \in Band
    <2>1. CASE s = o.side /\ p = o.price
      <3> TAKE k \in DOMAIN c[s][p]
      <3>1. k \in 1 .. n \/ k = n + 1
        BY <1>5, <2>1
      <3> QED
        BY <1>5, <2>1, <3>1
    <2>2. CASE ~ (s = o.side /\ p = o.price)
      BY <1>6, <2>2
    <2> QED
      BY <2>1, <2>2
  <1>8. \A s \in Sides, p \in Band : \A k \in DOMAIN q[s][p] :
          k \in DOMAIN c[s][p] /\ c[s][p][k] = q[s][p][k]
    BY <1>5, <1>6
  <1>9. \A s \in Sides, p \in Band : \A k \in DOMAIN q[s][p] :
          q[s][p][k].order_id # o.order_id
    BY <1>3 DEF LiveIds, RestsAt
  <1>10. Unique(c)
    <2> SUFFICES ASSUME NEW s \in Sides, NEW t \in Sides, NEW p \in Band, NEW r \in Band,
                        NEW j \in DOMAIN c[s][p], NEW k \in DOMAIN c[t][r],
                        c[s][p][j].order_id = c[t][r][k].order_id
                 PROVE  s = t /\ p = r /\ j = k
      BY DEF Unique
    <2>1. \/ j \in DOMAIN q[s][p] /\ c[s][p][j] = q[s][p][j]
          \/ s = o.side /\ p = o.price /\ j = n + 1 /\ c[s][p][j] = EntryOf(o)
      BY <1>7
    <2>2. \/ k \in DOMAIN q[t][r] /\ c[t][r][k] = q[t][r][k]
          \/ t = o.side /\ r = o.price /\ k = n + 1 /\ c[t][r][k] = EntryOf(o)
      BY <1>7
    <2> QED
      BY <1>3, <1>9, <2>1, <2>2 DEF GoodBook, Unique
  <1>11. ASSUME NEW id PROVE id \in LiveIds(c) <=> id \in LiveIds(q) \cup {o.order_id}
    <2>1. ASSUME NEW s, NEW p, NEW k, IsAt(c, id, s, p, k)
          PROVE  id \in LiveIds(q) \cup {o.order_id}
      BY <1>1, <1>3, <1>7, <2>1, LiveIsAt DEF IsAt
    <2>2. ASSUME NEW s, NEW p, NEW k, IsAt(q, id, s, p, k) PROVE IsAt(c, id, s, p, k)
      BY <1>8, <2>2 DEF IsAt
    <2>3. IsAt(c, o.order_id, o.side, o.price, n + 1)
      BY <1>3, <1>5 DEF IsAt
    <2> QED
      BY <1>1, <1>2, <2>1, <2>2, <2>3, LiveIsAt
  <1>12. OrderOf(c, o.order_id) = RestingAs(o, o.side, o.price)
    <2>1. GoodBook(c)
      BY <1>2, <1>10 DEF GoodBook
    <2>2. IsAt(c, o.order_id, o.side, o.price, n + 1)
      BY <1>3, <1>5 DEF IsAt
    <2>3. OrderOf(c, o.order_id) = RestingAs(c[o.side][o.price][n + 1], o.side, o.price)
      BY <2>1, <2>2, PlaceFound
    <2> QED
      BY <1>5, <2>3 DEF RestingAs, EntryOf
  <1>13. Carries(q, c, o.order_id)
    BY <1>8 DEF Carries
  <1>14. Carries(c, q, o.order_id)
    BY <1>3, <1>7 DEF Carries
  <1> QED
    BY <1>2, <1>7, <1>10, <1>11, <1>12, <1>13, <1>14 DEF GoodBook

(* A line without its k-th. *)
LEMMA LeftOut ==
  ASSUME NEW S, NEW line \in Seq(S), NEW at \in DOMAIN line
  PROVE  /\ LeavingOut(line, at) \in Seq(S)
         /\ Len(LeavingOut(line, at)) = Len(line) - 1
         /\ \A k \in 1 .. Len(line) - 1 :
              LeavingOut(line, at)[k] = IF k < at THEN line[k] ELSE line[k + 1]
  <1>1. PICK n : n = Len(line)
    OBVIOUS
  <1>2. n \in Nat /\ at \in 1 .. n
    BY <1>1
  <1>4. PICK x, y : x = SubSeq(line, 1, at - 1) /\ y = SubSeq(line, at + 1, n)
    OBVIOUS
  <1>5. /\ x \in Seq(S) /\ Len(x) = at - 1
        /\ \A k \in 1 .. at - 1 : x[k] = line[k]
    BY <1>1, <1>2, <1>4, SubSeqProperties
  <1>6. /\ y \in Seq(S) /\ Len(y) = n - at
        /\ \A k \in 1 .. n - at : y[k] = line[at + k]
    BY <1>1, <1>2, <1>4, SubSeqProperties
  <1>7. /\ x \o y \in Seq(S) /\ Len(x \o y) = n - 1
        /\ \A k \in 1 .. n - 1 : (x \o y)[k] = IF k <= at - 1 THEN x[k] ELSE y[k - (at - 1)]
    <2>1. /\ x \o y \in Seq(S)
          /\ Len(x \o y) = Len(x) + Len(y)
          /\ \A k \in 1 .. Len(x) + Len(y) :
               (x \o y)[k] = IF k <= Len(x) THEN x[k] ELSE y[k - Len(x)]
      BY <1>5, <1>6, ConcatProperties
    <2>2. Len(x) = at - 1 /\ Len(x) + Len(y) = n - 1
      BY <1>2, <1>5, <1>6
    <2> QED
      BY <2>1, <2>2
  <1>8. ASSUME NEW k \in 1 .. n - 1
        PROVE  (x \o y)[k] = IF k < at THEN line[k] ELSE line[k + 1]
    <2>1. CASE k < at
      BY <1>2, <1>5, <1>7, <2>1
    <2>2. CASE ~ (k < at)
      <3>1. k - (at - 1) \in 1 .. n - at /\ at + (k - (at - 1)) = k + 1
        BY <1>2, <2>2
      <3>2. ~ (k <= at - 1)
        BY <1>2, <2>2
      <3>3. (x \o y)[k] = y[k - (at - 1)]
        BY <1>7, <3>2
      <3>4. y[k - (at - 1)] = line[k + 1]
        BY <1>6, <3>1
      <3> QED
        BY <2>2, <3>3, <3>4
    <2> QED
      BY <2>1, <2>2
  <1>9. LeavingOut(line, at) = x \o y
    BY <1>1, <1>4 DEF LeavingOut
  <1> QED
    BY <1>1, <1>7, <1>8, <1>9

(* Leaving keeps the others, in their order, and no one with that id. *)
LEMMA WithoutGood ==
  ASSUME NEW q, GoodBook(q), NEW id \in LiveIds(q), NEW c, c = Without(q, id)
  PROVE  /\ GoodBook(c) /\ LiveIds(c) = LiveIds(q) \ {id} /\ StemsFrom(c, q)
         /\ Carries(q, c, id) /\ Carries(c, q, id)
  <1>1. q \in QueueBooks
    BY DEF GoodBook
  <1>2. PICK s0, p0, k0 : IsAt(q, id, s0, p0, k0)
    BY <1>1, LiveIsAt
  <1>3. s0 \in Sides /\ p0 \in Band /\ k0 \in DOMAIN q[s0][p0]
    BY <1>2 DEF IsAt
  <1>4. PICK line, n : line = LeavingOut(q[s0][p0], k0) /\ n = Len(q[s0][p0])
    OBVIOUS
  <1>5. /\ n \in Nat /\ DOMAIN q[s0][p0] = 1 .. n /\ k0 \in 1 .. n
        /\ line \in Seq(Resting) /\ DOMAIN line = 1 .. n - 1
        /\ \A k \in 1 .. n - 1 : line[k] = IF k < k0 THEN q[s0][p0][k] ELSE q[s0][p0][k + 1]
    <2>1. PICK was : was = q[s0][p0]
      OBVIOUS
    <2>2. was \in Seq(Resting) /\ k0 \in DOMAIN was /\ line = LeavingOut(was, k0)
          /\ n = Len(was)
      BY <1>1, <1>3, <1>4, <2>1, LineType
    <2>a. /\ line \in Seq(Resting) /\ Len(line) = Len(was) - 1
          /\ \A k \in 1 .. Len(was) - 1 :
               line[k] = IF k < k0 THEN was[k] ELSE was[k + 1]
      <3>1. PICK out : out = LeavingOut(was, k0)
        OBVIOUS
      <3>2. /\ out \in Seq(Resting) /\ Len(out) = Len(was) - 1
            /\ \A k \in 1 .. Len(was) - 1 :
                 out[k] = IF k < k0 THEN was[k] ELSE was[k + 1]
        BY <2>2, <3>1, LeftOut, Zenon
      <3> QED
        BY <2>2, <3>1, <3>2
    <2>3. /\ line \in Seq(Resting) /\ Len(line) = n - 1 /\ n \in Nat
          /\ \A k \in 1 .. n - 1 : line[k] = IF k < k0 THEN was[k] ELSE was[k + 1]
      BY <2>2, <2>a
    <2>4. DOMAIN was = 1 .. n /\ k0 \in 1 .. n
      BY <2>2
    <2>5. DOMAIN line = 1 .. n - 1
      BY <2>3, <2>4
    <2> QED
      BY <2>1, <2>3, <2>4, <2>5
  <1>6. /\ c = [s \in Sides |-> [p \in Band |-> c[s][p]]]
        /\ \A s \in Sides, p \in Band :
             c[s][p] = IF s = s0 /\ p = p0 THEN line ELSE q[s][p]
    <2>1. PlaceOf(q, id, s0, p0) = k0
      BY <1>2, PlaceFound
    <2>2. \A s \in Sides, p \in Band : RestsAt(q, id, s, p) <=> s = s0 /\ p = p0
      BY <1>2, PlaceFound
    <2> QED
      BY <1>4, <2>1, <2>2 DEF Without
  <1>7. c \in QueueBooks
    <2>1. \A s \in Sides, p \in Band : c[s][p] \in Seq(Resting)
      BY <1>1, <1>5, <1>6, LineType
    <2> QED
      BY <1>6, <2>1, BookOfLines
  (* Where the k-th of a line was before. *)
  <1> DEFINE Was(s, p, k) == IF s = s0 /\ p = p0 /\ k >= k0 THEN k + 1 ELSE k
  <1>8. \A s \in Sides, p \in Band : \A k \in DOMAIN c[s][p] :
          /\ k \in Nat /\ Was(s, p, k) \in DOMAIN q[s][p]
          /\ c[s][p][k] = q[s][p][Was(s, p, k)]
          /\ ~ (s = s0 /\ p = p0 /\ Was(s, p, k) = k0)
    <2> TAKE s \in Sides, p \in Band
    <2>1. CASE s = s0 /\ p = p0
      <3> TAKE k \in DOMAIN c[s][p]
      <3>1. c[s][p] = line /\ k \in 1 .. n - 1 /\ k \in Nat /\ k0 \in Nat
        BY <1>5, <1>6, <2>1
      <3>2. Was(s, p, k) = IF k >= k0 THEN k + 1 ELSE k
        BY <2>1
      <3>3. Was(s, p, k) \in 1 .. n /\ Was(s, p, k) # k0
        BY <1>5, <3>1, <3>2
      <3>4. line[k] = q[s][p][Was(s, p, k)]
        BY <1>5, <2>1, <3>1, <3>2
      <3> QED
        BY <1>5, <2>1, <3>1, <3>3, <3>4
    <2>2. CASE ~ (s = s0 /\ p = p0)
      <3>1. c[s][p] = q[s][p] /\ DOMAIN q[s][p] \subseteq Nat
        BY <1>1, <1>6, <2>2, LineType
      <3> QED
        BY <2>2, <3>1
    <2> QED
      BY <2>1, <2>2
  <1>9. \A s \in Sides, p \in Band : \A k \in DOMAIN q[s][p] :
          ~ (s = s0 /\ p = p0 /\ k = k0) =>
             \E j \in DOMAIN c[s][p] : c[s][p][j] = q[s][p][k]
    <2> SUFFICES ASSUME NEW s \in Sides, NEW p \in Band, NEW k \in DOMAIN q[s][p],
                        ~ (s = s0 /\ p = p0 /\ k = k0)
                 PROVE  \E j \in DOMAIN c[s][p] : c[s][p][j] = q[s][p][k]
      OBVIOUS
    <2>1. CASE s = s0 /\ p = p0
      <3>1. k \in 1 .. n /\ k # k0 /\ c[s][p] = line
        BY <1>5, <1>6, <2>1
      <3>2. CASE k < k0
        <4>1. k \in 1 .. n - 1 /\ line[k] = q[s][p][k]
          BY <1>5, <2>1, <3>1, <3>2
        <4> QED
          BY <1>5, <3>1, <4>1
      <3>3. CASE k > k0
        <4>1. k - 1 \in 1 .. n - 1 /\ ~ (k - 1 < k0) /\ (k - 1) + 1 = k
          BY <1>5, <3>1, <3>3
        <4>2. line[k - 1] = q[s][p][k]
          BY <1>5, <2>1, <4>1
        <4> QED
          BY <1>5, <3>1, <4>1, <4>2
      <3> QED
        BY <1>5, <3>1, <3>2, <3>3
    <2>2. CASE ~ (s = s0 /\ p = p0)
      BY <1>6, <2>2
    <2> QED
      BY <2>1, <2>2
  <1>10. Unique(c)
    <2> SUFFICES ASSUME NEW s \in Sides, NEW t \in Sides, NEW p \in Band, NEW r \in Band,
                        NEW j \in DOMAIN c[s][p], NEW k \in DOMAIN c[t][r],
                        c[s][p][j].order_id = c[t][r][k].order_id
                 PROVE  s = t /\ p = r /\ j = k
      BY DEF Unique
    <2>1. s = t /\ p = r /\ Was(s, p, j) = Was(t, r, k)
      <3> HIDE DEF Was
      <3> QED
        BY <1>8 DEF GoodBook, Unique
    <2> QED
      BY <1>5, <1>8, <2>1
  <1>11. \A s \in Sides, p \in Band : \A k \in DOMAIN c[s][p] : c[s][p][k].order_id # id
    <2> HIDE DEF Was
    <2> QED
      BY <1>2, <1>8 DEF GoodBook, Unique, IsAt
  <1>12. StemsFrom(c, q)
    <2> HIDE DEF Was
    <2>1. \A s \in Sides, p \in Band : \A k \in DOMAIN q[s][p] : q[s][p][k].qty \in Nat
      BY <1>1, LineType
    <2>2. \A s \in Sides, p \in Band : \A k \in DOMAIN c[s][p] :
            \E j \in DOMAIN q[s][p] : c[s][p][k] = q[s][p][j]
      BY <1>8
    <2> QED
      BY <2>1, <2>2 DEF StemsFrom
  <1>13. ASSUME NEW x PROVE x \in LiveIds(c) <=> x \in LiveIds(q) \ {id}
    <2>1. ASSUME x \in LiveIds(c) PROVE x \in LiveIds(q) \ {id}
      <3>1. x \in LiveIds(q)
        BY <1>1, <1>7, <1>12, <2>1, StemsLive
      <3> QED
        BY <1>7, <1>11, <2>1, <3>1, LiveIsAt DEF IsAt
    <2>2. ASSUME x \in LiveIds(q), x # id PROVE x \in LiveIds(c)
      <3>1. PICK s, p, k : IsAt(q, x, s, p, k)
        BY <1>1, <2>2, LiveIsAt
      <3>2. ~ (s = s0 /\ p = p0 /\ k = k0)
        BY <1>2, <2>2, <3>1 DEF IsAt
      <3>3. PICK j \in DOMAIN c[s][p] : c[s][p][j] = q[s][p][k]
        BY <1>9, <3>1, <3>2 DEF IsAt
      <3>4. IsAt(c, x, s, p, j)
        BY <3>1, <3>3 DEF IsAt
      <3> QED
        BY <1>7, <3>4, LiveIsAt
    <2> QED
      BY <2>1, <2>2
  <1>14. Carries(q, c, id)
    <2>1. q[s0][p0][k0].order_id = id
      BY <1>2 DEF IsAt
    <2> QED
      BY <1>9, <2>1 DEF Carries
  <1>15. Carries(c, q, id)
    <2> HIDE DEF Was
    <2> QED
      BY <1>8 DEF Carries
  <1> QED
    BY <1>7, <1>10, <1>12, <1>13, <1>14, <1>15 DEF GoodBook

(* An order that is filled in part keeps its place, one that is filled leaves. *)
LEMMA ReducedGood ==
  ASSUME NEW q, GoodBook(q), NEW id \in LiveIds(q), NEW qty \in Nat \ {0},
         NEW c, c = Reduced(q, id, qty)
  PROVE  /\ GoodBook(c) /\ StemsFrom(c, q)
         /\ LiveIds(c) = IF OrderOf(q, id).qty <= qty THEN LiveIds(q) \ {id} ELSE LiveIds(q)
         /\ ~ (OrderOf(q, id).qty <= qty) =>
              OrderOf(c, id) = [OrderOf(q, id) EXCEPT !.qty = @ - qty]
         /\ Carries(q, c, id) /\ Carries(c, q, id)
  <1>1. CASE OrderOf(q, id).qty <= qty
    <2>1. c = Without(q, id)
      BY <1>1 DEF Reduced
    <2> QED
      BY <1>1, <2>1, WithoutGood
  <1>2. CASE ~ (OrderOf(q, id).qty <= qty)
    <2>1. q \in QueueBooks
      BY DEF GoodBook
    <2>2. PICK s0, p0, k0 : IsAt(q, id, s0, p0, k0)
      BY <2>1, LiveIsAt
    <2>3. s0 \in Sides /\ p0 \in Band /\ k0 \in DOMAIN q[s0][p0]
      BY <2>2 DEF IsAt
    <2>4. PICK line : line = q[s0][p0]
      OBVIOUS
    <2>5. /\ line \in Seq(Resting) /\ DOMAIN line = 1 .. Len(line) /\ Len(line) \in Nat
          /\ \A k \in DOMAIN line : line[k] \in Resting /\ line[k].qty \in Nat \ {0}
      BY <2>1, <2>3, <2>4, LineType
    <2>6. PICK o : o = OrderOf(q, id)
      OBVIOUS
    <2>7. o.side = s0 /\ o.price = p0 /\ o.qty = line[k0].qty
      BY <2>2, <2>4, <2>6, PlaceFound DEF RestingAs
    <2> DEFINE Left(r) == [r EXCEPT !.qty = @ - qty]
    <2>8. PICK new : new = [k \in DOMAIN line |->
                              IF line[k].order_id = id THEN Left(line[k]) ELSE line[k]]
      OBVIOUS
    <2>9. c = [q EXCEPT ![s0][p0] = new]
      <3>1. c = [q EXCEPT ![o.side][o.price] =
                   [k \in DOMAIN q[o.side][o.price] |->
                      IF q[o.side][o.price][k].order_id = id
                      THEN [q[o.side][o.price][k] EXCEPT !.qty = @ - qty]
                      ELSE q[o.side][o.price][k]]]
        BY <1>2, <2>6 DEF Reduced
      <3> QED
        BY <2>4, <2>7, <2>8, <3>1
    <2>10. \A k \in DOMAIN line : line[k].order_id = id <=> k = k0
      BY <2>2, <2>3, <2>4 DEF IsAt, GoodBook, Unique
    <2>11. /\ Left(line[k0]) \in Resting
           /\ Left(line[k0]).order_id = line[k0].order_id
           /\ Left(line[k0]).account_id = line[k0].account_id
           /\ Left(line[k0]).qty <= line[k0].qty
      <3>1. /\ line[k0] \in Resting /\ line[k0].qty \in Nat /\ line[k0].qty > qty
        BY <1>2, <2>3, <2>4, <2>5, <2>6, <2>7
      <3> QED
        BY <3>1 DEF Resting
    <2>12. /\ DOMAIN new = DOMAIN line
           /\ new[k0] = Left(line[k0])
           /\ \A k \in DOMAIN line : k # k0 => new[k] = line[k]
      BY <2>3, <2>4, <2>8, <2>10
    <2> HIDE DEF Left
    <2>13. /\ \A k \in DOMAIN line : new[k] \in Resting
           /\ \A k \in DOMAIN line :
                /\ new[k].order_id = line[k].order_id
                /\ new[k].account_id = line[k].account_id
                /\ new[k].qty <= line[k].qty
      <3> SUFFICES ASSUME NEW k \in DOMAIN line
                   PROVE  /\ new[k] \in Resting
                          /\ new[k].order_id = line[k].order_id
                          /\ new[k].account_id = line[k].account_id
                          /\ new[k].qty <= line[k].qty
        OBVIOUS
      <3>1. CASE k = k0
        BY <2>11, <2>12, <3>1
      <3>2. CASE k # k0
        <4>1. line[k] \in Resting /\ line[k].qty \in Nat /\ new[k] = line[k]
          BY <2>5, <2>12, <3>2
        <4> QED
          BY <4>1
      <3> QED
        BY <3>1, <3>2
    <2>14. new \in Seq(Resting)
      <3>1. new = [k \in 1 .. Len(line) |-> new[k]]
        BY <2>5, <2>8
      <3>2. \A k \in 1 .. Len(line) : new[k] \in Resting
        BY <2>5, <2>13
      <3>3. new \in [1 .. Len(line) -> Resting]
        BY <3>1, <3>2, Zenon
      <3> QED
        BY <2>5, <3>3
    <2>15. /\ c \in QueueBooks
           /\ \A s \in Sides, p \in Band :
                c[s][p] = IF s = s0 /\ p = p0 THEN new ELSE q[s][p]
      BY <2>1, <2>3, <2>9, <2>14 DEF QueueBooks
    <2>16. \A s \in Sides, p \in Band :
             /\ DOMAIN c[s][p] = DOMAIN q[s][p]
             /\ \A k \in DOMAIN q[s][p] :
                  /\ c[s][p][k].order_id = q[s][p][k].order_id
                  /\ c[s][p][k].account_id = q[s][p][k].account_id
                  /\ c[s][p][k].qty <= q[s][p][k].qty
      <3> TAKE s \in Sides, p \in Band
      <3>1. CASE s = s0 /\ p = p0
        BY <2>4, <2>12, <2>13, <2>15, <3>1
      <3>2. CASE ~ (s = s0 /\ p = p0)
        <4>1. c[s][p] = q[s][p] /\ \A k \in DOMAIN q[s][p] : q[s][p][k].qty \in Nat
          BY <2>1, <2>15, <3>2, LineType
        <4> QED
          BY <4>1
      <3> QED
        BY <3>1, <3>2
    <2>17. Unique(c)
      BY <2>16 DEF GoodBook, Unique
    <2>18. StemsFrom(c, q)
      BY <2>16 DEF StemsFrom
    <2>19. LiveIds(c) = LiveIds(q)
      BY <2>16 DEF LiveIds, RestsAt
    <2>20. OrderOf(c, id) = [o EXCEPT !.qty = @ - qty]
      <3>1. GoodBook(c) /\ c[s0][p0] = new
        BY <2>3, <2>15, <2>17 DEF GoodBook
      <3>2. IsAt(c, id, s0, p0, k0)
        BY <2>2, <2>3, <2>16 DEF IsAt
      <3>3. OrderOf(c, id) = RestingAs(new[k0], s0, p0)
        BY <3>1, <3>2, PlaceFound
      <3>4. o = RestingAs(line[k0], s0, p0)
        BY <2>2, <2>4, <2>6, PlaceFound
      <3>5. PICK was, is : was = line[k0] /\ is = new[k0]
        OBVIOUS
      <3>6. was \in Resting /\ is = [was EXCEPT !.qty = @ - qty]
        BY <2>3, <2>4, <2>5, <2>12, <3>5 DEF Left
      <3>7. /\ is.order_id = was.order_id /\ is.account_id = was.account_id
            /\ is.qty = was.qty - qty
        BY <3>6 DEF Resting
      <3>8. o = [order_id |-> was.order_id, account_id |-> was.account_id, side |-> s0,
                 price |-> p0, qty |-> was.qty]
        BY <3>4, <3>5 DEF RestingAs
      <3>9. OrderOf(c, id) = [order_id |-> was.order_id, account_id |-> was.account_id,
                              side |-> s0, price |-> p0, qty |-> was.qty - qty]
        BY <3>3, <3>5, <3>7 DEF RestingAs
      <3> QED
        BY <3>8, <3>9
    <2>21. /\ \A k \in DOMAIN line : line[k].order_id # id => new[k] = line[k]
           /\ \A k \in DOMAIN line : new[k].order_id # id => new[k] = line[k]
      BY <2>10, <2>12, <2>13
    <2>22. Carries(q, c, id)
      BY <2>4, <2>12, <2>15, <2>21 DEF Carries
    <2>23. Carries(c, q, id)
      BY <2>4, <2>12, <2>15, <2>21 DEF Carries
    <2> QED
      BY <1>2, <2>6, <2>15, <2>17, <2>18, <2>19, <2>20, <2>22, <2>23 DEF GoodBook
  <1> QED
    BY <1>1, <1>2

-----------------------------------------------------------------------------
(* The best price and who waits there. *)

LEMMA BestIsOffered ==
  ASSUME NEW q, NEW s \in Sides, Offered(q, s) # {}
  PROVE  BestPrice(q, s) \in Offered(q, s)
  <1>1. PICK offered : offered = Offered(q, s)
    OBVIOUS
  <1>2. offered \subseteq Nat /\ offered # {} /\ \A p \in offered : p <= MaxPrice
    BY <1>1, LadderAssumption DEF Offered, Band
  <1>3. \E p \in offered : \A r \in offered : p <= r
    BY <1>2, LeastNumber
  <1>4. \E p \in offered : \A r \in offered : p >= r
    <2>1. PICK below : below = {n \in Nat : MaxPrice - n \in offered}
      OBVIOUS
    <2>2. PICK p \in offered : TRUE
      BY <1>2
    <2>3. MaxPrice - p \in below
      <3>1. p \in Nat /\ p <= MaxPrice
        BY <1>2
      <3>2. MaxPrice - p \in Nat /\ MaxPrice - (MaxPrice - p) = p
        BY <3>1, LadderAssumption
      <3> QED
        BY <2>1, <3>2
    <2>4. PICK n \in below : \A m \in below : n <= m
      BY <2>1, <2>3, LeastNumber
    <2>5. MaxPrice - n \in offered
      BY <2>1
    <2>6. ASSUME NEW r \in offered PROVE MaxPrice - n >= r
      <3>1. r \in Nat /\ r <= MaxPrice
        BY <1>2
      <3>2. MaxPrice - r \in Nat /\ MaxPrice - (MaxPrice - r) = r
        BY <3>1, LadderAssumption
      <3>3. n <= MaxPrice - r /\ n \in Nat
        BY <2>1, <2>4, <3>2
      <3> QED
        BY <3>1, <3>3, LadderAssumption
    <2> QED
      BY <2>5, <2>6
  <1>5. \E p \in offered : \A r \in offered : IF s = "Buy" THEN p >= r ELSE p <= r
    BY <1>3, <1>4
  <1> QED
    BY <1>1, <1>5 DEF BestPrice

(* The first in line rests, as the book says it does. *)
LEMMA FirstIsLive ==
  ASSUME NEW q, GoodBook(q), NEW s \in Sides, Offered(q, s) # {},
         NEW first, first = FirstInLine(q, s)
  PROVE  /\ first.order_id \in LiveIds(q) /\ first.account_id \in Accounts
         /\ first.side = s /\ first.price \in Band /\ first.qty \in Nat \ {0}
         /\ OrderOf(q, first.order_id) = first
  <1>1. PICK p : p = BestPrice(q, s)
    OBVIOUS
  <1>2. p \in Band /\ q[s][p] # <<>>
    BY <1>1, BestIsOffered DEF Offered
  <1>3. q[s][p] \in Seq(Resting)
    BY <1>2, LineType DEF GoodBook
  <1>4. 1 \in DOMAIN q[s][p] /\ Head(q[s][p]) = q[s][p][1]
    BY <1>2, <1>3
  <1>5. /\ q[s][p][1].order_id \in OrderIds /\ q[s][p][1].account_id \in Accounts
        /\ q[s][p][1].qty \in Nat \ {0}
    BY <1>2, <1>4, LineType DEF GoodBook
  <1>6. first = RestingAs(q[s][p][1], s, p)
    BY <1>1, <1>4 DEF FirstInLine
  <1>7. IsAt(q, q[s][p][1].order_id, s, p, 1)
    BY <1>2, <1>4 DEF IsAt
  <1> QED
    BY <1>2, <1>5, <1>6, <1>7, PlaceFound DEF RestingAs

(* Only finitely many orders rest, however many ids there are. *)
LEMMA LiveFinite ==
  ASSUME NEW q \in QueueBooks
  PROVE  IsFiniteSet(LiveIds(q)) /\ Cardinality(LiveIds(q)) \in Nat
  <1> DEFINE At(x) == {q[x[1]][x[2]][k].order_id : k \in DOMAIN q[x[1]][x[2]]}
             Places == Sides \X Band
             All == {At(x) : x \in Places}
  <1>1. ASSUME NEW x \in Places PROVE IsFiniteSet(At(x))
    <2>1. PICK line, n : line = q[x[1]][x[2]] /\ n = Len(line)
      OBVIOUS
    <2>2. n \in Nat /\ DOMAIN line = 1 .. n
      BY <2>1, LineType
    <2>3. PICK f : f = [k \in 1 .. n |-> line[k].order_id]
      OBVIOUS
    <2>4. At(x) = {line[k].order_id : k \in 1 .. n}
      BY <2>1, <2>2
    <2>5. f \in Surjection(1 .. n, At(x))
      <3> HIDE DEF At
      <3>1. f \in [1 .. n -> At(x)]
        BY <2>3, <2>4
      <3>2. \A t \in At(x) : \E k \in 1 .. n : f[k] = t
        BY <2>3, <2>4
      <3> QED
        BY <3>1, <3>2 DEF Surjection
    <2>6. IsFiniteSet(1 .. n)
      BY <2>2, FS_Interval
    <2> QED
      BY <2>5, <2>6, FS_Surjection
  <1>2. IsFiniteSet(Places)
    <2>1. IsFiniteSet(Sides)
      <3>1. Sides = {"Buy"} \cup {"Sell"}
        BY DEF Sides
      <3> QED
        BY <3>1, FS_Singleton, FS_AddElement
    <2>2. IsFiniteSet(Band)
      BY FS_Interval, LadderAssumption DEF Band
    <2> QED
      BY <2>1, <2>2, FS_Product
  <1>3. IsFiniteSet(All)
    <2>1. PICK f : f = [x \in Places |-> At(x)]
      OBVIOUS
    <2> HIDE DEF At, Places
    <2>2. f \in Surjection(Places, All)
      BY <2>1 DEF Surjection
    <2> QED
      BY <1>2, <2>2, FS_Surjection
  <1>4. IsFiniteSet(UNION All)
    <2> HIDE DEF At, Places
    <2>1. \A T \in All : IsFiniteSet(T)
      BY <1>1
    <2> HIDE DEF All
    <2> QED
      BY <1>3, <2>1, FS_UNION
  <1>5. LiveIds(q) \in SUBSET UNION All
    <2> SUFFICES ASSUME NEW id \in LiveIds(q) PROVE id \in UNION All
      OBVIOUS
    <2>1. PICK s, p, k : IsAt(q, id, s, p, k)
      BY LiveIsAt
    <2>2. <<s, p>> \in Places /\ id \in At(<<s, p>>)
      BY <2>1 DEF IsAt
    <2> HIDE DEF At, Places
    <2> QED
      BY <2>2
  <1> HIDE DEF All
  <1>6. IsFiniteSet(LiveIds(q))
    BY <1>4, <1>5, FS_Subset
  <1> QED
    BY <1>6, FS_CardinalityType

-----------------------------------------------------------------------------
(* What events tell of a book. *)

(* The event ev is of the order o. *)
IsOf(ev, o) ==
  /\ ev.order_id = o.order_id /\ ev.account_id = o.account_id
  /\ ev.side = o.side /\ ev.price = o.price

(* An event of a book that was q and is c. *)
BookStep(q, ev, c) ==
  \/ /\ ev.type = "Add" /\ MayJoin(ev) /\ ev.order_id \notin LiveIds(q)
     /\ c = Joined(q, ev)
  \/ /\ ev.type = "Execute" /\ ev.order_id \in LiveIds(q) /\ ev.qty \in Nat \ {0}
     /\ IsOf(ev, OrderOf(q, ev.order_id)) /\ ev.qty <= OrderOf(q, ev.order_id).qty
     /\ c = Reduced(q, ev.order_id, ev.qty)
  \/ /\ ev.type = "Cancel" /\ ev.order_id \in LiveIds(q)
     /\ IsOf(ev, OrderOf(q, ev.order_id)) /\ ev.qty = OrderOf(q, ev.order_id).qty
     /\ c = Without(q, ev.order_id)

(* g[k] is the book after k of the events of md. *)
BookPath(g, q, md, c) ==
  /\ g[0] = q /\ g[Len(md)] = c
  /\ \A k \in 0 .. Len(md) : GoodBook(g[k])
  /\ \A k \in 1 .. Len(md) : BookStep(g[k - 1], md[k], g[k])

(* Nothing follows what joined, and an order that traded rests right after it *)
(* if and only if it rests in the end.                                        *)
Orderly(g, md, c) ==
  \A k \in 1 .. Len(md) :
    /\ md[k].type = "Add" => k = Len(md)
    /\ md[k].type = "Execute" =>
         (md[k].order_id \in LiveIds(g[k]) <=> md[k].order_id \in LiveIds(c))

(* The events of md, one by one, make c of q. *)
Tells(md, q, c) == \E g : BookPath(g, q, md, c) /\ Orderly(g, md, c)

(* A further event on ev's order would not disturb what md tells. *)
MayFollow(ev, md) ==
  \A k \in DOMAIN md :
    /\ md[k].type # "Add"
    /\ md[k].type = "Execute" => md[k].order_id # ev.order_id

(* An event leaves the other orders where they rest. *)
LEMMA OthersStay ==
  ASSUME NEW q, GoodBook(q), NEW ev, NEW c, BookStep(q, ev, c), NEW id, id # ev.order_id
  PROVE  id \in LiveIds(c) <=> id \in LiveIds(q)
  <1>1. CASE MayJoin(ev) /\ ev.order_id \notin LiveIds(q) /\ c = Joined(q, ev)
    <2>1. LiveIds(c) = LiveIds(q) \cup {ev.order_id}
      BY <1>1, JoinedGood
    <2> QED
      BY <2>1
  <1>2. CASE /\ ev.order_id \in LiveIds(q) /\ ev.qty \in Nat \ {0}
             /\ c = Reduced(q, ev.order_id, ev.qty)
    <2>1. PICK x, n : x = ev.order_id /\ n = ev.qty
      OBVIOUS
    <2>2. x \in LiveIds(q) /\ n \in Nat \ {0} /\ c = Reduced(q, x, n)
      BY <1>2, <2>1
    <2>3. LiveIds(c) = IF OrderOf(q, x).qty <= n THEN LiveIds(q) \ {x} ELSE LiveIds(q)
      BY <2>2, ReducedGood
    <2> QED
      BY <2>1, <2>3
  <1>3. CASE ev.order_id \in LiveIds(q) /\ c = Without(q, ev.order_id)
    <2>1. PICK x : x = ev.order_id
      OBVIOUS
    <2>2. LiveIds(c) = LiveIds(q) \ {x}
      BY <1>3, <2>1, WithoutGood
    <2> QED
      BY <2>1, <2>2
  <1> QED
    BY <1>1, <1>2, <1>3 DEF BookStep

LEMMA NothingTells ==
  ASSUME NEW q, GoodBook(q)
  PROVE  Tells(<<>>, q, q)
  <1>1. PICK g, md : g = [k \in 0 .. 0 |-> q] /\ md = <<>>
    OBVIOUS
  <1>2. Len(md) = 0 /\ g[0] = q /\ 1 .. 0 = {} /\ \A k \in 0 .. 0 : g[k] = q
    BY <1>1
  <1>3. BookPath(g, q, md, q) /\ Orderly(g, md, q)
    BY <1>2 DEF BookPath, Orderly
  <1> QED
    BY <1>1, <1>3 DEF Tells

(* One event more. *)
LEMMA OneMoreTells ==
  ASSUME NEW S, NEW md \in Seq(S), NEW q, NEW b, NEW c, NEW ev, Tells(md, q, b),
         MayFollow(ev, md), BookStep(b, ev, c), GoodBook(c),
         NEW longer, longer = Append(md, ev)
  PROVE  Tells(longer, q, c)
  <1>1. PICK g : BookPath(g, q, md, b) /\ Orderly(g, md, b)
    BY DEF Tells
  <1>2. PICK n : n = Len(md)
    OBVIOUS
  <1>3. /\ n \in Nat /\ Len(longer) = n + 1 /\ longer[n + 1] = ev
        /\ \A k \in 1 .. n : longer[k] = md[k]
    BY <1>2
  <1>4. PICK h : h = [k \in 0 .. n + 1 |-> IF k <= n THEN g[k] ELSE c]
    OBVIOUS
  <1>5. (\A k \in 0 .. n : h[k] = g[k]) /\ h[n + 1] = c
    BY <1>3, <1>4
  <1>6. /\ g[0] = q /\ g[n] = b /\ \A k \in 0 .. n : GoodBook(g[k])
        /\ \A k \in 1 .. n : BookStep(g[k - 1], md[k], g[k])
    BY <1>1, <1>2 DEF BookPath
  <1>7. h[0] = q /\ h[n] = b
    BY <1>3, <1>5, <1>6
  <1>8. ASSUME NEW k \in 0 .. n + 1 PROVE GoodBook(h[k])
    <2>1. k \in 0 .. n \/ k = n + 1
      BY <1>3
    <2> QED
      BY <1>5, <1>6, <2>1
  <1>9. ASSUME NEW k \in 1 .. n + 1 PROVE BookStep(h[k - 1], longer[k], h[k])
    <2>1. CASE k = n + 1
      <3>1. k - 1 = n
        BY <1>3, <2>1
      <3> QED
        BY <1>3, <1>5, <1>7, <2>1, <3>1
    <2>2. CASE k # n + 1
      <3>1. k \in 1 .. n /\ k \in 0 .. n /\ k - 1 \in 0 .. n
        BY <1>3, <2>2
      <3>2. h[k] = g[k] /\ h[k - 1] = g[k - 1] /\ longer[k] = md[k]
        BY <1>3, <1>5, <3>1
      <3> QED
        BY <1>6, <3>1, <3>2
    <2> QED
      BY <2>1, <2>2
  <1>10. BookPath(h, q, longer, c)
    BY <1>3, <1>5, <1>7, <1>8, <1>9 DEF BookPath
  <1>11. ASSUME NEW k \in 1 .. n + 1
         PROVE  /\ longer[k].type = "Add" => k = n + 1
                /\ longer[k].type = "Execute" =>
                     (longer[k].order_id \in LiveIds(h[k]) <=> longer[k].order_id \in LiveIds(c))
    <2>1. CASE k = n + 1
      BY <1>5, <2>1
    <2>2. CASE k # n + 1
      <3>1. k \in 1 .. n /\ k \in 0 .. n /\ k \in DOMAIN md
        BY <1>2, <1>3, <2>2
      <3>2. PICK x : x = md[k] /\ x = longer[k]
        BY <1>3, <3>1
      <3>3. x.type # "Add" /\ (x.type = "Execute" => x.order_id # ev.order_id)
        BY <3>1, <3>2 DEF MayFollow
      <3>4. x.type = "Execute" => (x.order_id \in LiveIds(g[k]) <=> x.order_id \in LiveIds(b))
        BY <1>1, <1>2, <3>1, <3>2 DEF Orderly
      <3>5. GoodBook(b)
        BY <1>3, <1>6
      <3>6. x.order_id # ev.order_id => (x.order_id \in LiveIds(c) <=> x.order_id \in LiveIds(b))
        BY <3>5, OthersStay
      <3> QED
        BY <1>5, <3>1, <3>2, <3>3, <3>4, <3>6
    <2> QED
      BY <2>1, <2>2
  <1>12. Orderly(h, longer, c)
    BY <1>3, <1>11 DEF Orderly
  <1> QED
    BY <1>10, <1>12 DEF Tells

(* One after the other, when the first only cancel. *)
LEMMA BothTell ==
  ASSUME NEW S, NEW md1 \in Seq(S), NEW md2 \in Seq(S), NEW q, NEW b, NEW c,
         Tells(md1, q, b), \A k \in DOMAIN md1 : md1[k].type = "Cancel",
         Tells(md2, b, c), NEW md, md = md1 \o md2
  PROVE  Tells(md, q, c)
  <1>1. PICK g, h : BookPath(g, q, md1, b) /\ BookPath(h, b, md2, c) /\ Orderly(h, md2, c)
    BY DEF Tells
  <1>2. PICK m, n : m = Len(md1) /\ n = Len(md2)
    OBVIOUS
  <1>3. /\ m \in Nat /\ n \in Nat /\ Len(md) = m + n
        /\ \A k \in 1 .. m + n : md[k] = IF k <= m THEN md1[k] ELSE md2[k - m]
    BY <1>2, ConcatProperties
  <1>4. PICK f : f = [k \in 0 .. m + n |-> IF k <= m THEN g[k] ELSE h[k - m]]
    OBVIOUS
  <1>5. /\ g[0] = q /\ g[m] = b /\ \A k \in 0 .. m : GoodBook(g[k])
        /\ \A k \in 1 .. m : BookStep(g[k - 1], md1[k], g[k])
    BY <1>1, <1>2 DEF BookPath
  <1>6. /\ h[0] = b /\ h[n] = c /\ \A k \in 0 .. n : GoodBook(h[k])
        /\ \A k \in 1 .. n : BookStep(h[k - 1], md2[k], h[k])
    BY <1>1, <1>2 DEF BookPath
  <1>7. \A k \in 0 .. m : f[k] = g[k]
    BY <1>3, <1>4
  <1>8. ASSUME NEW k \in 0 .. n PROVE f[m + k] = h[k]
    <2>1. CASE k = 0
      <3>1. m + k = m /\ m \in 0 .. m
        BY <1>3, <2>1
      <3> QED
        BY <1>5, <1>6, <1>7, <2>1, <3>1
    <2>2. CASE k # 0
      <3>1. m + k \in 0 .. m + n /\ ~ (m + k <= m) /\ (m + k) - m = k
        BY <1>3, <2>2
      <3> QED
        BY <1>4, <3>1
    <2> QED
      BY <2>1, <2>2
  <1>9. f[0] = q /\ f[m + n] = c
    <2>1. 0 \in 0 .. m /\ n \in 0 .. n
      BY <1>3
    <2> QED
      BY <1>5, <1>6, <1>7, <1>8, <2>1
  <1>10. ASSUME NEW k \in 0 .. m + n PROVE GoodBook(f[k])
    <2>1. CASE k <= m
      <3>1. k \in 0 .. m
        BY <2>1
      <3> QED
        BY <1>5, <1>7, <3>1
    <2>2. CASE ~ (k <= m)
      <3>1. PICK j : j = k - m
        OBVIOUS
      <3>2. j \in 0 .. n /\ m + j = k
        BY <1>3, <2>2, <3>1
      <3> QED
        BY <1>6, <1>8, <3>2
    <2> QED
      BY <2>1, <2>2
  <1>11. ASSUME NEW k \in 1 .. m + n PROVE BookStep(f[k - 1], md[k], f[k])
    <2>1. CASE k <= m
      <3>1. k \in 0 .. m /\ k - 1 \in 0 .. m /\ k \in 1 .. m /\ md[k] = md1[k]
        BY <1>3, <2>1
      <3>2. f[k] = g[k] /\ f[k - 1] = g[k - 1]
        BY <1>7, <3>1
      <3> QED
        BY <1>5, <3>1, <3>2
    <2>2. CASE ~ (k <= m)
      <3>1. PICK j : j = k - m
        OBVIOUS
      <3>2. /\ j \in 1 .. n /\ j \in 0 .. n /\ j - 1 \in 0 .. n
            /\ m + j = k /\ m + (j - 1) = k - 1
        BY <1>3, <2>2, <3>1
      <3>3. f[k] = h[j] /\ f[k - 1] = h[j - 1]
        BY <1>8, <3>2
      <3>4. md[k] = md2[j]
        BY <1>3, <2>2, <3>1
      <3> QED
        BY <1>6, <3>2, <3>3, <3>4
    <2> QED
      BY <2>1, <2>2
  <1>12. BookPath(f, q, md, c)
    BY <1>3, <1>9, <1>10, <1>11 DEF BookPath
  <1>13. ASSUME NEW k \in 1 .. m + n
         PROVE  /\ md[k].type = "Add" => k = m + n
                /\ md[k].type = "Execute" =>
                     (md[k].order_id \in LiveIds(f[k]) <=> md[k].order_id \in LiveIds(c))
    <2>1. CASE k <= m
      <3>1. k \in DOMAIN md1 /\ md[k] = md1[k]
        BY <1>2, <1>3, <2>1
      <3>2. md[k].type = "Cancel"
        BY <3>1
      <3> QED
        BY <3>2
    <2>2. CASE ~ (k <= m)
      <3>1. PICK j : j = k - m
        OBVIOUS
      <3>2. j \in 1 .. n /\ j \in 0 .. n /\ m + j = k
        BY <1>3, <2>2, <3>1
      <3>3. PICK x : x = md[k] /\ x = md2[j]
        BY <1>3, <2>2, <3>1
      <3>4. /\ x.type = "Add" => j = n
            /\ x.type = "Execute" => (x.order_id \in LiveIds(h[j]) <=> x.order_id \in LiveIds(c))
        BY <1>1, <1>2, <3>2, <3>3 DEF Orderly
      <3>5. f[k] = h[j]
        BY <1>8, <3>2
      <3> QED
        BY <3>2, <3>3, <3>4, <3>5
    <2> QED
      BY <2>1, <2>2
  <1>14. Orderly(f, md, c)
    BY <1>3, <1>13 DEF Orderly
  <1> QED
    BY <1>12, <1>14 DEF Tells

-----------------------------------------------------------------------------
(* The loop of add_order. *)

Executions ==
  [type : {"Execute"}, order_id : OrderIds, account_id : Accounts, side : Sides,
   price : Band, qty : Nat \ {0}]

(* What the loop may have made of q, and has told: trades for those who left, and *)
(* for one who stayed at most when the aggressor has nothing left.                *)
Reached(r, q, o) ==
  /\ r = [queues |-> r.queues, left |-> r.left, md |-> r.md]
  /\ GoodBook(r.queues) /\ StemsFrom(r.queues, q)
  /\ r.left \in Nat /\ r.left <= o.qty
  /\ r.md \in Seq(Executions) /\ Tells(r.md, q, r.queues)
  /\ \A id \in LiveIds(q) : \/ id \in LiveIds(r.queues)
                            \/ \E k \in DOMAIN r.md : r.md[k].order_id = id
  /\ \A k \in DOMAIN r.md : r.md[k].order_id \in LiveIds(q)
  /\ r.left = 0 \/ \A k \in DOMAIN r.md : r.md[k].order_id \notin LiveIds(r.queues)

(* Appending to a sequence. *)
LEMMA Appending ==
  ASSUME NEW S, NEW md \in Seq(S), NEW ev \in S, NEW longer, longer = Append(md, ev)
  PROVE  /\ longer \in Seq(S)
         /\ \A k \in DOMAIN md : k \in DOMAIN longer /\ longer[k] = md[k]
         /\ \E k \in DOMAIN longer : longer[k] = ev
         /\ \A k \in DOMAIN longer :
              \/ k \in DOMAIN md /\ longer[k] = md[k]
              \/ longer[k] = ev
  <1>1. /\ longer \in Seq(S) /\ Len(longer) = Len(md) + 1 /\ Len(md) \in Nat
        /\ longer[Len(md) + 1] = ev
        /\ \A k \in 1 .. Len(md) : longer[k] = md[k]
    BY AppendProperties
  <1>2. DOMAIN longer = 1 .. Len(md) + 1 /\ DOMAIN md = 1 .. Len(md)
    BY <1>1
  <1> QED
    BY <1>1, <1>2

LEMMA IterationReaches ==
  ASSUME NEW q \in QueueBooks, NEW o, o.side \in Sides, o.qty \in Nat, NEW r, Reached(r, q, o)
  PROVE  Reached(Iteration(r, o), q, o)
  <1>1. /\ GoodBook(r.queues) /\ StemsFrom(r.queues, q) /\ Tells(r.md, q, r.queues)
        /\ r.left \in Nat /\ r.left <= o.qty /\ r.md \in Seq(Executions)
        /\ \A id \in LiveIds(q) : \/ id \in LiveIds(r.queues)
                                  \/ \E k \in DOMAIN r.md : r.md[k].order_id = id
        /\ \A k \in DOMAIN r.md : r.md[k].order_id \in LiveIds(q)
        /\ r.left = 0 \/ \A k \in DOMAIN r.md : r.md[k].order_id \notin LiveIds(r.queues)
    BY DEF Reached
  <1>2. CASE ~ (r.left > 0 /\ Marketable(r.queues, o.side, o.price))
    BY <1>2 DEF Iteration
  <1>3. CASE r.left > 0 /\ Marketable(r.queues, o.side, o.price)
    <2>1. PICK other : other = Opposite(o.side)
      OBVIOUS
    <2>2. other \in Sides /\ Offered(r.queues, other) # {}
      BY <1>3, <2>1 DEF Opposite, Sides, Marketable
    <2>3. PICK first : first = FirstInLine(r.queues, other)
      OBVIOUS
    <2>4. /\ first.order_id \in LiveIds(r.queues) /\ first.account_id \in Accounts
          /\ first.side \in Sides /\ first.price \in Band /\ first.qty \in Nat \ {0}
          /\ OrderOf(r.queues, first.order_id) = first
      BY <1>1, <2>2, <2>3, FirstIsLive
    <2>5. PICK done : done = MinOf(first.qty, r.left)
      OBVIOUS
    <2>6. /\ done \in Nat \ {0} /\ done <= r.left /\ done <= first.qty
          /\ done = r.left \/ done = first.qty
      BY <1>1, <1>3, <2>4, <2>5 DEF MinOf
    <2>7. PICK c, ev, md : /\ c = Reduced(r.queues, first.order_id, done)
                           /\ ev = MdEventFor("Execute", first, done)
                           /\ md = Append(r.md, ev)
      OBVIOUS
    <2>8. Iteration(r, o) = [queues |-> c, left |-> r.left - done, md |-> md]
      BY <1>3, <2>1, <2>3, <2>5, <2>7 DEF Iteration, TradeWith, Trade
    <2>9. /\ GoodBook(c) /\ StemsFrom(c, r.queues)
          /\ LiveIds(c) = IF OrderOf(r.queues, first.order_id).qty <= done
                          THEN LiveIds(r.queues) \ {first.order_id} ELSE LiveIds(r.queues)
      <3>1. PICK book, id : book = r.queues /\ id = first.order_id
        OBVIOUS
      <3>2. GoodBook(book) /\ id \in LiveIds(book) /\ c = Reduced(book, id, done)
        BY <1>1, <2>4, <2>7, <3>1
      <3>3. /\ GoodBook(c) /\ StemsFrom(c, book)
            /\ LiveIds(c) = IF OrderOf(book, id).qty <= done
                            THEN LiveIds(book) \ {id} ELSE LiveIds(book)
        BY <2>6, <3>2, ReducedGood
      <3> QED
        BY <3>1, <3>3
    <2>10. StemsFrom(c, q) /\ LiveIds(r.queues) \subseteq LiveIds(q)
      BY <1>1, <2>9, StemsFurther, StemsLive DEF GoodBook
    <2>11. first.order_id \in OrderIds
      BY <2>4 DEF LiveIds
    <2>12. ev \in Executions /\ ev.order_id = first.order_id
      BY <2>4, <2>6, <2>7, <2>11 DEF MdEventFor, Executions
    <2>13. /\ md \in Seq(Executions)
           /\ \A k \in DOMAIN r.md : k \in DOMAIN md /\ md[k] = r.md[k]
           /\ \E k \in DOMAIN md : md[k] = ev
           /\ \A k \in DOMAIN md : \/ k \in DOMAIN r.md /\ md[k] = r.md[k]
                                   \/ md[k] = ev
      <3>1. PICK told : told = r.md
        OBVIOUS
      <3>2. told \in Seq(Executions) /\ md = Append(told, ev)
        BY <1>1, <2>7, <3>1
      <3>3. /\ md \in Seq(Executions)
            /\ \A k \in DOMAIN told : k \in DOMAIN md /\ md[k] = told[k]
            /\ \E k \in DOMAIN md : md[k] = ev
            /\ \A k \in DOMAIN md : \/ k \in DOMAIN told /\ md[k] = told[k]
                                    \/ md[k] = ev
        BY <2>12, <3>2, Appending
      <3> QED
        BY <3>1, <3>3
    <2>14. \A id \in LiveIds(q) : id \in LiveIds(c) \/ \E k \in DOMAIN md : md[k].order_id = id
      <3> TAKE id \in LiveIds(q)
      <3>1. CASE id \in LiveIds(r.queues)
        BY <2>9, <2>12, <2>13, <3>1
      <3>2. CASE id \notin LiveIds(r.queues)
        BY <1>1, <2>13, <3>2
      <3> QED
        BY <3>1, <3>2
    <2>15. \A k \in DOMAIN md : md[k].order_id \in LiveIds(q)
      BY <1>1, <2>4, <2>10, <2>12, <2>13
    <2>22. BookStep(r.queues, ev, c)
      <3>1. ev.type = "Execute" /\ ev.qty = done /\ IsOf(ev, first)
        BY <2>7 DEF MdEventFor, IsOf
      <3>2. ev.order_id = first.order_id
        BY <3>1 DEF IsOf
      <3> QED
        BY <2>4, <2>6, <2>7, <3>1, <3>2 DEF BookStep
    <2>24. MayFollow(ev, r.md)
      <3>1. \A k \in DOMAIN r.md : r.md[k].type = "Execute"
        <4>1. \A k \in DOMAIN r.md : r.md[k] \in Executions
          BY <1>1
        <4> QED
          BY <4>1 DEF Executions
      <3>2. \A k \in DOMAIN r.md : r.md[k].order_id \notin LiveIds(r.queues)
        BY <1>1, <1>3
      <3> QED
        BY <2>4, <2>12, <3>1, <3>2 DEF MayFollow
    <2>23. Tells(md, q, c)
      <3>1. PICK told, b : told = r.md /\ b = r.queues
        OBVIOUS
      <3>2. /\ told \in Seq(Executions) /\ Tells(told, q, b) /\ BookStep(b, ev, c)
            /\ GoodBook(c) /\ md = Append(told, ev) /\ MayFollow(ev, told)
        BY <1>1, <2>7, <2>9, <2>22, <2>24, <3>1
      <3> QED
        BY <3>2, OneMoreTells
    <2>16. PICK left : left = r.left - done
      OBVIOUS
    <2>17. left \in Nat /\ left <= o.qty
      BY <1>1, <2>6, <2>16
    <2>25. left = 0 \/ \A k \in DOMAIN md : md[k].order_id \notin LiveIds(c)
      <3> SUFFICES ASSUME left # 0 PROVE \A k \in DOMAIN md : md[k].order_id \notin LiveIds(c)
        OBVIOUS
      <3>1. done = first.qty
        BY <1>1, <2>6, <2>16
      <3>2. LiveIds(c) = LiveIds(r.queues) \ {first.order_id}
        BY <2>4, <2>6, <2>9, <3>1
      <3>3. \A k \in DOMAIN r.md : r.md[k].order_id \notin LiveIds(r.queues)
        BY <1>1, <1>3
      <3> QED
        BY <2>12, <2>13, <3>2, <3>3
    <2>18. PICK i : i = Iteration(r, o)
      OBVIOUS
    <2>19. i = [queues |-> c, left |-> left, md |-> md]
      BY <2>8, <2>16, <2>18
    <2>20. i.queues = c /\ i.left = left /\ i.md = md
      BY <2>19
    <2>21. Reached(i, q, o)
      BY <2>9, <2>10, <2>13, <2>14, <2>15, <2>17, <2>19, <2>20, <2>23, <2>25 DEF Reached
    <2> QED
      BY <2>18, <2>21
  <1> QED
    BY <1>2, <1>3

(* The loop as a function of the number of iterations. *)
LoopFrom(q, o) == [queues |-> q, left |-> o.qty, md |-> <<>>]

LoopStep(g, q, o, n) == IF n = 0 THEN LoopFrom(q, o) ELSE Iteration(g[n - 1], o)

Loops(g, q, o, most) == g = [n \in 0 .. most |-> LoopStep(g, q, o, n)]

(* There are functions of which LoopStep gives each value from the one before. *)
LEMMA LoopExists ==
  ASSUME NEW q, NEW o, NEW most \in Nat
  PROVE  \E g : Loops(g, q, o, most)
  <1> DEFINE Bad == {n \in 0 .. most : ~ \E g : Loops(g, q, o, n)}
  <1>1. SUFFICES ASSUME Bad # {} PROVE FALSE
    OBVIOUS
  <1>2. PICK n \in Bad : \A m \in Bad : n <= m
    <2>1. Bad \in SUBSET Nat
      OBVIOUS
    <2> HIDE DEF Bad
    <2> QED
      BY <1>1, <2>1, LeastNumber
  <1>3. n # 0
    <2> SUFFICES ASSUME n = 0 PROVE FALSE
      OBVIOUS
    <2>1. PICK g : g = [m \in 0 .. n |-> LoopFrom(q, o)]
      OBVIOUS
    <2>2. Loops(g, q, o, n)
      BY <2>1 DEF Loops, LoopStep
    <2> QED
      BY <2>2
  <1>4. n - 1 \in 0 .. most /\ n - 1 \notin Bad /\ n \in Nat
    BY <1>2, <1>3
  <1>5. PICK g : Loops(g, q, o, n - 1)
    BY <1>4
  <1>6. PICK h : h = [m \in 0 .. n |-> IF m = n THEN LoopStep(g, q, o, n) ELSE g[m]]
    OBVIOUS
  <1>7. \A m \in 0 .. n - 1 : h[m] = g[m]
    BY <1>4, <1>6
  <1>8. \A m \in 0 .. n - 1 : g[m] = LoopStep(g, q, o, m)
    BY <1>5 DEF Loops
  <1>9. \A m \in 0 .. n : h[m] = LoopStep(h, q, o, m)
    <2> TAKE m \in 0 .. n
    <2>1. CASE m = n
      <3>1. h[m] = LoopStep(g, q, o, n)
        BY <1>6, <2>1
      <3>2. n - 1 \in 0 .. n - 1
        BY <1>3, <1>4
      <3>3. h[n - 1] = g[n - 1]
        BY <1>7, <3>2
      <3> QED
        BY <2>1, <3>1, <3>3 DEF LoopStep
    <2>2. CASE m # n
      <3>1. m \in 0 .. n - 1
        BY <1>4, <2>2
      <3>2. h[m] = LoopStep(g, q, o, m)
        BY <1>7, <1>8, <3>1
      <3>3. m # 0 => h[m - 1] = g[m - 1]
        BY <1>4, <1>7, <3>1
      <3> QED
        BY <3>2, <3>3 DEF LoopStep
    <2> QED
      BY <2>1, <2>2
  <1>10. Loops(h, q, o, n)
    <2>1. h = [m \in 0 .. n |-> h[m]]
      BY <1>6
    <2> QED
      BY <1>9, <2>1, Zenon DEF Loops
  <1> QED
    BY <1>10

(* Matched is the last value of such a function. *)
LEMMA MatchedIs ==
  ASSUME NEW q \in QueueBooks, NEW o
  PROVE  \E g, most : /\ most \in Nat /\ most = Cardinality(LiveIds(q))
                      /\ Loops(g, q, o, most) /\ Matched(q, o) = g[most]
  <1>1. PICK most : most = Cardinality(LiveIds(q))
    OBVIOUS
  <1>2. most \in Nat
    BY <1>1, LiveFinite
  <1>3. PICK g : g = CHOOSE f : Loops(f, q, o, most)
    OBVIOUS
  <1>4. Loops(g, q, o, most)
    BY <1>2, <1>3, LoopExists
  <1>5. Matched(q, o) = g[most]
    BY <1>1, <1>3 DEF Matched, Loops, LoopStep, LoopFrom
  <1> QED
    BY <1>1, <1>2, <1>4, <1>5

(* Wherever the loop is, it has come from the book and the order it began with. *)
LEMMA LoopReaches ==
  ASSUME NEW q, GoodBook(q), NEW o, o.side \in Sides, o.qty \in Nat,
         NEW g, NEW most \in Nat, Loops(g, q, o, most)
  PROVE  \A n \in 0 .. most : Reached(g[n], q, o)
  <1>0. q \in QueueBooks
    BY DEF GoodBook
  <1>2. \A n \in 0 .. most : g[n] = LoopStep(g, q, o, n)
    BY DEF Loops
  <1>3. Reached(LoopFrom(q, o), q, o)
    <2>1. PICK r : r = LoopFrom(q, o)
      OBVIOUS
    <2>2. r = [queues |-> q, left |-> o.qty, md |-> <<>>]
      BY <2>1 DEF LoopFrom
    <2>3. r.queues = q /\ r.left = o.qty /\ r.md = <<>> /\ r.md \in Seq(Executions) /\ DOMAIN r.md = {}
      BY <2>2
    <2>4. Reached(r, q, o)
      BY <1>0, <2>2, <2>3, StemsFromItself, NothingTells DEF Reached
    <2> QED
      BY <2>1, <2>4
  <1> DEFINE Bad == {n \in 0 .. most : ~ Reached(g[n], q, o)}
  <1>4. Bad = {}
    <2> SUFFICES ASSUME Bad # {} PROVE FALSE
      OBVIOUS
    <2>1. PICK n \in Bad : \A m \in Bad : n <= m
      <3>1. Bad \in SUBSET Nat
        OBVIOUS
      <3> HIDE DEF Bad
      <3> QED
        BY <3>1, LeastNumber
    <2>2. n # 0
      BY <1>2, <1>3, <2>1 DEF LoopStep
    <2>3. n - 1 \in 0 .. most /\ n - 1 \notin Bad
      BY <2>1, <2>2
    <2>4. Reached(g[n - 1], q, o)
      BY <2>3
    <2>5. g[n] = Iteration(g[n - 1], o)
      BY <1>2, <2>1, <2>2 DEF LoopStep
    <2>6. Reached(g[n], q, o)
      BY <1>0, <2>4, <2>5, IterationReaches
    <2> QED
      BY <2>1, <2>6
  <1> QED
    BY <1>4

LEMMA MatchedReaches ==
  ASSUME NEW q, GoodBook(q), NEW o, o.side \in Sides, o.qty \in Nat
  PROVE  Reached(Matched(q, o), q, o)
  <1>1. PICK g, most : /\ most \in Nat /\ Loops(g, q, o, most) /\ Matched(q, o) = g[most]
    BY MatchedIs DEF GoodBook
  <1>2. Reached(g[most], q, o)
    BY <1>1, LoopReaches
  <1> QED
    BY <1>1, <1>2

-----------------------------------------------------------------------------
(* The first iteration of the loop, and the loop from there on. *)

(* A loop with nothing to do leaves what it began with. *)
LEMMA LoopStays ==
  ASSUME NEW q, NEW o, ~ (o.qty > 0 /\ Marketable(q, o.side, o.price)),
         NEW g, NEW most \in Nat, Loops(g, q, o, most)
  PROVE  \A n \in 0 .. most : g[n] = LoopFrom(q, o)
  <1>1. \A n \in 0 .. most : g[n] = LoopStep(g, q, o, n)
    BY DEF Loops
  <1>2. PICK r : r = LoopFrom(q, o)
    OBVIOUS
  <1>3. Iteration(r, o) = r
    <2>1. r.left = o.qty /\ r.queues = q
      BY <1>2 DEF LoopFrom
    <2> QED
      BY <2>1 DEF Iteration
  <1> DEFINE Bad == {n \in 0 .. most : g[n] # r}
  <1>4. Bad = {}
    <2> SUFFICES ASSUME Bad # {} PROVE FALSE
      OBVIOUS
    <2>1. PICK n \in Bad : \A m \in Bad : n <= m
      <3>1. Bad \in SUBSET Nat
        OBVIOUS
      <3> HIDE DEF Bad
      <3> QED
        BY <3>1, LeastNumber
    <2>2. n # 0
      BY <1>1, <1>2, <2>1 DEF LoopStep
    <2>3. n - 1 \in 0 .. most /\ n - 1 \notin Bad
      BY <2>1, <2>2
    <2>4. g[n - 1] = r
      BY <2>3
    <2>5. g[n] = Iteration(g[n - 1], o)
      BY <1>1, <2>1, <2>2 DEF LoopStep
    <2> QED
      BY <1>3, <2>1, <2>4, <2>5
  <1> QED
    BY <1>2, <1>4

(* When there is nothing to trade with, add_order goes on to what follows its loop. *)
LEMMA AdmittedEnds ==
  ASSUME NEW q, q \in QueueBooks, NEW o, ~ (o.qty > 0 /\ Marketable(q, o.side, o.price))
  PROVE  Admitted(q, o) = Settled(LoopFrom(q, o), o)
  <1>1. PICK g, most : /\ most \in Nat /\ Loops(g, q, o, most) /\ Matched(q, o) = g[most]
    BY MatchedIs
  <1>2. most \in 0 .. most
    BY <1>1
  <1>3. g[most] = LoopFrom(q, o)
    BY <1>1, <1>2, LoopStays
  <1> QED
    BY <1>1, <1>3 DEF Admitted

(* A loop that has told ev before. *)
Ahead(ev, r) == [queues |-> r.queues, left |-> r.left, md |-> <<ev>> \o r.md]

(* The order, with another quantity left. *)
OrderWith(o, qty) ==
  [order_id |-> o.order_id, account_id |-> o.account_id, side |-> o.side,
   price |-> o.price, qty |-> qty, tif |-> o.tif]

(* An event told first stays the first. *)
LEMMA AheadAppends ==
  ASSUME NEW S, NEW md \in Seq(S), NEW ev \in S, NEW e \in S
  PROVE  <<ev>> \o Append(md, e) = Append(<<ev>> \o md, e)
  <1>1. PICK longer, told, u, v :
           /\ longer = Append(md, e) /\ told = <<ev>> \o md
           /\ u = <<ev>> \o longer /\ v = Append(told, e)
    OBVIOUS
  <1>2. /\ Len(longer) = Len(md) + 1 /\ Len(md) \in Nat /\ longer \in Seq(S)
        /\ longer[Len(md) + 1] = e
        /\ \A k \in 1 .. Len(md) : longer[k] = md[k]
    BY <1>1, AppendProperties
  <1>3. /\ told \in Seq(S) /\ Len(told) = Len(md) + 1 /\ told[1] = ev
        /\ \A k \in 1 .. Len(md) : told[k + 1] = md[k]
    BY <1>1
  <1>4. /\ u \in Seq(S) /\ Len(u) = Len(md) + 2 /\ u[1] = ev
        /\ \A k \in 1 .. Len(md) + 1 : u[k + 1] = longer[k]
    BY <1>1, <1>2
  <1>5. /\ v \in Seq(S) /\ Len(v) = Len(md) + 2 /\ v[Len(md) + 2] = e
        /\ \A k \in 1 .. Len(md) + 1 : v[k] = told[k]
    BY <1>1, <1>3
  <1>6. \A k \in 1 .. Len(u) : u[k] = v[k]
    <2> TAKE k \in 1 .. Len(u)
    <2>1. CASE k = 1
      BY <1>2, <1>3, <1>4, <1>5, <2>1
    <2>2. CASE k # 1 /\ k # Len(md) + 2
      <3>1. PICK j : j = k - 1
        OBVIOUS
      <3>2. /\ j \in 1 .. Len(md) /\ j + 1 = k
            /\ j \in 1 .. Len(md) + 1 /\ k \in 1 .. Len(md) + 1
        BY <1>2, <1>4, <2>2, <3>1
      <3>3. u[k] = longer[j] /\ longer[j] = md[j]
        BY <1>2, <1>4, <3>2
      <3>4. v[k] = told[k] /\ told[k] = md[j]
        BY <1>3, <1>5, <3>2
      <3> QED
        BY <3>3, <3>4
    <2>3. CASE k = Len(md) + 2
      <3>1. Len(md) + 1 \in 1 .. Len(md) + 1 /\ (Len(md) + 1) + 1 = k
        BY <1>2, <2>3
      <3> QED
        BY <1>2, <1>4, <1>5, <2>3, <3>1
    <2> QED
      BY <2>1, <2>2, <2>3
  <1>7. u = v
    <2>1. Len(u) = Len(v)
      BY <1>4, <1>5
    <2> QED
      BY <1>4, <1>5, <1>6, <2>1
  <1> QED
    BY <1>1, <1>7

(* An iteration does not look at the events told. *)
LEMMA IterationAhead ==
  ASSUME NEW r, r = [queues |-> r.queues, left |-> r.left, md |-> r.md],
         NEW S, r.md \in Seq(S), NEW ev \in S,
         NEW o, NEW o1, o1.side = o.side, o1.price = o.price,
         NEW r1, r1 = Iteration(r, o1), r1.md \in Seq(S)
  PROVE  Iteration(Ahead(ev, r), o) = Ahead(ev, r1)
  <1>1. PICK a : a = Ahead(ev, r)
    OBVIOUS
  <1>2. a.queues = r.queues /\ a.left = r.left /\ a.md = <<ev>> \o r.md
    BY <1>1 DEF Ahead
  <1>3. CASE ~ (r.left > 0 /\ Marketable(r.queues, o.side, o.price))
    BY <1>1, <1>2, <1>3 DEF Iteration
  <1>4. CASE r.left > 0 /\ Marketable(r.queues, o.side, o.price)
    <2>1. PICK first, done, e :
             /\ first = FirstInLine(r.queues, Opposite(o.side))
             /\ done = MinOf(first.qty, r.left) /\ e = MdEventFor("Execute", first, done)
      OBVIOUS
    <2>2. r1 = [queues |-> Reduced(r.queues, first.order_id, done),
                left |-> r.left - done, md |-> Append(r.md, e)]
      BY <1>4, <2>1 DEF Iteration, TradeWith, Trade
    <2>3. Iteration(a, o) = [queues |-> Reduced(r.queues, first.order_id, done),
                             left |-> r.left - done, md |-> Append(<<ev>> \o r.md, e)]
      BY <1>2, <1>4, <2>1 DEF Iteration, TradeWith, Trade
    <2>4. e \in S
      <3>1. PICK told, longer : told = r.md /\ longer = Append(told, e)
        OBVIOUS
      <3>2. r1.md = longer /\ told \in Seq(S)
        BY <2>2, <3>1
      <3>3. Len(told) + 1 \in DOMAIN longer /\ longer[Len(told) + 1] = e
        BY <3>1, <3>2
      <3> QED
        BY <3>2, <3>3
    <2>5. <<ev>> \o Append(r.md, e) = Append(<<ev>> \o r.md, e)
      BY <2>4, AheadAppends
    <2>6. Ahead(ev, r1) = [queues |-> Reduced(r.queues, first.order_id, done),
                           left |-> r.left - done, md |-> <<ev>> \o Append(r.md, e)]
      BY <2>2 DEF Ahead
    <2> QED
      BY <1>1, <2>3, <2>5, <2>6
  <1> QED
    BY <1>3, <1>4

(* A loop that begins with a trade goes on as one that begins after it. *)
LEMMA LoopGoesOn ==
  ASSUME NEW q, NEW o, NEW f, NEW most \in Nat, Loops(f, q, o, most), most > 0,
         NEW q1, GoodBook(q1), NEW o1, o1.side \in Sides, o1.qty \in Nat,
         o1.side = o.side, o1.price = o.price,
         NEW g, NEW most1 \in Nat, Loops(g, q1, o1, most1), most - 1 <= most1,
         NEW ev \in Executions, f[1] = Ahead(ev, LoopFrom(q1, o1))
  PROVE  f[most] = Ahead(ev, g[most - 1])
  <1>1. \A n \in 0 .. most : f[n] = LoopStep(f, q, o, n)
    BY DEF Loops
  <1>2. \A n \in 0 .. most1 : g[n] = LoopStep(g, q1, o1, n)
    BY DEF Loops
  <1>3. \A n \in 0 .. most1 : Reached(g[n], q1, o1)
    BY LoopReaches
  <1> DEFINE Bad == {n \in 0 .. most - 1 : f[n + 1] # Ahead(ev, g[n])}
  <1>4. Bad = {}
    <2> SUFFICES ASSUME Bad # {} PROVE FALSE
      OBVIOUS
    <2>1. PICK n \in Bad : \A m \in Bad : n <= m
      <3>1. Bad \in SUBSET Nat
        OBVIOUS
      <3> HIDE DEF Bad
      <3> QED
        BY <3>1, LeastNumber
    <2>2. n # 0
      BY <1>2, <2>1 DEF LoopStep
    <2>3. n - 1 \in 0 .. most - 1 /\ n - 1 \notin Bad /\ (n - 1) + 1 = n
          /\ n \in 0 .. most1 /\ n - 1 \in 0 .. most1
          /\ n + 1 \in 0 .. most /\ n + 1 # 0 /\ (n + 1) - 1 = n
      BY <2>1, <2>2
    <2>4. f[n] = Ahead(ev, g[n - 1])
      BY <2>3
    <2>5. f[n + 1] = Iteration(f[n], o)
      BY <1>1, <2>3 DEF LoopStep
    <2>6. PICK r, r1 : r = g[n - 1] /\ r1 = g[n]
      OBVIOUS
    <2>7. r1 = Iteration(r, o1)
      BY <1>2, <2>2, <2>3, <2>6 DEF LoopStep
    <2>8. /\ r = [queues |-> r.queues, left |-> r.left, md |-> r.md]
          /\ r.md \in Seq(Executions) /\ r1.md \in Seq(Executions)
      BY <1>3, <2>3, <2>6 DEF Reached
    <2>10. Iteration(Ahead(ev, r), o) = Ahead(ev, r1)
      BY <2>7, <2>8, IterationAhead
    <2> QED
      BY <2>1, <2>4, <2>5, <2>6, <2>10
  <1>5. most - 1 \in 0 .. most - 1 /\ (most - 1) + 1 = most
    OBVIOUS
  <1> QED
    BY <1>4, <1>5

(* The aggressor o trades with the first in line of q; q1 and o1 are left. *)
FirstTrade(q, o, resting, done, ev, q1, o1) ==
  /\ o.side \in Sides /\ o.qty \in Nat /\ o.qty > 0 /\ Marketable(q, o.side, o.price)
  /\ resting = FirstInLine(q, Opposite(o.side))
  /\ done = MinOf(resting.qty, o.qty)
  /\ ev = MdEventFor("Execute", resting, done)
  /\ q1 = Reduced(q, resting.order_id, done)
  /\ o = OrderWith(o, o.qty) /\ o1 = OrderWith(o, o.qty - done)

(* The outcome c is the event ev, then the outcome c1. *)
BeginsWith(c, ev, c1) == c.queues = c1.queues /\ c.md = <<ev>> \o c1.md

(* The outcome of a call that begins with a trade is the trade, and the outcome of *)
(* a call with what the trade leaves of the book and of the order.                 *)
LEMMA AdmittedStep ==
  ASSUME NEW q, GoodBook(q), NEW o, NEW resting, NEW done, NEW ev, NEW q1, NEW o1,
         FirstTrade(q, o, resting, done, ev, q1, o1)
  PROVE  GoodBook(q1) /\ BeginsWith(Admitted(q, o), ev, Admitted(q1, o1))
  <1>1. PICK other : other = Opposite(o.side)
    OBVIOUS
  <1>2. other \in Sides /\ Offered(q, other) # {}
    BY <1>1 DEF FirstTrade, Opposite, Sides, Marketable
  <1>3. /\ resting.order_id \in LiveIds(q) /\ resting.account_id \in Accounts
        /\ resting.side \in Sides /\ resting.price \in Band /\ resting.qty \in Nat \ {0}
        /\ OrderOf(q, resting.order_id) = resting
    <2>1. resting = FirstInLine(q, other)
      BY <1>1 DEF FirstTrade
    <2> QED
      BY <1>2, <2>1, FirstIsLive
  <1>4. /\ done \in Nat \ {0} /\ done <= o.qty /\ done <= resting.qty
        /\ done = o.qty \/ done = resting.qty
    BY <1>3 DEF FirstTrade, MinOf
  <1>5. /\ GoodBook(q1)
        /\ LiveIds(q1) = IF resting.qty <= done
                         THEN LiveIds(q) \ {resting.order_id} ELSE LiveIds(q)
    <2>1. PICK id, b, c : id = resting.order_id /\ b = q /\ c = Reduced(b, id, done)
      OBVIOUS
    <2>2. GoodBook(b) /\ id \in LiveIds(b) /\ c = Reduced(b, id, done) /\ done \in Nat \ {0}
      BY <1>3, <1>4, <2>1
    <2>3. /\ GoodBook(c)
          /\ LiveIds(c) = IF OrderOf(b, id).qty <= done THEN LiveIds(b) \ {id} ELSE LiveIds(b)
      BY <2>2, ReducedGood
    <2>4. q1 = c /\ OrderOf(b, id) = resting
      BY <1>3, <2>1 DEF FirstTrade
    <2> QED
      BY <2>1, <2>3, <2>4
  <1>6. /\ o1.side = o.side /\ o1.price = o.price /\ o1.qty = o.qty - done /\ o1.tif = o.tif
        /\ o1.order_id = o.order_id /\ o1.account_id = o.account_id
        /\ o1.side \in Sides /\ o1.qty \in Nat
    BY <1>4 DEF FirstTrade, OrderWith
  <1>7. ev \in Executions
    <2>1. resting.order_id \in OrderIds
      BY <1>3 DEF LiveIds
    <2> QED
      BY <1>3, <1>4, <2>1 DEF FirstTrade, MdEventFor, Executions
  <1>8. PICK f, most : /\ most \in Nat /\ most = Cardinality(LiveIds(q))
                       /\ Loops(f, q, o, most) /\ Matched(q, o) = f[most]
    BY MatchedIs DEF GoodBook
  <1>9. PICK g, most1 : /\ most1 \in Nat /\ most1 = Cardinality(LiveIds(q1))
                        /\ Loops(g, q1, o1, most1) /\ Matched(q1, o1) = g[most1]
    BY <1>5, MatchedIs DEF GoodBook
  <1>10. IsFiniteSet(LiveIds(q))
    BY LiveFinite DEF GoodBook
  <1>11. most > 0 /\ (resting.qty <= done => most1 = most - 1)
                  /\ (~ (resting.qty <= done) => most1 = most)
    <2>1. most > 0
      BY <1>3, <1>8, <1>10, FS_EmptySet
    <2>2. Cardinality(LiveIds(q) \ {resting.order_id}) = most - 1
      BY <1>3, <1>8, <1>10, FS_RemoveElement
    <2> QED
      BY <1>5, <1>8, <1>9, <2>1, <2>2
  <1>12. f[1] = Ahead(ev, LoopFrom(q1, o1))
    <2>1. 0 \in 0 .. most /\ 1 \in 0 .. most /\ 1 - 1 = 0
      BY <1>8, <1>11
    <2>2. f[0] = LoopFrom(q, o) /\ f[1] = Iteration(f[0], o)
      BY <1>8, <2>1 DEF Loops, LoopStep
    <2>3. PICK r : r = LoopFrom(q, o)
      OBVIOUS
    <2>4. r.queues = q /\ r.left = o.qty /\ r.md = <<>>
      BY <2>3 DEF LoopFrom
    <2>5. Iteration(r, o) = [queues |-> q1, left |-> o.qty - done, md |-> Append(<<>>, ev)]
      BY <2>4 DEF FirstTrade, Iteration, TradeWith, Trade
    <2>6. Append(<<>>, ev) = <<ev>> /\ <<ev>> \o <<>> = <<ev>>
      OBVIOUS
    <2>7. LoopFrom(q1, o1) = [queues |-> q1, left |-> o.qty - done, md |-> <<>>]
      BY <1>6 DEF LoopFrom
    <2>8. Ahead(ev, LoopFrom(q1, o1)) = [queues |-> q1, left |-> o.qty - done, md |-> <<ev>>]
      BY <2>6, <2>7 DEF Ahead
    <2> QED
      BY <2>2, <2>3, <2>5, <2>6, <2>8
  <1>13. f[most] = Ahead(ev, g[most - 1])
    <2>1. most - 1 <= most1
      BY <1>8, <1>11
    <2> QED
      BY <1>5, <1>6, <1>7, <1>8, <1>9, <1>11, <1>12, <2>1, LoopGoesOn
  <1>14. g[most - 1] = g[most1]
    <2>1. CASE resting.qty <= done
      BY <1>11, <2>1
    <2>2. CASE ~ (resting.qty <= done)
      <3>1. o1.qty = 0
        BY <1>3, <1>4, <1>6, <2>2
      <3>2. most - 1 \in 0 .. most1 /\ most1 \in 0 .. most1
        BY <1>8, <1>11, <2>2
      <3>3. \A n \in 0 .. most1 : g[n] = LoopFrom(q1, o1)
        BY <1>9, <3>1, LoopStays
      <3> QED
        BY <3>2, <3>3
    <2> QED
      BY <2>1, <2>2
  <1>15. PICK m : m = Matched(q1, o1)
    OBVIOUS
  <1>16. Matched(q, o) = Ahead(ev, m)
    BY <1>8, <1>9, <1>13, <1>14, <1>15
  <1>17. m.md \in Seq(Executions) /\ m.left \in Nat
    BY <1>5, <1>6, <1>15, MatchedReaches DEF Reached
  <1>18. PICK a : a = Ahead(ev, m)
    OBVIOUS
  <1>19. a.queues = m.queues /\ a.left = m.left /\ a.md = <<ev>> \o m.md
    BY <1>18 DEF Ahead
  <1>20. Admitted(q, o) = Settled(a, o) /\ Admitted(q1, o1) = Settled(m, o1)
    BY <1>15, <1>16, <1>18 DEF Admitted
  <1>21. ASSUME ~ (m.left > 0 /\ o.tif = "Gtc")
         PROVE  /\ Admitted(q, o).queues = Admitted(q1, o1).queues
                /\ Admitted(q, o).md = <<ev>> \o Admitted(q1, o1).md
    <2>1. Settled(a, o) = MatchOutput(a.queues, a.md, "None")
      BY <1>19, <1>21 DEF Settled
    <2>2. Settled(m, o1) = MatchOutput(m.queues, m.md, "None")
      BY <1>6, <1>21 DEF Settled
    <2>3. Admitted(q, o).queues = a.queues /\ Admitted(q, o).md = a.md
      BY <1>20, <2>1 DEF MatchOutput
    <2>4. Admitted(q1, o1).queues = m.queues /\ Admitted(q1, o1).md = m.md
      BY <1>20, <2>2 DEF MatchOutput
    <2> QED
      BY <1>19, <2>3, <2>4
  <1>22. ASSUME m.left > 0 /\ o.tif = "Gtc"
         PROVE  /\ Admitted(q, o).queues = Admitted(q1, o1).queues
                /\ Admitted(q, o).md = <<ev>> \o Admitted(q1, o1).md
    <2>1. PICK left, e, x : /\ left = m.left /\ e = MdEventFor("Add", o, left)
                            /\ x = OrderWith(o, left)
      OBVIOUS
    <2>2. [o EXCEPT !.qty = left] = x
      <3>1. PICK id, account, side, price, qty, tif :
               o = [order_id |-> id, account_id |-> account, side |-> side,
                    price |-> price, qty |-> qty, tif |-> tif]
        BY DEF FirstTrade, OrderWith
      <3> QED
        BY <2>1, <3>1 DEF OrderWith
    <2>3. [o1 EXCEPT !.qty = left] = x
      BY <2>1 DEF FirstTrade, OrderWith
    <2>4. MdEventFor("Add", o1, left) = e
      BY <1>6, <2>1 DEF MdEventFor
    <2>5. Settled(a, o) = MatchOutput(Joined(m.queues, x), Append(<<ev>> \o m.md, e), "None")
      BY <1>19, <1>22, <2>1, <2>2 DEF Settled
    <2>6. Settled(m, o1) = MatchOutput(Joined(m.queues, x), Append(m.md, e), "None")
      BY <1>6, <1>22, <2>1, <2>3, <2>4 DEF Settled
    <2>7. <<ev>> \o Append(m.md, e) = Append(<<ev>> \o m.md, e)
      <3>1. PICK S : S = Executions \cup {e}
        OBVIOUS
      <3>2. m.md \in Seq(S) /\ ev \in S /\ e \in S
        BY <1>7, <1>17, <3>1
      <3> QED
        BY <3>2, AheadAppends
    <2>8. PICK c, md, md1 : /\ c = Joined(m.queues, x) /\ md = Append(<<ev>> \o m.md, e)
                           /\ md1 = Append(m.md, e)
      OBVIOUS
    <2>9. Admitted(q, o).queues = c /\ Admitted(q, o).md = md
      BY <1>20, <2>5, <2>8 DEF MatchOutput
    <2>10. Admitted(q1, o1).queues = c /\ Admitted(q1, o1).md = md1
      BY <1>20, <2>6, <2>8 DEF MatchOutput
    <2>11. md = <<ev>> \o md1
      BY <2>7, <2>8, Zenon
    <2> QED
      BY <2>9, <2>10, <2>11, Zenon
  <1> QED
    BY <1>5, <1>21, <1>22, Zenon DEF BeginsWith

-----------------------------------------------------------------------------
(* The calls. *)

(* What a call is made with; its price may be outside the ladder. *)
Sent ==
  [order_id : OrderIds, account_id : Accounts, side : Sides, price : Int, qty : Nat,
   tif : TimesInForce]

(* What a call reports: MdEvents of accounts that sent something. *)
BookEvents ==
  [type : {"Add", "Cancel", "Execute"}, order_id : OrderIds, account_id : Accounts,
   side : Sides, price : Band, qty : Nat]

(* All that rests in q rested in q0 or is what is left of o. *)
StemsFromOr(q, q0, o) ==
  \A s \in Sides, p \in Band : \A k \in DOMAIN q[s][p] :
    \/ \E j \in DOMAIN q0[s][p] :
         /\ q[s][p][k].order_id = q0[s][p][j].order_id
         /\ q[s][p][k].account_id = q0[s][p][j].account_id
         /\ q[s][p][k].qty <= q0[s][p][j].qty
    \/ /\ s = o.side /\ p = o.price
       /\ q[s][p][k].order_id = o.order_id /\ q[s][p][k].account_id = o.account_id
       /\ q[s][p][k].qty <= o.qty

(* A call leaves a book in which nobody rests who did not before, but for o, *)
(* and tells what it did: the trade of everyone who left, but for those it   *)
(* dropped, and no trade or cancel of one who did not rest.                  *)
CallDoes(c, q, o, dropped) ==
  /\ c = [queues |-> c.queues, md |-> c.md, reject |-> c.reject]
  /\ c.reject \in BookRejects
  /\ GoodBook(c.queues) /\ c.md \in Seq(BookEvents) /\ Tells(c.md, q, c.queues)
  /\ StemsFromOr(c.queues, q, o)
  /\ \A id \in LiveIds(q) :
       \/ id \in dropped
       \/ id \in LiveIds(c.queues)
       \/ \E k \in DOMAIN c.md : c.md[k].type = "Execute" /\ c.md[k].order_id = id
  /\ \A k \in DOMAIN c.md : c.md[k].type # "Add" => c.md[k].order_id \in LiveIds(q)

LEMMA StemsOrLive ==
  ASSUME NEW q, NEW q0, NEW o, q \in QueueBooks, q0 \in QueueBooks, StemsFromOr(q, q0, o)
  PROVE  LiveIds(q) \subseteq LiveIds(q0) \cup {o.order_id}
  <1> SUFFICES ASSUME NEW id, NEW s, NEW p, NEW k, IsAt(q, id, s, p, k)
               PROVE  id = o.order_id \/ \E j : IsAt(q0, id, s, p, j)
    BY LiveIsAt
  <1> QED
    BY DEF IsAt, StemsFromOr

LEMMA StemsIsStemsOr ==
  ASSUME NEW q, NEW q0, NEW o, StemsFrom(q, q0)
  PROVE  StemsFromOr(q, q0, o)
  BY DEF StemsFrom, StemsFromOr

LEMMA StemsOrFurther ==
  ASSUME NEW q, NEW q1, NEW q0, NEW o, q \in QueueBooks, q1 \in QueueBooks,
         q0 \in QueueBooks, StemsFromOr(q, q1, o), StemsFrom(q1, q0)
  PROVE  StemsFromOr(q, q0, o)
  <1> SUFFICES ASSUME NEW s \in Sides, NEW p \in Band, NEW k \in DOMAIN q[s][p],
                      NEW i \in DOMAIN q1[s][p],
                      q[s][p][k].order_id = q1[s][p][i].order_id,
                      q[s][p][k].account_id = q1[s][p][i].account_id,
                      q[s][p][k].qty <= q1[s][p][i].qty
               PROVE  \E j \in DOMAIN q0[s][p] :
                        /\ q[s][p][k].order_id = q0[s][p][j].order_id
                        /\ q[s][p][k].account_id = q0[s][p][j].account_id
                        /\ q[s][p][k].qty <= q0[s][p][j].qty
    BY DEF StemsFromOr
  <1>2. PICK j \in DOMAIN q0[s][p] :
          /\ q1[s][p][i].order_id = q0[s][p][j].order_id
          /\ q1[s][p][i].account_id = q0[s][p][j].account_id
          /\ q1[s][p][i].qty <= q0[s][p][j].qty
    BY DEF StemsFrom
  <1>3. /\ q[s][p][k].qty \in Nat /\ q1[s][p][i].qty \in Nat /\ q0[s][p][j].qty \in Nat
    BY LineType
  <1> QED
    BY <1>2, <1>3

LEMMA RefusalType == ASSUME NEW live, NEW o PROVE AddRefusal(live, o) \in BookRejects
  BY DEF AddRefusal, BookRejects

(* Refusing an order leaves the book alone. *)
LEMMA AddCallRefuses ==
  ASSUME NEW q, NEW o, NEW c, c = AddCall(q, o)
  PROVE  /\ AddRefusal(LiveIds(q), o) # "None" =>
              c = [queues |-> q, md |-> <<>>, reject |-> AddRefusal(LiveIds(q), o)]
         /\ AddRefusal(LiveIds(q), o) = "None" =>
              /\ c = Admitted(q, o)
              /\ o.qty # 0 /\ o.price \in Band /\ o.order_id \notin LiveIds(q)
  <1>1. AddRefusal(LiveIds(q), o) = "None" =>
          o.qty # 0 /\ o.price \in Band /\ o.order_id \notin LiveIds(q)
    BY DEF AddRefusal, PriceInBand
  <1> QED
    BY <1>1 DEF AddCall, MatchOutput

(* Matching and resting what is left. *)
LEMMA AdmittedDoes ==
  ASSUME NEW q, GoodBook(q), NEW o \in Sent, o.price \in Band, o.order_id \notin LiveIds(q),
         NEW c, c = Admitted(q, o)
  PROVE  CallDoes(c, q, o, {}) /\ c.reject = "None"
  <1>1. PICK m : m = Matched(q, o)
    OBVIOUS
  <1>2. /\ o.order_id \in OrderIds /\ o.account_id \in Accounts /\ o.side \in Sides
        /\ o.qty \in Nat
    BY DEF Sent
  <1>3. Reached(m, q, o)
    BY <1>1, <1>2, MatchedReaches
  <1>4. /\ GoodBook(m.queues) /\ m.queues \in QueueBooks /\ q \in QueueBooks
        /\ StemsFrom(m.queues, q) /\ Tells(m.md, q, m.queues)
        /\ m.left \in Nat /\ m.left <= o.qty /\ m.md \in Seq(Executions)
        /\ \A id \in LiveIds(q) : \/ id \in LiveIds(m.queues)
                                  \/ \E k \in DOMAIN m.md : m.md[k].order_id = id
        /\ \A k \in DOMAIN m.md : m.md[k].order_id \in LiveIds(q)
    BY <1>3 DEF Reached, GoodBook
  <1>9. "None" \in BookRejects
    BY DEF BookRejects
  <1>5. c = Settled(m, o)
    BY <1>1 DEF Admitted
  <1>6. m.md \in Seq(BookEvents) /\ \A k \in DOMAIN m.md : m.md[k].type = "Execute"
    <2>1. \A k \in DOMAIN m.md : m.md[k] \in Executions
      BY <1>4
    <2>2. Executions \subseteq BookEvents
      BY DEF Executions, BookEvents
    <2>3. \A k \in DOMAIN m.md : m.md[k].type = "Execute"
      BY <2>1 DEF Executions
    <2> QED
      BY <1>4, <2>2, <2>3
  <1>7. CASE ~ (m.left > 0 /\ o.tif = "Gtc")
    <2>1. c = [queues |-> m.queues, md |-> m.md, reject |-> "None"]
      BY <1>5, <1>7 DEF Settled, MatchOutput
    <2>2. c.queues = m.queues /\ c.md = m.md /\ c.reject = "None"
      BY <2>1
    <2>3. StemsFromOr(c.queues, q, o)
      BY <1>4, <2>2, StemsIsStemsOr
    <2> QED
      BY <1>4, <1>6, <1>9, <2>1, <2>2, <2>3 DEF CallDoes
  <1>8. CASE m.left > 0 /\ o.tif = "Gtc"
    <2>1. PICK o1, b, ev, md :
            /\ o1 = [o EXCEPT !.qty = m.left] /\ b = Joined(m.queues, o1)
            /\ ev = MdEventFor("Add", o, m.left) /\ md = Append(m.md, ev)
      OBVIOUS
    <2>2. c = [queues |-> b, md |-> md, reject |-> "None"]
      BY <1>5, <1>8, <2>1 DEF Settled, MatchOutput
    <2>3. c.queues = b /\ c.md = md /\ c.reject = "None"
      BY <2>2
    <2>4. /\ o1.order_id = o.order_id /\ o1.account_id = o.account_id
          /\ o1.side = o.side /\ o1.price = o.price /\ o1.qty = m.left
      BY <2>1 DEF Sent
    <2>5. MayJoin(o1)
      BY <1>2, <1>4, <1>8, <2>4 DEF MayJoin
    <2>6. o1.order_id \notin LiveIds(m.queues)
      BY <1>4, <2>4, StemsLive
    <2>7. /\ GoodBook(b) /\ LiveIds(b) = LiveIds(m.queues) \cup {o1.order_id}
          /\ \A s \in Sides, p \in Band : \A k \in DOMAIN b[s][p] :
               \/ k \in DOMAIN m.queues[s][p] /\ b[s][p][k] = m.queues[s][p][k]
               \/ s = o1.side /\ p = o1.price /\ b[s][p][k] = EntryOf(o1)
      <3>1. PICK q1 : q1 = m.queues
        OBVIOUS
      <3>2. /\ GoodBook(b) /\ LiveIds(b) = LiveIds(q1) \cup {o1.order_id}
            /\ \A s \in Sides, p \in Band : \A k \in DOMAIN b[s][p] :
                 \/ k \in DOMAIN q1[s][p] /\ b[s][p][k] = q1[s][p][k]
                 \/ s = o1.side /\ p = o1.price /\ b[s][p][k] = EntryOf(o1)
        <4>1. GoodBook(q1) /\ o1.order_id \notin LiveIds(q1) /\ b = Joined(q1, o1)
          BY <1>4, <2>1, <2>6, <3>1
        <4> QED
          BY <2>5, <4>1, JoinedGood
      <3> QED
        BY <3>1, <3>2
    <2>8. ev \in BookEvents
      BY <1>2, <1>4, <2>1 DEF MdEventFor, BookEvents
    <2>9. /\ md \in Seq(BookEvents)
          /\ \A k \in DOMAIN m.md : k \in DOMAIN md /\ md[k] = m.md[k]
          /\ \A k \in DOMAIN md : \/ k \in DOMAIN m.md /\ md[k] = m.md[k]
                                  \/ md[k] = ev
      BY <1>6, <2>1, <2>8, Appending
    <2>12. \A k \in DOMAIN md : md[k].type # "Add" => md[k].order_id \in LiveIds(q)
      <3>1. ev.type = "Add"
        BY <2>1 DEF MdEventFor
      <3> QED
        BY <1>4, <2>9, <3>1
    <2>10. StemsFromOr(b, q, o)
      <3> SUFFICES ASSUME NEW s \in Sides, NEW p \in Band, NEW k \in DOMAIN b[s][p]
                   PROVE  \/ \E j \in DOMAIN q[s][p] :
                               /\ b[s][p][k].order_id = q[s][p][j].order_id
                               /\ b[s][p][k].account_id = q[s][p][j].account_id
                               /\ b[s][p][k].qty <= q[s][p][j].qty
                          \/ /\ s = o.side /\ p = o.price
                             /\ b[s][p][k].order_id = o.order_id
                             /\ b[s][p][k].account_id = o.account_id
                             /\ b[s][p][k].qty <= o.qty
        BY DEF StemsFromOr
      <3>1. CASE k \in DOMAIN m.queues[s][p] /\ b[s][p][k] = m.queues[s][p][k]
        BY <1>4, <3>1 DEF StemsFrom
      <3>2. CASE s = o1.side /\ p = o1.price /\ b[s][p][k] = EntryOf(o1)
        BY <1>4, <2>4, <3>2 DEF EntryOf
      <3> QED
        BY <2>7, <3>1, <3>2
    <2>11. \A id \in LiveIds(q) :
             \/ id \in LiveIds(b)
             \/ \E k \in DOMAIN md : md[k].type = "Execute" /\ md[k].order_id = id
      BY <1>4, <1>6, <2>7, <2>9
    <2>13. BookStep(m.queues, ev, b)
      <3>1. /\ ev.type = "Add" /\ ev.order_id = o1.order_id /\ ev.account_id = o1.account_id
            /\ ev.side = o1.side /\ ev.price = o1.price /\ ev.qty = o1.qty
        BY <2>1, <2>4 DEF MdEventFor
      <3>2. MayJoin(ev) /\ b = Joined(m.queues, ev)
        BY <2>1, <2>5, <3>1 DEF MayJoin, Joined
      <3> QED
        BY <2>6, <3>1, <3>2 DEF BookStep
    <2>14. Tells(md, q, b)
      <3>1. PICK told, left : told = m.md /\ left = m.queues
        OBVIOUS
      <3>2. /\ told \in Seq(BookEvents) /\ Tells(told, q, left) /\ BookStep(left, ev, b)
            /\ GoodBook(b) /\ md = Append(told, ev)
        BY <1>4, <1>6, <2>1, <2>7, <2>13, <3>1
      <3>3. MayFollow(ev, told)
        <4>1. ev.order_id = o.order_id
          BY <2>1 DEF MdEventFor
        <4> QED
          BY <1>4, <1>6, <3>1, <4>1 DEF MayFollow
      <3> QED
        BY <3>2, <3>3, OneMoreTells
    <2> QED
      BY <1>9, <2>2, <2>3, <2>7, <2>9, <2>10, <2>11, <2>12, <2>14 DEF CallDoes
  <1> QED
    BY <1>7, <1>8

LEMMA AddCallDoes ==
  ASSUME NEW q, GoodBook(q), NEW o \in Sent, NEW c, c = AddCall(q, o)
  PROVE  /\ CallDoes(c, q, o, {})
         /\ c.reject = AddRefusal(LiveIds(q), o)
         /\ c.reject # "None" => c.queues = q /\ c.md = <<>>
  <1>1. CASE AddRefusal(LiveIds(q), o) # "None"
    <2>1. c = [queues |-> q, md |-> <<>>, reject |-> AddRefusal(LiveIds(q), o)]
      BY <1>1, AddCallRefuses
    <2>2. c.queues = q /\ c.md = <<>> /\ c.reject = AddRefusal(LiveIds(q), o)
      BY <2>1
    <2>3. StemsFromOr(q, q, o)
      BY StemsFromItself, StemsIsStemsOr DEF GoodBook
    <2>4. <<>> \in Seq(BookEvents) /\ \A k \in DOMAIN <<>> : FALSE
      OBVIOUS
    <2> QED
      BY <2>1, <2>2, <2>3, <2>4, RefusalType, NothingTells DEF CallDoes
  <1>2. CASE AddRefusal(LiveIds(q), o) = "None"
    BY <1>2, AddCallRefuses, AdmittedDoes
  <1> QED
    BY <1>1, <1>2

LEMMA CancelCallDoes ==
  ASSUME NEW q, GoodBook(q), NEW id, NEW c, c = CancelCall(q, id)
  PROVE  /\ id \notin LiveIds(q) =>
              c = [queues |-> q, md |-> <<>>, reject |-> "UnknownOrder"]
         /\ id \in LiveIds(q) =>
              /\ c.queues = Without(q, id) /\ c.reject = "None"
              /\ c.md \in Seq(BookEvents)
              /\ \A k \in DOMAIN c.md : c.md[k].order_id = id /\ c.md[k].type = "Cancel"
              /\ Tells(c.md, q, c.queues)
              /\ GoodBook(c.queues) /\ StemsFrom(c.queues, q)
              /\ LiveIds(c.queues) = LiveIds(q) \ {id}
  <1>1. CASE id \notin LiveIds(q)
    BY <1>1 DEF CancelCall, MatchOutput
  <1>2. CASE id \in LiveIds(q)
    <2>1. PICK o, b, ev : /\ o = OrderOf(q, id) /\ b = Without(q, id)
                          /\ ev = MdEventFor("Cancel", o, o.qty)
      OBVIOUS
    <2>2. c = [queues |-> b, md |-> <<ev>>, reject |-> "None"]
      BY <1>2, <2>1 DEF CancelCall, MatchOutput
    <2>3. c.queues = b /\ c.md = <<ev>> /\ c.reject = "None"
      BY <2>2
    <2>4. PICK s, p, k : IsAt(q, id, s, p, k)
      BY <1>2, LiveIsAt DEF GoodBook
    <2>5. o = RestingAs(q[s][p][k], s, p)
      BY <2>1, <2>4, PlaceFound
    <2>6. /\ s \in Sides /\ p \in Band /\ q[s][p][k].order_id \in OrderIds
          /\ q[s][p][k].account_id \in Accounts /\ q[s][p][k].qty \in Nat
      BY <2>4, LineType DEF IsAt, GoodBook
    <2>7. ev \in BookEvents /\ ev.order_id = id /\ ev.type = "Cancel"
      BY <2>1, <2>4, <2>5, <2>6 DEF MdEventFor, BookEvents, RestingAs, IsAt
    <2>8. GoodBook(b) /\ StemsFrom(b, q) /\ LiveIds(b) = LiveIds(q) \ {id}
      BY <1>2, <2>1, WithoutGood
    <2>9. Tells(c.md, q, b)
      <3>1. BookStep(q, ev, b)
        <4>1. IsOf(ev, o) /\ ev.qty = o.qty
          BY <2>1 DEF MdEventFor, IsOf
        <4> QED
          BY <1>2, <2>1, <2>7, <4>1 DEF BookStep
      <3>2. PICK none : none = <<>>
        OBVIOUS
      <3>3. none \in Seq(BookEvents) /\ Tells(none, q, q) /\ c.md = Append(none, ev)
        BY <2>3, <3>2, NothingTells
      <3>4. MayFollow(ev, none)
        BY <3>2 DEF MayFollow
      <3> QED
        BY <2>8, <3>1, <3>3, <3>4, OneMoreTells
    <2> QED
      BY <1>2, <2>1, <2>3, <2>7, <2>8, <2>9
  <1> QED
    BY <1>1, <1>2

(* A replacement that is let in leaves the old id only if the new one is it. *)
LEMMA ReplaceCallDoes ==
  ASSUME NEW q, GoodBook(q), NEW old, NEW o \in Sent, NEW c, c = ReplaceCall(q, old, o),
         NEW dropped, dropped = {old}, NEW others, others = LiveIds(q) \ {old}
  PROVE  /\ CallDoes(c, q, o, dropped)
         /\ o.price \in Band /\ old \in LiveIds(q) =>
              /\ c.reject = AddRefusal(others, o)
              /\ LiveIds(c.queues) \subseteq others \cup {o.order_id}
  <1>0. /\ StemsFromOr(q, q, o) /\ q \in QueueBooks
        /\ <<>> \in Seq(BookEvents) /\ \A k \in DOMAIN <<>> : FALSE
    BY StemsFromItself, StemsIsStemsOr DEF GoodBook
  <1>1. CASE o.price \notin Band \/ old \notin LiveIds(q)
    <2>1. PICK why \in BookRejects : c = [queues |-> q, md |-> <<>>, reject |-> why]
      <3>1. CASE o.price \notin Band
        BY <3>1 DEF ReplaceCall, PriceInBand, MatchOutput, BookRejects
      <3>2. CASE o.price \in Band /\ old \notin LiveIds(q)
        <4>1. PICK x : x = CancelCall(q, old)
          OBVIOUS
        <4>2. x = [queues |-> q, md |-> <<>>, reject |-> "UnknownOrder"]
          BY <3>2, <4>1, CancelCallDoes
        <4>3. c = x
          BY <3>2, <4>1, <4>2 DEF ReplaceCall, PriceInBand, AddAfter
        <4> QED
          BY <4>2, <4>3 DEF BookRejects
      <3> QED
        BY <1>1, <3>1, <3>2
    <2>2. c.queues = q /\ c.md = <<>>
      BY <2>1
    <2>3. /\ c = [queues |-> c.queues, md |-> c.md, reject |-> c.reject]
          /\ c.reject \in BookRejects
      BY <2>1
    <2> QED
      BY <1>0, <1>1, <2>2, <2>3, NothingTells DEF CallDoes
  <1>2. CASE o.price \in Band /\ old \in LiveIds(q)
    <2>1. PICK x, b, a : x = CancelCall(q, old) /\ b = x.queues /\ a = AddCall(b, o)
      OBVIOUS
    <2>2. /\ x.reject = "None" /\ x.md \in Seq(BookEvents) /\ Tells(x.md, q, b)
          /\ \A k \in DOMAIN x.md : x.md[k].order_id = old /\ x.md[k].type = "Cancel"
          /\ GoodBook(b) /\ StemsFrom(b, q) /\ LiveIds(b) = LiveIds(q) \ {old}
      BY <1>2, <2>1, CancelCallDoes
    <2>3. c = [a EXCEPT !.md = x.md \o @]
      BY <1>2, <2>1, <2>2 DEF ReplaceCall, PriceInBand, AddAfter
    <2>4. CallDoes(a, b, o, {}) /\ a.reject = AddRefusal(LiveIds(b), o)
      <3>1. GoodBook(b) /\ a = AddCall(b, o)
        BY <2>1, <2>2
      <3> QED
        BY <3>1, AddCallDoes
    <2>5. /\ a = [queues |-> a.queues, md |-> a.md, reject |-> a.reject]
          /\ a.reject \in BookRejects
          /\ a.md \in Seq(BookEvents) /\ GoodBook(a.queues) /\ StemsFromOr(a.queues, b, o)
          /\ Tells(a.md, b, a.queues)
      BY <2>4 DEF CallDoes
    <2>6. PICK md : md = x.md \o a.md
      OBVIOUS
    <2>7. c = [queues |-> a.queues, md |-> md, reject |-> a.reject]
      BY <2>3, <2>5, <2>6
    <2>8. c.queues = a.queues /\ c.md = md /\ c.reject = a.reject
      BY <2>7
    <2>9. md \in Seq(BookEvents)
      BY <2>2, <2>5, <2>6
    <2>10. StemsFromOr(a.queues, q, o)
      BY <1>0, <2>2, <2>5, StemsOrFurther DEF GoodBook
    <2>11. /\ \A k \in DOMAIN a.md : \E j \in DOMAIN md : md[j] = a.md[k]
           /\ \A j \in DOMAIN md : \/ \E i \in DOMAIN x.md : md[j] = x.md[i]
                                   \/ \E k \in DOMAIN a.md : md[j] = a.md[k]
      <3>1. /\ Len(md) = Len(x.md) + Len(a.md)
            /\ \A j \in 1 .. Len(x.md) + Len(a.md) :
                 md[j] = IF j <= Len(x.md) THEN x.md[j] ELSE a.md[j - Len(x.md)]
        BY <2>2, <2>5, <2>6, ConcatProperties
      <3>2. /\ Len(x.md) \in Nat /\ Len(a.md) \in Nat /\ DOMAIN a.md = 1 .. Len(a.md)
            /\ DOMAIN md = 1 .. Len(md)
        BY <2>2, <2>5, <2>9
      <3>3. PICK m, n : m = Len(x.md) /\ n = Len(a.md)
        OBVIOUS
      <3>4. /\ m \in Nat /\ n \in Nat /\ DOMAIN a.md = 1 .. n /\ DOMAIN md = 1 .. m + n
            /\ DOMAIN x.md = 1 .. m
        BY <2>2, <3>1, <3>2, <3>3
      <3>5. ASSUME NEW k \in 1 .. n PROVE \E j \in 1 .. m + n : md[j] = a.md[k]
        <4>1. PICK j : j = k + m
          OBVIOUS
        <4>2. j \in 1 .. m + n /\ ~ (j <= m) /\ j - m = k
          BY <3>4, <4>1
        <4>3. md[j] = a.md[j - m]
          BY <3>1, <3>3, <4>2
        <4> QED
          BY <4>2, <4>3
      <3>7. \A j \in 1 .. m + n : md[j] = IF j <= m THEN x.md[j] ELSE a.md[j - m]
        BY <3>1, <3>3
      <3>6. ASSUME NEW j \in 1 .. m + n
            PROVE  \/ \E i \in 1 .. m : md[j] = x.md[i]
                   \/ \E k \in 1 .. n : md[j] = a.md[k]
        <4>1. CASE j <= m
          <5>1. j \in 1 .. m /\ md[j] = x.md[j]
            BY <3>4, <3>7, <4>1
          <5> QED
            BY <5>1
        <4>2. CASE ~ (j <= m)
          <5>1. j - m \in 1 .. n /\ md[j] = a.md[j - m]
            BY <3>4, <3>7, <4>2
          <5> QED
            BY <5>1
        <4> QED
          BY <4>1, <4>2
      <3> QED
        BY <3>4, <3>5, <3>6
    <2>15. \A j \in DOMAIN md : md[j].type # "Add" => md[j].order_id \in LiveIds(q)
      <3>1. \A k \in DOMAIN a.md : a.md[k].type # "Add" => a.md[k].order_id \in LiveIds(b)
        BY <2>4 DEF CallDoes
      <3> QED
        BY <1>2, <2>2, <2>11, <3>1
    <2>12. \A id \in LiveIds(q) :
             \/ id \in {old}
             \/ id \in LiveIds(a.queues)
             \/ \E k \in DOMAIN md : md[k].type = "Execute" /\ md[k].order_id = id
      BY <2>2, <2>4, <2>11 DEF CallDoes
    <2>16. Tells(md, q, a.queues)
      <3>1. PICK md1, md2 : md1 = x.md /\ md2 = a.md
        OBVIOUS
      <3>2. /\ md1 \in Seq(BookEvents) /\ md2 \in Seq(BookEvents) /\ md = md1 \o md2
            /\ \A k \in DOMAIN md1 : md1[k].type = "Cancel"
            /\ Tells(md1, q, b) /\ Tells(md2, b, a.queues)
        BY <2>2, <2>5, <2>6, <3>1
      <3> QED
        BY <3>2, BothTell
    <2>13. CallDoes(c, q, o, {old})
      BY <2>5, <2>7, <2>8, <2>9, <2>10, <2>12, <2>15, <2>16 DEF CallDoes
    <2>14. LiveIds(a.queues) \subseteq LiveIds(b) \cup {o.order_id}
      BY <2>2, <2>5, StemsOrLive DEF GoodBook
    <2> QED
      BY <1>2, <2>2, <2>4, <2>8, <2>13, <2>14
  <1> QED
    BY <1>1, <1>2

-----------------------------------------------------------------------------
(* The resting orders as a set, and what an event makes of it. *)

OrdersIn(q) == {OrderOf(q, id) : id \in LiveIds(q)}

LEMMA OrdersInIs ==
  ASSUME NEW q, GoodBook(q), NEW x
  PROVE  x \in OrdersIn(q) <=>
           \E s \in Sides, p \in Band :
             \E k \in DOMAIN q[s][p] : x = RestingAs(q[s][p][k], s, p)
  <1>1. ASSUME NEW id \in LiveIds(q), x = OrderOf(q, id)
        PROVE  \E s \in Sides, p \in Band :
                 \E k \in DOMAIN q[s][p] : x = RestingAs(q[s][p][k], s, p)
    <2>1. PICK s, p, k : IsAt(q, id, s, p, k)
      BY LiveIsAt DEF GoodBook
    <2> QED
      BY <1>1, <2>1, PlaceFound DEF IsAt
  <1>2. ASSUME NEW s \in Sides, NEW p \in Band, NEW k \in DOMAIN q[s][p],
               x = RestingAs(q[s][p][k], s, p)
        PROVE  x \in OrdersIn(q)
    <2>1. PICK id : id = q[s][p][k].order_id
      OBVIOUS
    <2>2. IsAt(q, id, s, p, k)
      BY <2>1 DEF IsAt
    <2>3. id \in LiveIds(q) /\ OrderOf(q, id) = x
      BY <1>2, <2>2, PlaceFound
    <2> QED
      BY <2>3 DEF OrdersIn
  <1> QED
    BY <1>1, <1>2 DEF OrdersIn

(* The order of an id is the only one with it. *)
LEMMA OrderIs ==
  ASSUME NEW q, GoodBook(q), NEW id \in LiveIds(q), NEW x, x = OrderOf(q, id)
  PROVE  /\ x = [order_id |-> id, account_id |-> x.account_id, side |-> x.side,
                 price |-> x.price, qty |-> x.qty]
         /\ x.order_id = id /\ x.account_id \in Accounts /\ x.side \in Sides
         /\ x.price \in Band /\ x.qty \in Nat \ {0}
         /\ x \in OrdersIn(q)
         /\ \A y \in OrdersIn(q) : y.order_id = id => y = x
  <1>1. ASSUME NEW i \in LiveIds(q), NEW y, y = OrderOf(q, i)
        PROVE  /\ y = [order_id |-> i, account_id |-> y.account_id, side |-> y.side,
                       price |-> y.price, qty |-> y.qty]
               /\ y.order_id = i /\ y.account_id \in Accounts /\ y.side \in Sides
               /\ y.price \in Band /\ y.qty \in Nat \ {0}
    <2>1. PICK s, p, k : IsAt(q, i, s, p, k)
      BY LiveIsAt DEF GoodBook
    <2>2. y = RestingAs(q[s][p][k], s, p)
      BY <1>1, <2>1, PlaceFound
    <2>3. /\ s \in Sides /\ p \in Band /\ q[s][p][k].order_id = i
          /\ q[s][p][k].account_id \in Accounts /\ q[s][p][k].qty \in Nat \ {0}
      BY <2>1, LineType DEF IsAt, GoodBook
    <2> QED
      BY <2>2, <2>3 DEF RestingAs
  <1>2. x \in OrdersIn(q)
    BY DEF OrdersIn
  <1>3. ASSUME NEW y \in OrdersIn(q), y.order_id = id PROVE y = x
    <2>1. PICK i \in LiveIds(q) : y = OrderOf(q, i)
      BY DEF OrdersIn
    <2>2. y.order_id = i
      BY <1>1, <2>1
    <2> QED
      BY <1>3, <2>1, <2>2
  <1> QED
    BY <1>1, <1>2, <1>3

(* What is in the set of orders is the order of its id. *)
LEMMA OrdersAreLive ==
  ASSUME NEW q, GoodBook(q), NEW x \in OrdersIn(q)
  PROVE  x.order_id \in LiveIds(q) /\ x = OrderOf(q, x.order_id)
  <1>1. PICK id \in LiveIds(q) : x = OrderOf(q, id)
    BY DEF OrdersIn
  <1>2. x.order_id = id
    BY <1>1, OrderIs
  <1> QED
    BY <1>1, <1>2

LEMMA CarriedOrders ==
  ASSUME NEW q, GoodBook(q), NEW c, GoodBook(c), NEW id, Carries(q, c, id),
         NEW x \in OrdersIn(q), x.order_id # id
  PROVE  x \in OrdersIn(c)
  <1>1. PICK s \in Sides, p \in Band :
          \E k \in DOMAIN q[s][p] : x = RestingAs(q[s][p][k], s, p)
    BY OrdersInIs
  <1>2. PICK k \in DOMAIN q[s][p] : x = RestingAs(q[s][p][k], s, p)
    BY <1>1
  <1>3. q[s][p][k].order_id # id
    BY <1>2 DEF RestingAs
  <1>4. PICK j \in DOMAIN c[s][p] : c[s][p][j] = q[s][p][k]
    BY <1>3 DEF Carries
  <1>5. x = RestingAs(c[s][p][j], s, p)
    BY <1>2, <1>4
  <1> QED
    BY <1>5, OrdersInIs

(* The orders after an event on id, but for id's own. *)
LEMMA OtherOrders ==
  ASSUME NEW q, GoodBook(q), NEW c, GoodBook(c), NEW id, Carries(q, c, id), Carries(c, q, id),
         NEW x, x.order_id # id
  PROVE  x \in OrdersIn(c) <=> x \in OrdersIn(q)
  BY CarriedOrders

(* The event ev lets the order x join, leave, or become y with less to fill. *)
Joins(q, ev, c, x) ==
  /\ ev.type = "Add" /\ IsOf(ev, x) /\ x.qty = ev.qty
  /\ x \notin OrdersIn(q) /\ OrdersIn(c) = OrdersIn(q) \cup {x}

Leaves(q, ev, c, x) ==
  /\ ev.type \in {"Cancel", "Execute"} /\ ev.order_id \notin LiveIds(c)
  /\ IsOf(ev, x) /\ x.qty = ev.qty
  /\ x \in OrdersIn(q) /\ OrdersIn(c) = OrdersIn(q) \ {x}

Shrinks(q, ev, c, x, y) ==
  /\ ev.type = "Execute" /\ ev.order_id \in LiveIds(c)
  /\ IsOf(ev, x) /\ IsOf(ev, y) /\ x.qty = y.qty + ev.qty
  /\ x \in OrdersIn(q) /\ y \notin OrdersIn(q) /\ OrdersIn(c) = (OrdersIn(q) \ {x}) \cup {y}

LEMMA JoinedOrders ==
  ASSUME NEW q, GoodBook(q), NEW ev, MayJoin(ev), ev.order_id \notin LiveIds(q),
         ev.type = "Add", NEW c, c = Joined(q, ev)
  PROVE  \E x : Joins(q, ev, c, x)
  <1>1. /\ GoodBook(c) /\ LiveIds(c) = LiveIds(q) \cup {ev.order_id}
        /\ OrderOf(c, ev.order_id) = RestingAs(ev, ev.side, ev.price)
        /\ Carries(q, c, ev.order_id) /\ Carries(c, q, ev.order_id)
    BY JoinedGood
  <1>2. PICK id, x : id = ev.order_id /\ x = RestingAs(ev, ev.side, ev.price)
    OBVIOUS
  <1>3. IsOf(ev, x) /\ x.qty = ev.qty /\ x.order_id = id
    BY <1>2 DEF IsOf, RestingAs
  <1>4. x \notin OrdersIn(q)
    BY <1>2, <1>3, OrdersAreLive
  <1>5. x \in OrdersIn(c) /\ \A y \in OrdersIn(c) : y.order_id = id => y = x
    <2>1. id \in LiveIds(c) /\ x = OrderOf(c, id)
      BY <1>1, <1>2
    <2> QED
      BY <1>1, <2>1, OrderIs
  <1>6. ASSUME NEW y PROVE y \in OrdersIn(c) <=> y \in OrdersIn(q) \cup {x}
    <2>1. CASE y.order_id = id
      <3>1. y \notin OrdersIn(q)
        BY <1>2, <2>1, OrdersAreLive
      <3> QED
        BY <1>5, <2>1, <3>1
    <2>2. CASE y.order_id # id
      <3>1. y \in OrdersIn(c) <=> y \in OrdersIn(q)
        BY <1>1, <1>2, <2>2, OtherOrders
      <3> QED
        BY <1>3, <2>2, <3>1
    <2> QED
      BY <2>1, <2>2
  <1>7. OrdersIn(c) = OrdersIn(q) \cup {x}
    BY <1>6
  <1> QED
    BY <1>3, <1>4, <1>7 DEF Joins

LEMMA WithoutOrders ==
  ASSUME NEW q, GoodBook(q), NEW id \in LiveIds(q), NEW x, x = OrderOf(q, id),
         NEW c, c = Without(q, id)
  PROVE  x \in OrdersIn(q) /\ id \notin LiveIds(c) /\ OrdersIn(c) = OrdersIn(q) \ {x}
  <1>1. /\ GoodBook(c) /\ LiveIds(c) = LiveIds(q) \ {id}
        /\ Carries(q, c, id) /\ Carries(c, q, id)
    BY WithoutGood
  <1>2. /\ x.order_id = id /\ x \in OrdersIn(q)
        /\ \A y \in OrdersIn(q) : y.order_id = id => y = x
    BY OrderIs
  <1>3. ASSUME NEW y PROVE y \in OrdersIn(c) <=> y \in OrdersIn(q) \ {x}
    <2>1. CASE y.order_id = id
      <3>1. y \notin OrdersIn(c)
        BY <1>1, <2>1, OrdersAreLive
      <3> QED
        BY <1>2, <2>1, <3>1
    <2>2. CASE y.order_id # id
      <3>1. y \in OrdersIn(c) <=> y \in OrdersIn(q)
        BY <1>1, <2>2, OtherOrders
      <3> QED
        BY <1>2, <2>2, <3>1
    <2> QED
      BY <2>1, <2>2
  <1> QED
    BY <1>1, <1>2, <1>3

LEMMA ShrunkOrders ==
  ASSUME NEW q, GoodBook(q), NEW ev, ev.type = "Execute", NEW id, id = ev.order_id,
         id \in LiveIds(q), NEW n \in Nat \ {0}, n = ev.qty, NEW x, x = OrderOf(q, id),
         IsOf(ev, x), ~ (x.qty <= n), NEW c, c = Reduced(q, id, n)
  PROVE  \E y : Shrinks(q, ev, c, x, y)
  <1>1. PICK y : y = [x EXCEPT !.qty = @ - n]
    OBVIOUS
  <1>2. /\ GoodBook(c) /\ LiveIds(c) = LiveIds(q) /\ OrderOf(c, id) = y
        /\ Carries(q, c, id) /\ Carries(c, q, id)
    BY <1>1, ReducedGood
  <1>3. /\ x = [order_id |-> id, account_id |-> x.account_id, side |-> x.side,
                price |-> x.price, qty |-> x.qty]
        /\ x.order_id = id /\ x.qty \in Nat /\ x \in OrdersIn(q)
        /\ \A z \in OrdersIn(q) : z.order_id = id => z = x
    BY OrderIs
  <1>4. /\ y.order_id = x.order_id /\ y.account_id = x.account_id /\ y.side = x.side
        /\ y.price = x.price /\ y.qty = x.qty - n
    BY <1>1, <1>3
  <1>5. IsOf(ev, y) /\ x.qty = y.qty + n /\ y.qty # x.qty
    BY <1>3, <1>4 DEF IsOf
  <1>6. y \in OrdersIn(c) /\ \A z \in OrdersIn(c) : z.order_id = id => z = y
    BY <1>2, OrderIs
  <1>7. y \notin OrdersIn(q)
    BY <1>3, <1>4, <1>5
  <1>8. ASSUME NEW z PROVE z \in OrdersIn(c) <=> z \in (OrdersIn(q) \ {x}) \cup {y}
    <2>1. CASE z.order_id = id
      BY <1>3, <1>6, <2>1
    <2>2. CASE z.order_id # id
      <3>1. z \in OrdersIn(c) <=> z \in OrdersIn(q)
        BY <1>2, <2>2, OtherOrders
      <3> QED
        BY <1>3, <1>4, <2>2, <3>1
    <2> QED
      BY <2>1, <2>2
  <1>9. OrdersIn(c) = (OrdersIn(q) \ {x}) \cup {y}
    BY <1>8
  <1> QED
    BY <1>2, <1>3, <1>5, <1>7, <1>9 DEF Shrinks

(* An event changes one order. *)
LEMMA StepOrders ==
  ASSUME NEW q, GoodBook(q), NEW ev, NEW c, BookStep(q, ev, c)
  PROVE  \E x : \/ Joins(q, ev, c, x) \/ Leaves(q, ev, c, x)
                \/ \E y : Shrinks(q, ev, c, x, y)
  <1>1. PICK id, n, x : id = ev.order_id /\ n = ev.qty /\ x = OrderOf(q, id)
    OBVIOUS
  <1>2. CASE /\ ev.type = "Add" /\ MayJoin(ev) /\ ev.order_id \notin LiveIds(q)
             /\ c = Joined(q, ev)
    BY <1>2, JoinedOrders
  <1>3. CASE /\ ev.type = "Execute" /\ id \in LiveIds(q) /\ n \in Nat \ {0}
             /\ IsOf(ev, x) /\ n <= x.qty /\ c = Reduced(q, id, n)
    <2>1. CASE x.qty <= n
      <3>1. c = Without(q, id)
        BY <1>1, <2>1, <1>3 DEF Reduced
      <3>2. x \in OrdersIn(q) /\ id \notin LiveIds(c) /\ OrdersIn(c) = OrdersIn(q) \ {x}
        BY <1>1, <1>3, <3>1, WithoutOrders
      <3>3. x.qty = n
        <4>1. x.qty \in Nat
          BY <1>1, <1>3, OrderIs
        <4> QED
          BY <1>3, <2>1, <4>1
      <3>4. Leaves(q, ev, c, x)
        BY <1>1, <1>3, <3>2, <3>3 DEF Leaves
      <3> QED
        BY <3>4
    <2>2. CASE ~ (x.qty <= n)
      <3>1. \E y : Shrinks(q, ev, c, x, y)
        BY <1>1, <1>3, <2>2, ShrunkOrders
      <3> QED
        BY <3>1
    <2> QED
      BY <2>1, <2>2
  <1>4. CASE /\ ev.type = "Cancel" /\ id \in LiveIds(q)
             /\ IsOf(ev, x) /\ n = x.qty /\ c = Without(q, id)
    <2>1. x \in OrdersIn(q) /\ id \notin LiveIds(c) /\ OrdersIn(c) = OrdersIn(q) \ {x}
      BY <1>1, <1>4, WithoutOrders
    <2>2. Leaves(q, ev, c, x)
      BY <1>1, <1>4, <2>1 DEF Leaves
    <2> QED
      BY <2>2
  <1> QED
    BY <1>1, <1>2, <1>3, <1>4 DEF BookStep
=============================================================================
