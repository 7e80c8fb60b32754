---------------------------- MODULE LadderBitmap ----------------------------
(***************************************************************************)
(* The occupied levels of a book as OrderBook keeps them: one bitmap of    *)
(* words per side, the cached best levels, the scans for the lowest and    *)
(* the highest bit, and the walk of checksum() from level to level.  They  *)
(* go along with a book of OrderBook, which has sets of levels instead.  A *)
(* word is the number its bits make.                                       *)
(***************************************************************************)
EXTENDS OrderBook

LOCAL Seqs == INSTANCE SequencesExt
LOCAL INSTANCE FiniteSetsExt    \* Min, Max

CONSTANT WordBits     \* bits_per_word, 64 in the code

ASSUME WordAssumption == WordBits \in Nat \ {0}

VARIABLE ladder   \* [bitmap, best]: bid_bitmap_ and ask_bitmap_, best_bid_idx_
                  \* and best_ask_idx_, by side

ladderVars == <<vars, ladder>>

level_count == MaxPrice - MinPrice + 1

Words == 0 .. (level_count + WordBits - 1) \div WordBits - 1

NoBit == -1    \* std::nullopt

-----------------------------------------------------------------------------
IsSet(word, b) == (word \div 2 ^ b) % 2 = 1

HasBit(words, idx) == IsSet(words[idx \div WordBits], idx % WordBits)

(* |= and &= ~ with a mask of one bit. *)
Raised(words, idx) ==
  [words EXCEPT ![idx \div WordBits] =
     IF HasBit(words, idx) THEN @ ELSE @ + 2 ^ (idx % WordBits)]

Lowered(words, idx) ==
  [words EXCEPT ![idx \div WordBits] =
     IF HasBit(words, idx) THEN @ - 2 ^ (idx % WordBits) ELSE @]

(* std::countr_zero, and 63 - std::countl_zero, of a word that is not zero. *)
LowBit(word) == Min({b \in 0 .. WordBits - 1 : IsSet(word, b)})
HighBit(word) == Max({b \in 0 .. WordBits - 1 : IsSet(word, b)})

(* Mutant: the scan ends one word too early. *)
FindLowestButLastWord(words) ==
  LET found == {w \in Words \ {Max(Words)} : words[w] # 0}
  IN  IF found = {} THEN NoBit ELSE Min(found) * WordBits + LowBit(words[Min(found)])

(* The scans go word by word, and over one whose bit is past the last level. *)
FindLowestOccupied(words) ==
  LET index(w) == w * WordBits + LowBit(words[w])
      found == {w \in Words : words[w] # 0 /\ index(w) < level_count}
  IN  IF found = {} THEN NoBit ELSE index(Min(found))

FindHighestOccupied(words) ==
  LET index(w) == w * WordBits + HighBit(words[w])
      found == {w \in Words : words[w] # 0 /\ index(w) < level_count}
  IN  IF found = {} THEN NoBit ELSE index(Max(found))

BestOf(side, words) ==
  IF side = "Buy" THEN FindHighestOccupied(words) ELSE FindLowestOccupied(words)

(* Mutant: --j > 0, which ends before it looks at level 0. *)
NextBelowPredecremented(words, idx) ==
  LET scan[j \in 0 .. level_count] ==
        IF j <= 1 THEN NoBit ELSE IF HasBit(words, j - 1) THEN j - 1 ELSE scan[j - 1]
  IN  scan[idx]

(* checksum goes bit by bit to the next level, down for bids: the unsigned j is *)
(* compared with 0 and then counted down, so it ends at 0 and does not wrap, ... *)
NextBelow(words, idx) ==
  LET scan[j \in 0 .. level_count] ==
        IF j = 0 THEN NoBit ELSE IF HasBit(words, j - 1) THEN j - 1 ELSE scan[j - 1]
  IN  scan[idx]

(* ... and up for asks. *)
NextAbove(words, idx) ==
  LET scan[j \in 0 .. level_count] ==
        IF j = level_count THEN NoBit ELSE IF HasBit(words, j) THEN j ELSE scan[j + 1]
  IN  scan[idx + 1]

NextOccupied(side, idx) ==
  IF side = "Buy" THEN NextBelow(ladder.bitmap[side], idx)
  ELSE NextAbove(ladder.bitmap[side], idx)

(* The levels checksum visits. *)
Visited(side) ==
  LET from[n \in 0 .. level_count, idx \in NoBit .. level_count] ==
        IF idx = NoBit \/ n = 0 THEN <<>>
        ELSE <<idx>> \o from[n - 1, NextOccupied(side, idx)]
  IN  from[level_count, BestOf(side, ladder.bitmap[side])]

-----------------------------------------------------------------------------
(* set_occupied, when a level gets its first order. *)
WithLevel(ld, side, idx) ==
  [bitmap |-> [ld.bitmap EXCEPT ![side] = Raised(@, idx)],
   best |-> [ld.best EXCEPT ![side] =
               IF @ = NoBit \/ (side = "Buy" /\ idx > @) \/ (side = "Sell" /\ idx < @)
               THEN idx ELSE @]]

(* clear_occupied, when a level loses its last order. *)
WithoutLevel(ld, side, idx) ==
  LET words == Lowered(ld.bitmap[side], idx)
  IN  [bitmap |-> [ld.bitmap EXCEPT ![side] = words],
       best |-> [ld.best EXCEPT ![side] = IF @ = idx THEN BestOf(side, words) ELSE @]]

LadderInit ==
  /\ Init
  /\ ladder = [bitmap |-> [s \in Sides |-> [w \in Words |-> 0]],
               best |-> [s \in Sides |-> NoBit]]

(* A step of the book fills at most one level or empties at most one. *)
LadderNext ==
  /\ Next
  /\ LET filled(side) == book'.occupied[side] \ book.occupied[side]
         emptied(side) == book.occupied[side] \ book'.occupied[side]
     IN  \/ \E side \in Sides : \E idx \in filled(side) :
               ladder' = WithLevel(ladder, side, idx)
         \/ \E side \in Sides : \E idx \in emptied(side) :
               ladder' = WithoutLevel(ladder, side, idx)
         \/ book'.occupied = book.occupied /\ UNCHANGED ladder

LadderSpec == LadderInit /\ [][LadderNext]_ladderVars /\ Fairness

-----------------------------------------------------------------------------
(***************************************************************************)
(* The words have the levels of the book's sets and no others, and the     *)
(* best level found from words is the best of the set, across words and in *)
(* a last word that is not full (set_occupied, clear_occupied and the two  *)
(* scans).                                                                 *)
(***************************************************************************)
WordsAgree ==
  \A side \in Sides :
    /\ book.occupied[side] = {idx \in 0 .. level_count - 1 : HasBit(ladder.bitmap[side], idx)}
    /\ book.best[side] = ladder.best[side]

(***************************************************************************)
(* checksum() visits every occupied level of a side once, from the best    *)
(* to the worst: two books with other levels hash other sequences.         *)
(***************************************************************************)
WalkVisitsAll ==
  \A side \in Sides :
    Visited(side) = Seqs!SetToSortSeq(book.occupied[side], LAMBDA i, j : Better(side, i, j))
=============================================================================
