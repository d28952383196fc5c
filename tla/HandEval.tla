------------------------------ MODULE HandEval ------------------------------
(***************************************************************************)
(* card.rs and hand_eval.rs of card_primitives: the packed card byte and   *)
(* the strength of a hand.  A hand is a set of cards; its strength is the  *)
(* six bytes of to_chain_hash_bytes, whose lexicographic order is the      *)
(* derived Ord of HandRank.                                                *)
(***************************************************************************)
EXTENDS Integers, Sequences, FiniteSets, FiniteSetsExt

\* The largest first.  (SetToSortSeq looks for the order among all permutations.)
Descending(S) ==
    [i \in 1..Cardinality(S) |->
        CHOOSE x \in S : Cardinality({y \in S : y > x}) = i - 1]

Ace == 14
Card(rank, suit) == (rank - 2) * 4 + suit
Rank(card) == card \div 4 + 2
Suit(card) == card % 4

RanksOf(hand) == {Rank(c) : c \in hand}
IsFlush(hand) == Cardinality({Suit(c) : c \in hand}) = 1

IsWheel(ranks) == ranks = {Ace, 5, 4, 3, 2}
IsConsecutive(ranks) == ranks = (Max(ranks) - 4)..Max(ranks)
\* A detection that takes the Ace of a wheel for its top.
StraightTopAceHigh(ranks) == Max(ranks)

StraightTop(ranks) == IF IsWheel(ranks) THEN 5 ELSE Max(ranks)

\* The (count, rank) groups, the largest first.
Groups(hand) ==
    LET Count(r) == Cardinality({c \in hand : Rank(c) = r})
        packed == Descending({16 * Count(r) + r : r \in RanksOf(hand)})
    IN  [i \in DOMAIN packed |-> <<packed[i] \div 16, packed[i] % 16>>]

Category(counts, flush, straight) ==
    CASE flush /\ straight -> 8
      [] counts[1] = 4 -> 7
      [] counts[1] = 3 /\ counts[2] = 2 -> 6
      [] counts[1] = 3 /\ counts[2] # 2 -> 3
      [] counts[1] = 2 /\ counts[2] = 2 -> 2
      [] counts[1] = 2 /\ counts[2] # 2 -> 1
      [] counts[1] = 1 /\ flush /\ ~straight -> 5
      [] counts[1] = 1 /\ ~flush /\ straight -> 4
      [] counts[1] = 1 /\ ~flush /\ ~straight -> 0

\* to_chain_hash_bytes: the category and the ranks, 0 for the unused slots.
ToChainHashBytes(category, ranks) ==
    [i \in 1..6 |-> CASE i = 1 -> category
                      [] i \in 2..Len(ranks) + 1 -> ranks[i - 1]
                      [] OTHER -> 0]

Evaluate5(hand) ==
    LET ranks == RanksOf(hand)
        groups == Groups(hand)
        counts == [i \in 1..Len(groups) |-> groups[i][1]]
        straight == IsConsecutive(ranks) \/ IsWheel(ranks)
        category == Category(counts, IsFlush(hand), straight)
    IN  ToChainHashBytes(category,
                         IF category \in {4, 8} THEN <<StraightTop(ranks)>>
                         ELSE [i \in 1..Len(groups) |-> groups[i][2]])

\* The derived Ord of HandRank: a is greater than b.
Beats(a, b) == \E i \in 1..6 : a[i] > b[i] /\ \A j \in 1..i - 1 : a[j] = b[j]

Evaluate7(hand) ==
    LET candidates == {Evaluate5(five) : five \in kSubset(5, hand)}
    IN  CHOOSE best \in candidates : \A c \in candidates : ~Beats(c, best)

CompareHands(a, b) == CASE Beats(a, b) -> "Greater"
                        [] Beats(b, a) -> "Less"
                        [] a = b -> "Equal"
=============================================================================
