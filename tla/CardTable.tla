------------------------------ MODULE CardTable ------------------------------
(***************************************************************************)
(* card_primitives: one table whose hands are dealt from the stream of a   *)
(* server (server / hand split), committed to before the shuffle, revealed *)
(* after the deal and recorded by RecordHandShowdown.                      *)
(*                                                                         *)
(* A commitment is the seed under a tag and a chain hash is the pair it    *)
(* hashes: BLAKE3 is taken as injective.  DeckRanks is the part of the 13  *)
(* ranks the deck keeps.                                                   *)
(***************************************************************************)
EXTENDS KeyedStream, HandEval, SequencesExt

CONSTANTS DeckRanks,      \* the ranks of the deck, in ascending order
          ServerSeed,     \* the seed of the server's stream
          Requests,       \* the sizes of the other reads of that stream
          Dice,           \* the sizes of the ranges drawn from it
          MaxBytes,       \* bound: bytes read from the server's stream
          MaxShuffles,    \* bound: shuffles of one deck
          ShuffleAt       \* bound: the cursors a deck is shuffled at

ASSUME TableAssumption ==
    /\ DeckRanks \in Seq(2..Ace)
    /\ \A i \in 1..Len(DeckRanks) - 1 : DeckRanks[i] < DeckRanks[i + 1]
    /\ 4 * Len(DeckRanks) < Space(WordLen)
    /\ Requests \subseteq Nat /\ Dice \subseteq Nat

VARIABLES server,      \* the server's RngSource
          seed,        \* the seed of the hand, held by the dealer
          commitment,  \* what the dealer broadcast
          rng,         \* the RngSource of the hand
          deck,        \* [cards, cursor]
          drawn,       \* ghost: the cards handed out, in order
          shuffles,    \* ghost: the cursor at each shuffle
          log          \* the HandShowdownLanded events of the hand

vars == <<server, seed, commitment, rng, deck, drawn, shuffles, log>>
hand == <<seed, commitment, rng, deck, drawn, shuffles, log>>

Cards == {Card(r, s) : r \in Range(DeckRanks), s \in 0..3}
Standard == [cards |-> [i \in 1..4 * Len(DeckRanks) |->
                           Card(DeckRanks[(i - 1) \div 4 + 1], (i - 1) % 4)],
             cursor |-> 0]

\* The deck and the stream that a shuffle f of its cards leaves.
Reordered(d, f) ==
    [rng |-> f.rng, deck |-> [d EXCEPT !.cards = f.items], settled |-> f.settled]

\* A shuffle that takes the drawn region along.
ShuffleWholeDeck(d, r) == Reordered(d, ShuffleFrom(r, d.cards, 0))

ShuffleDeck(d, r) == Reordered(d, ShuffleFrom(r, d.cards, d.cursor))

Remaining(d) == Len(d.cards) - d.cursor

-----------------------------------------------------------------------------

Commit(s) == <<"commit", s>>
Replay(s) == ShuffleDeck(Standard, FromSeed(s)).deck
ReplaySettles(s) == ShuffleDeck(Standard, FromSeed(s)).settled

VerifyShuffle(c, s, d) == c = Commit(s) /\ d = Replay(s)
VerifyShuffleOrder(c, s, order) == c = Commit(s) /\ order = Replay(s).cards

ChainHash(order, rank) == <<"showdown", order, rank>>

-----------------------------------------------------------------------------

Emitted(r) == r.xof - (BlockLen - r.pos)

Init ==
    /\ server = FromSeed(ServerSeed)
    /\ seed = << >> /\ commitment = << >>
    /\ rng = FromSeed(<< >>)
    /\ deck = Standard
    /\ drawn = << >> /\ shuffles = << >> /\ log = {}

\* Another user of the server's stream reads n bytes.
FillBytes(n) ==
    /\ Emitted(server) + n <= MaxBytes
    /\ server' = Fill(server, n).rng
    /\ UNCHANGED hand

\* ... or draws from 1..n, which is empty for n = 0.
Roll(n) ==
    /\ Emitted(server) < MaxBytes
    /\ LET d == GenRange(server, HalfLen, 1, n + 1)
       IN  d.settled /\ server' = d.rng
    /\ UNCHANGED hand

\* "server / table / hand": the hand's stream is split off the server's
\* (main.rs has a fixed seed in its place), and the dealer commits to its seed.
Deal ==
    /\ Emitted(server) + SeedLen <= MaxBytes
    /\ LET s == Split(server)
       IN  /\ server' = s.rng
           /\ rng' = s.child
           /\ seed' = s.child.seed
           /\ commitment' = Commit(s.child.seed)
    /\ deck' = Standard
    /\ drawn' = << >> /\ shuffles' = << >> /\ log' = {}

Dealt == seed # << >>

Shuffle ==
    /\ Dealt /\ Len(shuffles) < MaxShuffles /\ deck.cursor \in ShuffleAt
    /\ LET f == ShuffleDeck(deck, rng)
       IN  f.settled /\ deck' = f.deck /\ rng' = f.rng
    /\ shuffles' = Append(shuffles, deck.cursor)
    /\ UNCHANGED <<server, seed, commitment, drawn, log>>

Draw ==
    /\ Dealt /\ Remaining(deck) > 0
    /\ drawn' = Append(drawn, deck.cards[deck.cursor + 1])
    /\ deck' = [deck EXCEPT !.cursor = @ + 1]
    /\ UNCHANGED <<server, seed, commitment, rng, shuffles, log>>

DrawNone == Dealt /\ Remaining(deck) = 0 /\ UNCHANGED vars

\* The deal of main.rs: two holes each in turn, then burn and board.
BoardCards == {drawn[i] : i \in {6, 7, 8, 10, 12}}
Seven(player) == {drawn[player], drawn[player + 2]} \union BoardCards
Sevens == {Seven(1), Seven(2)}
HandSize == 12
Showdown == Len(drawn) = HandSize

Winner == LET p1 == Evaluate7(Seven(1))
              p2 == Evaluate7(Seven(2))
          IN  IF CompareHands(p1, p2) = "Less" THEN p2 ELSE p1

\* RecordHandShowdown::compute.  The caller hands in the seed it reveals, the
\* order of its deck and a strength, which the action does not evaluate again.
RecordHandShowdown(version, revealed, rank) ==
    /\ Dealt
    /\ version = 1
    /\ ReplaySettles(revealed)
    /\ VerifyShuffleOrder(commitment, revealed, deck.cards)
    /\ log' = log \union {ChainHash(deck.cards, rank)}
    /\ UNCHANGED <<server, seed, commitment, rng, deck, drawn, shuffles>>

RecordRefused(version, revealed) ==
    /\ Dealt
    /\ \/ version # 1
       \/ commitment # Commit(revealed)
       \/ ReplaySettles(revealed) /\ ~VerifyShuffleOrder(commitment, revealed, deck.cards)
    /\ UNCHANGED vars

Next ==
    \/ \E n \in Requests : FillBytes(n)
    \/ \E n \in Dice : Roll(n)
    \/ Deal \/ Shuffle \/ Draw \/ DrawNone
    \/ /\ Showdown
       /\ \E version \in {1, 2}, revealed \in {seed, ServerSeed} :
             \/ RecordHandShowdown(version, revealed, Winner)
             \/ RecordRefused(version, revealed)

Spec == Init /\ [][Next]_vars

-----------------------------------------------------------------------------

(* Whatever was read before and in whatever sizes, the next n bytes a stream
   emits are the next n bytes of its XOF, none skipped and none repeated
   (lib.rs: "the emitted byte sequence is identical to reading the XOF
   directly for every request-size interleaving"). *)
StreamIsMonotonic ==
    \A r \in {server, rng}, n \in 1..2 * BlockLen :
        LET f == Fill(r, n)
        IN  /\ f.bytes = XofBytes(r.seed, Emitted(r), n)
            /\ Emitted(f.rng) = Emitted(r) + n

(* Each draw the next shuffle makes is uniform: as many words are accepted
   for one outcome as for any other, and every outcome is in the range.  The
   half-width draw is checked up to its full range, the 0 sentinel (range.rs:
   "uniform integers ... without modulo bias"). *)
DrawsAreUniform ==
    \A len \in {HalfLen, WordLen} :
        LET space == Space(len)
            size == Remaining(deck)
            n == Span(0, size - 1, space)
            Gives(x, v) == LET d == Draws(n, x, space) IN d.accepted /\ d.value = v
        IN  size \in 1..space =>
                \A v \in 0..size - 1 :
                    Cardinality({x \in 0..space - 1 : Gives(x, v)}) = space \div size

(* A dealt card stands: a shuffle of a partly dealt deck moves none of the
   cards handed out and loses none of the others, and what an accepted receipt
   anchors is the order the broadcast commitment fixes, beginning with the
   cards the players saw.  An honest deal, one shuffle before the first card,
   verifies at every cursor, and by the Deck-facing check only before the
   first card is drawn (shuffle_proof.rs, deck.rs). *)
VerifiedDealIsTheCommittedOne ==
    Dealt =>
      /\ drawn = SubSeq(deck.cards, 1, deck.cursor)
      /\ ToSet(deck.cards) = Cards
      /\ \A e \in log : IsPrefix(SubSeq(drawn, 1, HandSize), e[2]) /\ e[2] = Replay(seed).cards
      /\ shuffles = <<0>> =>
            /\ VerifyShuffleOrder(commitment, seed, deck.cards)
            /\ VerifyShuffle(commitment, seed, deck) <=> deck.cursor = 0

-----------------------------------------------------------------------------
(* The strength of seven cards, read off them without choosing five. *)

Tops(ranks) == {t \in 5..Ace : \A k \in 0..4 :
                   (IF t - k = 1 THEN Ace ELSE t - k) \in ranks}
Largest(ranks, k) == SubSeq(Descending(ranks), 1, k)

Strength(cards) ==
    LET ranks == RanksOf(cards)
        AtLeast(k) == {r \in ranks : Cardinality({c \in cards : Rank(c) = r}) >= k}
        suited == UNION {{Rank(c) : c \in f} : f \in
                     {f \in {{c \in cards : Suit(c) = s} : s \in 0..3} : Cardinality(f) >= 5}}
        top(k) == Max(AtLeast(k))
        pairs == Largest(AtLeast(2), 2)
    IN  CASE suited # {} /\ Tops(suited) # {} -> ToChainHashBytes(8, <<Max(Tops(suited))>>)
          [] OTHER ->
        CASE AtLeast(4) # {} -> ToChainHashBytes(7, <<top(4), Max(ranks \ {top(4)})>>)
          [] OTHER ->
        CASE AtLeast(3) # {} /\ AtLeast(2) # {top(3)} ->
                 ToChainHashBytes(6, <<top(3), Max(AtLeast(2) \ {top(3)})>>)
          [] OTHER ->
        CASE suited # {} -> ToChainHashBytes(5, Largest(suited, 5))
          [] OTHER ->
        CASE Tops(ranks) # {} -> ToChainHashBytes(4, <<Max(Tops(ranks))>>)
          [] OTHER ->
        CASE AtLeast(3) # {} -> ToChainHashBytes(3, <<top(3)>> \o Largest(ranks \ {top(3)}, 2))
          [] Cardinality(AtLeast(2)) > 1 /\ AtLeast(3) = {} ->
                 ToChainHashBytes(2, pairs \o Largest(ranks \ ToSet(pairs), 1))
          [] Cardinality(AtLeast(2)) = 1 /\ AtLeast(3) = {} ->
                 ToChainHashBytes(1, <<top(2)>> \o Largest(ranks \ {top(2)}, 3))
          [] AtLeast(2) = {} -> ToChainHashBytes(0, Largest(ranks, 5))

\* Seven cards of the deck taken with a stride, from the next one to draw on:
\* off an unshuffled deck these are quads, full houses and straight flushes.
Strided(k) == {deck.cards[((deck.cursor + k * i) % Len(deck.cards)) + 1] : i \in 0..6}

(* The best of the 21 five-card hands is the strength of the seven cards,
   wheels, two trips and three pairs included, both for the players at a
   showdown and for seven cards off the deck; and at a showdown no player holds
   more than the strength the receipt anchors (hand_eval.rs). *)
BestOfSeven ==
    /\ \A k \in 1..4 : (Showdown \/ shuffles = << >>) =>
          Evaluate7(Strided(k)) = Strength(Strided(k))
    /\ Showdown =>
          /\ \A s \in Sevens : Evaluate7(s) = Strength(s) /\ ~Beats(Strength(s), Winner)
          /\ \A e \in log : e[3] = Winner
=============================================================================
