----------------------------- MODULE KeyedStream -----------------------------
(***************************************************************************)
(* arkhe-rand: a BLAKE3 keyed byte stream with a one-block prefetch cache, *)
(* Lemire's unbiased draws from it, and the Fisher-Yates shuffle.          *)
(*                                                                         *)
(* Byte(seed, i) stands for byte i of the XOF of that seed (external).     *)
(* The widths are scaled down with their order kept: a digit for a byte,   *)
(* HalfLen, WordLen, SeedLen and BlockLen for 4, 8, 32 and 64 bytes.       *)
(***************************************************************************)
EXTENDS Integers, Sequences

CONSTANTS Byte(_, _), ByteSize, HalfLen, WordLen, SeedLen, BlockLen,
          MaxRejects       \* bound: words one draw rejects

ASSUME WidthAssumption ==
    /\ ByteSize \in Nat \ {0, 1}
    /\ \A w \in {HalfLen, WordLen, SeedLen, BlockLen} : w \in Nat \ {0}
    /\ MaxRejects \in Nat
    /\ HalfLen < WordLen /\ WordLen <= SeedLen /\ SeedLen <= BlockLen

\* The n bytes of the seed's XOF from position at (external).
XofBytes(seed, at, n) == [i \in 1..n |-> Byte(seed, at + i - 1)]

FromSeed(seed) == [seed |-> seed, xof |-> 0, pos |-> BlockLen,
                   block |-> [i \in 1..BlockLen |-> 0]]

\* n bytes the cache holds, ...
FromCache(rng, n) == [rng   |-> [rng EXCEPT !.pos = @ + n],
                      bytes |-> SubSeq(rng.block, rng.pos + 1, rng.pos + n)]

\* ... and n bytes once it is empty: straight from the XOF, or from the next block.
FromXof(rng, n) ==
    CASE n = 0 -> [rng |-> rng, bytes |-> << >>]
      [] n >= BlockLen -> [rng   |-> [rng EXCEPT !.xof = @ + n],
                           bytes |-> XofBytes(rng.seed, rng.xof, n)]
      [] n \in 1..BlockLen - 1 ->
            FromCache([seed |-> rng.seed, xof |-> rng.xof + BlockLen, pos |-> 0,
                       block |-> XofBytes(rng.seed, rng.xof, BlockLen)], n)

\* The mutated fill: a request the cache cannot serve starts at the next block.
FillDropsTheRest(rng, n) ==
    IF n <= BlockLen - rng.pos THEN FromCache(rng, n) ELSE FromXof(rng, n)

\* fill_bytes, whose loop makes at most these two turns.
Fill(rng, n) ==
    LET cached == IF n < BlockLen - rng.pos THEN n ELSE BlockLen - rng.pos
        first == FromCache(rng, cached)
        rest == FromXof(first.rng, n - cached)
    IN  [rng |-> rest.rng, bytes |-> first.bytes \o rest.bytes]

\* split: the child's seed is the next SeedLen bytes of the parent.
Split(rng) == LET f == Fill(rng, SeedLen)
              IN  [rng |-> f.rng, child |-> FromSeed(f.bytes)]

-----------------------------------------------------------------------------

\* The number whose digits are the bytes, the lowest first: high[k] is that of
\* the last k of them.
LittleEndian(bytes) ==
    LET high[k \in 0..Len(bytes)] ==
            IF k = 0 THEN 0 ELSE bytes[Len(bytes) - k + 1] + ByteSize * high[k - 1]
    IN  high[Len(bytes)]

\* 2^32 and 2^64: how many words of len bytes there are.
Space(len) ==
    LET power[k \in 0..len] == IF k = 0 THEN 1 ELSE ByteSize * power[k - 1]
    IN  power[len]

\* A round that keeps every word.
DrawsWithoutRejection(n, x, space) ==
    [accepted |-> TRUE, value |-> IF n = 0 THEN x ELSE (x * n) \div space]

\* One round of the Lemire loop on the word x: is it accepted, with what value?
\* n = 0 is the full range.
Draws(n, x, space) ==
    LET low == (x * n) % space
        threshold == (space - n) % n
    IN  IF n = 0 THEN [accepted |-> TRUE, value |-> x]
        ELSE [accepted |-> ~(low < n /\ low < threshold), value |-> (x * n) \div space]

\* lemire_u32 / lemire_u64.  A draw whose first MaxRejects + 1 words are all
\* rejected is not settled: its loop goes on, and nobody takes its value.
Lemire(rng, len, n) ==
    LET Tried(rest, d) == [rng |-> rest, value |-> d.value, settled |-> d.accepted]
        Taken(f) == Tried(f.rng, Draws(n, LittleEndian(f.bytes), Space(len)))
        Round(r) == Taken(Fill(r, len))
        round[k \in 0..MaxRejects] ==
            IF k = 0 THEN Round(rng)
            ELSE LET before == round[k - 1]
                 IN  IF before.settled THEN before ELSE Round(before.rng)
    IN  round[MaxRejects]

\* The span of low..high as lemire_u32 / lemire_u64 take it.
Span(low, high, space) == IF high - low + 1 = space THEN 0 ELSE high - low + 1

GenRangeInclusive(rng, len, low, high) ==
    LET d == Lemire(rng, len, Span(low, high, Space(len)))
    IN  [d EXCEPT !.value = (low + @) % Space(len)]

GenRange(rng, len, start, end) ==
    IF start >= end THEN [rng |-> rng, value |-> start, settled |-> TRUE]
    ELSE LET d == Lemire(rng, len, end - start) IN [d EXCEPT !.value = start + @]

Swap(s, i, j) == [s EXCEPT ![i] = s[j], ![j] = s[i]]

\* Fisher-Yates on the items after the first `start`: i runs down to 1, for as
\* long as the draws settle.
ShuffleFrom(rng, items, start) ==
    LET swaps == Len(items) - start - 1
        shuffle[k \in 0..swaps] ==
            IF k = 0 THEN [rng |-> rng, items |-> items, settled |-> TRUE]
            ELSE LET before == shuffle[k - 1]
                     i == swaps - k + 1
                     Swapped(d) ==
                         [rng     |-> d.rng,
                          items   |-> Swap(before.items, start + i + 1, start + d.value + 1),
                          settled |-> d.settled]
                 IN  IF ~before.settled THEN before
                     ELSE Swapped(GenRangeInclusive(before.rng, WordLen, 0, i))
    IN  IF Len(items) - start < 2 THEN [rng |-> rng, items |-> items, settled |-> TRUE]
        ELSE shuffle[swaps]
=============================================================================
