----------------------------- MODULE MCCardTable -----------------------------
(***************************************************************************)
(* The table for TLC: streams of digits 0..15 mixed from the seed and the  *)
(* position, and a deck of eight ranks: every category of hand can fall,   *)
(* a wheel and the straight that beats it included.                        *)
(***************************************************************************)
EXTENDS CardTable

Mix(x) == LET y == x % 8191 IN (y * y + 7 * y + 3) % 8191
XofDigit(s, i) ==
    LET key == IF s = << >> THEN 0 ELSE 16 * s[1] + s[2] + 1
    IN  (Mix(Mix(key * 37 + i) + 101 * i) \div 16) % 16

EightRanks == <<2, 3, 4, 5, 6, 9, 11, 14>>
FirstSeed == <<3, 9>>
=============================================================================
