-------------------------- MODULE ThresholdSharing --------------------------
(***************************************************************************)
(* Shamir sharing of arkhe-forge-platform/src/hf2_kms/threshold.rs: the    *)
(* arithmetic of GF(2^8), split_secret and combine_shares.                 *)
(*                                                                         *)
(* A secret is a sequence of bytes, each shared by a polynomial of its own *)
(* with that byte as constant term.  The coefficients come from the        *)
(* entropy source: they are an argument here.                              *)
(***************************************************************************)
EXTENDS Integers, Sequences
LOCAL INSTANCE Bitwise
LOCAL INSTANCE SequencesExt

CONSTANTS
  T,  (* shares needed  *)
  N   (* shares made    *)

(* ThresholdConfig::is_valid                                               *)
IsValid(t, n) == 2 <= t /\ t <= n

(* split_secret and combine_shares refuse any other configuration; the     *)
(* fields are u8.                                                          *)
ASSUME ThresholdAssumption == T \in 0 .. 255 /\ N \in 0 .. 255 /\ IsValid(T, N)

Bytes == 0 .. 255

-----------------------------------------------------------------------------
GfAdd(a, b) == a ^^ b

(* One step of the shift: times x, modulo x^8 + x^4 + x^3 + x + 1.         *)
TimesX(a) == IF a < 128 THEN 2 * a ELSE (2 * a - 256) ^^ 27

RECURSIVE GfMul(_, _)
GfMul(a, b) ==
  IF a = 0 \/ b = 0 THEN 0
  ELSE GfAdd(IF b % 2 = 1 THEN a ELSE 0, GfMul(TimesX(a), b \div 2))

RECURSIVE GfPower(_, _)
GfPower(a, exp) ==
  IF exp = 0 THEN 1
  ELSE GfMul(IF exp % 2 = 1 THEN a ELSE 1, GfPower(GfMul(a, a), exp \div 2))

(* Mutant: an exponent that is one too small.                              *)
GfInvOffByOne == [a \in Bytes |-> GfPower(a, 253)]

(* gf_inv: the power 254, which takes 0 to 0.                              *)
GfInv == [a \in Bytes |-> GfPower(a, 254)]

(* The value at x of the polynomial with the constant term c and the       *)
(* higher coefficients coeffs, in Horner form.                             *)
GfEval(c, coeffs, x) ==
  FoldRight(LAMBDA k, acc : GfAdd(GfMul(acc, x), k), <<c>> \o coeffs, 0)

-----------------------------------------------------------------------------
(* The share that split_secret makes for an index: coeffs holds the T - 1  *)
(* random coefficients of each byte.                                       *)
ShareOf(secret, coeffs, index) ==
  [index |-> index,
   bytes |-> [b \in 1 .. Len(secret) |-> GfEval(secret[b], coeffs[b], index)]]

(* split_secret                                                            *)
Split(secret, coeffs) == [i \in 1 .. N |-> ShareOf(secret, coeffs, i)]

(* The checks of combine_shares, in its order.                             *)
CombineError(shares) ==
  CASE Len(shares) < T -> "InsufficientShares"
    [] \E i \in DOMAIN shares : shares[i].index = 0 -> "InvalidShareIndex"
    [] \E i, j \in DOMAIN shares :
         i # j /\ shares[i].index = shares[j].index -> "DuplicateShares"
    [] \E i \in DOMAIN shares :
         Len(shares[i].bytes) # Len(shares[1].bytes) -> "ShareLengthMismatch"
    [] OTHER -> "None"

GfProduct(s) == FoldLeft(GfMul, 1, s)

(* The weight at 0 of the i-th of the shares interpolated.                 *)
LagrangeBasis(shares, i) ==
  LET others == SelectSeq([j \in 1 .. T |-> j], LAMBDA j : j # i)
      num == GfProduct([k \in 1 .. T - 1 |-> shares[others[k]].index])
      den == GfProduct([k \in 1 .. T - 1 |->
                          GfAdd(shares[i].index, shares[others[k]].index)])
  IN  GfMul(num, GfInv[den])

(* combine_shares where CombineError is "None": the first T shares decide. *)
Combine(shares) ==
  LET basis == [i \in 1 .. T |-> LagrangeBasis(shares, i)]
      term(i, b) == GfMul(shares[i].bytes[b], basis[i])
  IN  [b \in 1 .. Len(shares[1].bytes) |->
         FoldLeft(GfAdd, 0, [i \in 1 .. T |-> term(i, b)])]
=============================================================================
