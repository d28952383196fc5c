---------------------------- MODULE MCDekRotation ----------------------------
(***************************************************************************)
(* DekRotation on a small instance.  The keys are interchangeable: no      *)
(* definition tells one from another.                                      *)
(***************************************************************************)
EXTENDS DekRotation, TLC

CONSTANTS k1, k2

KeySymmetry == Permutations(Keys)
=============================================================================
