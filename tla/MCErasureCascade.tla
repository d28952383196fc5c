-------------------------- MODULE MCErasureCascade --------------------------
(***************************************************************************)
(* ErasureCascade on small instances: two or three users, a key each.      *)
(***************************************************************************)
EXTENDS ErasureCascade

CONSTANTS u1, u2, u3, d1, d2, d3

MCDekOf == [u \in Users |-> CASE u = u1 -> d1 [] u = u2 -> d2 [] u = u3 -> d3]
=============================================================================
