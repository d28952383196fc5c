-------------------------- MODULE MCRuntimeService --------------------------
(***************************************************************************)
(* RuntimeService on a small instance.                                     *)
(***************************************************************************)
EXTENDS RuntimeService

MCGhostUser   == <<"UserProfile", 0, 0, 0>>
MCSystemActor == <<"ActorProfile", 0, 0, 0>>

(* At tick 1 the first digest of number 0 is zero and the retry is taken;  *)
(* at tick 2 number 1 has no id at all.                                    *)
MCZeroDigests == {<<1, 0, 0>>, <<2, 1, 0>>, <<2, 1, 1>>}
=============================================================================
