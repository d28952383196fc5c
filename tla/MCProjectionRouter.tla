------------------------- MODULE MCProjectionRouter -------------------------
(***************************************************************************)
(* ProjectionRouter on a small instance: two projections, one of which     *)
(* observes everything and one of which observes code "c2" only; two       *)
(* computes that share tick 1 and a third in tick 2.                       *)
(***************************************************************************)
EXTENDS ProjectionRouter, TLC

MCObserves == (1 :> {"c1", "c2"}) @@ (2 :> {"c2"})

Ev(t, s, c, b) == [tick |-> t, sequence |-> s, type_code |-> c, payload |-> b]

(* Compute A emits two events at tick 1, compute C one at tick 2.          *)
OrderlyEvents ==
  {Ev(1, 0, "c1", "a"), Ev(1, 1, "c2", "a"), Ev(2, 0, "c2", "a")}

(* Compute B shares tick 1, and both positions, with A.                    *)
CollidingEvents ==
  OrderlyEvents \cup {Ev(1, 0, "c2", "b"), Ev(1, 1, "c2", "b")}
=============================================================================
