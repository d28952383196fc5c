------------------------- MODULE MCProjectionStream -------------------------
(***************************************************************************)
(* ProjectionStream on a small instance: three projections with            *)
(* overlapping interests and a log of two-event and one-event batches.     *)
(***************************************************************************)
EXTENDS ProjectionStream, TLC

MCObserves == (1 :> {"c2"}) @@ (2 :> {"c1", "c2"}) @@ (3 :> {"c1"})

Ev(t, s, c) ==
  [tick |-> t, sequence |-> s, type_code |-> c, payload |-> t]

MCLog == <<Ev(1, 0, "c1"), Ev(1, 1, "c2"), Ev(2, 0, "c1"),
           Ev(4, 0, "c3"), Ev(4, 1, "c2")>>

MCEvents == {MCLog[i] : i \in 1 .. Len(MCLog)}
=============================================================================
