---------------------------- MODULE OrderedFanout ----------------------------
(***************************************************************************)
(* What the projection layer promises, with no router, cursor, pin or      *)
(* worker state in it: every projection consumes the events it wants from  *)
(* one ordered stream, each exactly once, none out of order, and never     *)
(* ahead of a projection that was registered before it and wants the event *)
(* too.                                                                    *)
(***************************************************************************)
EXTENDS Integers, Sequences

CONSTANTS
  Consumers, (* positions in the registration order                        *)
  Wants,     (* Wants[p]: the type codes p wants                           *)
  Stream     (* the events, in stream order                                *)

VARIABLE view (* what each consumer has consumed                           *)

(* Wanted(p)[i]: what consumer p wants of the first i events, in order.    *)
Wanted(p) ==
  LET wanted[i \in 0 .. Len(Stream)] ==
        IF i = 0 THEN <<>>
        ELSE IF Stream[i].type_code \in Wants[p]
               THEN Append(wanted[i - 1], Stream[i])
               ELSE wanted[i - 1]
  IN  wanted

(* Consumer p has consumed what it wants of the first i events, in order,  *)
(* and maybe more.                                                         *)
UpTo(p, i) == \E k \in i .. Len(Stream) : view[p] = Wanted(p)[k]

(* The i-th event is the next one that consumer p has to consume.          *)
Due(p, i) == /\ Stream[i].type_code \in Wants[p]
             /\ view[p] = Wanted(p)[i - 1]

Init == view = [p \in Consumers |-> <<>>]

(* A fan-out, whole or cut short: the consumers of S take the i-th event.  *)
Consume(i, S) ==
  /\ S # {}
  /\ \A p \in S : Due(p, i)
  /\ view' = [p \in Consumers |->
                IF p \in S THEN Append(view[p], Stream[i]) ELSE view[p]]
  /\ \A p, q \in Consumers :
       (p < q /\ q \in S /\ Stream[i].type_code \in Wants[p]) => UpTo(p, i)'

Next == \E i \in 1 .. Len(Stream) : \E S \in SUBSET Consumers : Consume(i, S)

Spec == Init /\ [][Next]_view

(***************************************************************************)
(* Every consumer has consumed all it wants.                               *)
(***************************************************************************)
Complete == \A p \in Consumers : view[p] = Wanted(p)[Len(Stream)]
=============================================================================
