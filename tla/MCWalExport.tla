----------------------------- MODULE MCWalExport -----------------------------
(***************************************************************************)
(* WalExport on a small instance: every WAL of up to three records of any  *)
(* size, the illegal ones included, into a sink smaller than the largest   *)
(* legal record.                                                           *)
(***************************************************************************)
EXTENDS WalExport

MCWals ==
  UNION {{w \in [1 .. n -> Records] :
            \A i \in 1 .. n : w[i].seq = i /\ w[i].size \in 1 .. MaxRecord + 1} :
         n \in 0 .. MaxSeq}
=============================================================================
