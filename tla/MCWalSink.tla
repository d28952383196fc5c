------------------------------ MODULE MCWalSink ------------------------------
(***************************************************************************)
(* WalSink on a small instance, with the default capacity: a record of the *)
(* largest size plus the magic and one length prefix.                      *)
(***************************************************************************)
EXTENDS WalSink

DefaultCapacity == MaxRecord + 4
=============================================================================
