----------------------------- MODULE LogArchive -----------------------------
(***************************************************************************)
(* What exporting a log promises, with no buffer, frame or sequence number *)
(* in it.  A reader of the archive sees the beginning of the log, in order *)
(* and unaltered; what was acknowledged stays; the rest may come, or go in *)
(* a crash; and the export reports success only of the whole log.          *)
(***************************************************************************)
EXTENDS Integers, Sequences, SequencesExt

VARIABLES
  log,      (* what is to be archived                                      *)
  archive,  (* what a reader of the archive sees                           *)
  acked,    (* how much of it can no longer be lost                        *)
  reported  (* the export has reported success                             *)

Init == archive = <<>> /\ acked = 0 /\ reported = FALSE

Next ==
  /\ log' = log
  /\ IsPrefix(archive', log)
  /\ acked <= acked' /\ acked' <= Len(archive')
  /\ reported => reported'
  /\ reported' => acked' = Len(log)

Spec == Init /\ [][Next]_<<log, archive, acked, reported>>
=============================================================================
