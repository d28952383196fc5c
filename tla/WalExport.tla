------------------------------ MODULE WalExport ------------------------------
(***************************************************************************)
(* wal_to_sink of arkhe-forge-platform/src/dispatcher.rs: a whole kernel   *)
(* WAL is appended to a fresh sink, which is flushed whenever its buffer   *)
(* is full and once at the end.  The writer may fail at any flush and the  *)
(* process may die between any two calls.                                  *)
(***************************************************************************)
EXTENDS WalSink

CONSTANT Wals (* the WALs that may be exported: sequences of records       *)

(* The kernel numbers its records consecutively.                           *)
ASSUME WalAssumption ==
  \A w \in Wals : /\ w \in Seq(Records)
                  /\ \A i \in 1 .. Len(w) - 1 : w[i + 1].seq = w[i].seq + 1

VARIABLES
  wal,   (* the WAL being exported                                         *)
  next,  (* the index of the record to append next                         *)
  phase  (* where wal_to_sink is                                           *)

loop == <<wal, next, phase>>

xvars == <<vars, loop>>

XInit == Init /\ wal \in Wals /\ next = 1 /\ phase = "append"

(* Mutant: a record that overflowed is not appended again.                 *)
DrainAndSkip ==
  /\ phase = "drain"
  /\ \/ Flush /\ phase' = "append" /\ next' = next + 1
     \/ FlushFails /\ phase' = "err" /\ next' = next
  /\ UNCHANGED wal

(* Mutant: an overflow always leads to another flush.                      *)
ExportRecordForever ==
  /\ phase \in {"append", "retry"} /\ next <= Len(wal)
  /\ \/ /\ AppendRecord(wal[next])
        /\ next' = next + 1 /\ phase' = "append"
     \/ /\ AppendOverflows(wal[next])
        /\ phase' = "drain" /\ next' = next
     \/ /\ AppendRefused(wal[next])
        /\ phase' = "err" /\ next' = next
  /\ UNCHANGED wal

(* append_record of the next record, or its second attempt.                *)
ExportRecord ==
  /\ phase \in {"append", "retry"} /\ next <= Len(wal)
  /\ \/ /\ AppendRecord(wal[next])
        /\ next' = next + 1 /\ phase' = "append"
     \/ /\ AppendOverflows(wal[next])
        /\ phase' = IF phase = "append" THEN "drain" ELSE "err"
        /\ next' = next
     \/ /\ AppendRefused(wal[next])
        /\ phase' = "err" /\ next' = next
  /\ UNCHANGED wal

(* The flush in the middle of the stream.                                  *)
Drain ==
  /\ phase = "drain"
  /\ \/ Flush /\ phase' = "retry"
     \/ FlushFails /\ phase' = "err"
  /\ UNCHANGED <<wal, next>>

(* The flush at the end.                                                   *)
Finish ==
  /\ phase = "append" /\ next > Len(wal)
  /\ \/ Flush /\ phase' = "ok"
     \/ FlushFails /\ phase' = "err"
  /\ UNCHANGED <<wal, next>>

ExportCrash == Crash /\ UNCHANGED loop

Export == ExportRecord \/ Drain \/ Finish

XNext == Export \/ ExportCrash

XSpec == XInit /\ [][XNext]_xvars

(* wal_to_sink is one sequential call.                                     *)
FairXSpec == XSpec /\ WF_xvars(Export)

-----------------------------------------------------------------------------
Archive == INSTANCE LogArchive
             WITH log      <- [i \in 1 .. Len(wal) |-> Payload(wal[i])],
                  archive  <- ReadBack.payloads,
                  acked    <- Len(Read(SubSeq(medium, 1, durable)).payloads),
                  reported <- phase = "ok"

(***************************************************************************)
(* What a reader finds in the export, at any moment and after any failed   *)
(* or interrupted write, is the beginning of the WAL; what a flush made    *)
(* durable stays; and wal_to_sink answers Ok only when all of it is there. *)
(***************************************************************************)
ImplementsArchive == Archive!Spec

(***************************************************************************)
(* "a WAL of any size exports through a bounded-memory sink": without a    *)
(* write failing, wal_to_sink gives up only on a record whose size is not  *)
(* legal or whose frame is "larger than the sink's whole capacity".        *)
(***************************************************************************)
ErrorsAreEarned ==
  phase = "err" =>
    \/ failures > 0
    \/ ~ValidLength(wal[next])
    \/ 2 + wal[next].size > Capacity

(***************************************************************************)
(* wal_to_sink comes to an end: draining a full sink never goes round in   *)
(* circles.                                                                *)
(***************************************************************************)
ExportEnds == <>(phase \in {"ok", "err"} \/ dead)
=============================================================================
