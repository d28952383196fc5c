------------------------------- MODULE WalSink -------------------------------
(***************************************************************************)
(* The WAL export stream: BufferedWalSink and StreamingWalReader of        *)
(* arkhe-forge-platform/src/wal_export.                                    *)
(*                                                                         *)
(* The sink frames records into a buffer and writes the buffer out on      *)
(* flush; the reader parses what the medium holds.  A stream is a sequence *)
(* of cells of four bytes: the magic and a length prefix are two cells     *)
(* each, a record of size n has n cells of payload.  The writer may take   *)
(* any number of cells before it fails, and may lose on a crash whatever   *)
(* its own flush has not made durable.                                     *)
(*                                                                         *)
(* Callers are arbitrary: any sequence number and any size may be offered, *)
(* and a flush that failed may be tried again, although the sink then      *)
(* writes its whole buffer behind the part of it that was taken already.   *)
(***************************************************************************)
EXTENDS Integers, Sequences, SequencesExt

CONSTANTS
  MaxSeq,          (* u64::MAX of a record's seq                           *)
  MaxRecord,       (* MAX_RECORD_BYTES, in cells                           *)
  Capacity,        (* the sink's capacity, in cells                        *)
  MaxFailures      (* bound: how many flushes may fail                     *)

ASSUME SinkAssumption ==
  /\ MaxSeq \in Nat
  /\ MaxRecord \in Nat \ {0}
  /\ Capacity \in Nat
  /\ MaxFailures \in Nat

NoSeq == -1

VARIABLES
  buffer,        (* the cells pending flush                                *)
  headerEmitted, (* whether the magic was put into the buffer              *)
  lastSeq,       (* the seq of the last record appended                    *)
  medium,        (* the cells the writer has taken                         *)
  durable,       (* how many of them survive a crash                       *)
  accepted,      (* the records append_record answered Ok to               *)
  failures,      (* how many flushes have failed                           *)
  torn,          (* one of them left part of the buffer on the medium      *)
  spliced,       (* and a later flush wrote behind that part               *)
  kept,          (* the records accepted before the last Ok of flush, up   *)
                 (* to the first tear                                      *)
  dead           (* the process has died: only the medium is left          *)

sink == <<buffer, headerEmitted, lastSeq>>

writes == <<failures, torn, spliced, kept>>

vars == <<sink, medium, durable, accepted, writes, dead>>

-----------------------------------------------------------------------------
Magic == <<[part |-> "magic", of |-> 0, at |-> 1],
           [part |-> "magic", of |-> 0, at |-> 2]>>

Prefix(n) == <<[part |-> "length", of |-> n, at |-> 1],
               [part |-> "length", of |-> n, at |-> 2]>>

Payload(r) == [i \in 1 .. r.size |-> [part |-> "payload", of |-> r.seq, at |-> i]]

Frame(r) == Prefix(r.size) \o Payload(r)

Records == [seq : 0 .. MaxSeq, size : 0 .. MaxRecord + 1]

-----------------------------------------------------------------------------
Init ==
  /\ buffer = <<>>
  /\ headerEmitted = FALSE
  /\ lastSeq = NoSeq
  /\ medium = <<>>
  /\ durable = 0
  /\ accepted = <<>>
  /\ failures = 0
  /\ torn = FALSE
  /\ spliced = FALSE
  /\ kept = 0
  /\ dead = FALSE

(* validate_length.                                                        *)
ValidLength(r) == r.size \in 1 .. MaxRecord

(* Mutant: gaps are let through.                                           *)
GapsSucceed(r) == lastSeq = NoSeq \/ r.seq > lastSeq

(* The first record sets the baseline; u64::MAX has no successor.          *)
Succeeds(r) ==
  \/ lastSeq = NoSeq
  \/ lastSeq < MaxSeq /\ r.seq = lastSeq + 1

(* ensure_header.                                                          *)
WithHeader == IF headerEmitted THEN buffer ELSE buffer \o Magic

(* Mutant: room is kept for a header that is out already.                  *)
FitsBesidesHeader(r) == Len(WithHeader) + 4 + r.size <= Capacity

Fits(r) == Len(WithHeader) + 2 + r.size <= Capacity

(* append_record answers Ok.                                               *)
AppendRecord(r) ==
  /\ ~dead
  /\ ValidLength(r) /\ Succeeds(r) /\ Fits(r)
  /\ buffer' = WithHeader \o Frame(r)
  /\ headerEmitted' = TRUE
  /\ lastSeq' = r.seq
  /\ accepted' = Append(accepted, r)
  /\ UNCHANGED <<medium, durable, writes, dead>>

(* BufferOverflow, with the header already emitted.                        *)
AppendOverflows(r) ==
  /\ ~dead
  /\ ValidLength(r) /\ Succeeds(r) /\ ~Fits(r)
  /\ buffer' = WithHeader
  /\ headerEmitted' = TRUE
  /\ UNCHANGED <<lastSeq, medium, durable, accepted, writes, dead>>

(* LengthZero, LengthExceedsMax, AppendOnlyViolation, SeqExhausted.        *)
AppendRefused(r) ==
  /\ ~dead
  /\ ~ValidLength(r) \/ ~Succeeds(r)
  /\ UNCHANGED vars

(* flush answers Ok; with nothing buffered it leaves the writer alone.     *)
Flush ==
  /\ ~dead
  /\ medium' = medium \o WithHeader
  /\ durable' = IF WithHeader = <<>> THEN durable ELSE Len(medium')
  /\ buffer' = <<>>
  /\ headerEmitted' = TRUE
  /\ spliced' = torn
  /\ kept' = IF torn THEN kept ELSE Len(accepted)
  /\ UNCHANGED <<lastSeq, accepted, failures, torn, dead>>

(* write_all fails after some of the buffer, or the writer's flush fails   *)
(* after all of it: the buffer is not cleared.                             *)
FlushFails ==
  /\ ~dead
  /\ failures < MaxFailures
  /\ WithHeader # <<>>
  /\ \E n \in 0 .. Len(WithHeader) :
       /\ medium' = medium \o SubSeq(WithHeader, 1, n)
       /\ torn' = (torn \/ n > 0)
       /\ spliced' = (spliced \/ (torn /\ n > 0))
  /\ buffer' = WithHeader
  /\ headerEmitted' = TRUE
  /\ failures' = failures + 1
  /\ UNCHANGED <<lastSeq, durable, accepted, kept, dead>>

(* The process dies, and with it what the writer had not made durable.     *)
Crash ==
  /\ ~dead
  /\ dead' = TRUE
  /\ \E n \in durable .. Len(medium) : medium' = SubSeq(medium, 1, n)
  /\ UNCHANGED <<sink, durable, accepted, writes>>

Next ==
  \/ \E r \in Records : AppendRecord(r) \/ AppendOverflows(r) \/ AppendRefused(r)
  \/ Flush \/ FlushFails \/ Crash

Spec == Init /\ [][Next]_vars

-----------------------------------------------------------------------------
(***************************************************************************)
(* The reader.  ReadFrom(s)[p] is what next_record answers, call after     *)
(* call, from cell p of the stream s on: the payloads it returns, and how  *)
(* the reading ends.                                                       *)
(***************************************************************************)
Ends(how) == [payloads |-> <<>>, verdict |-> how]

LengthAt(s, p) == /\ s[p].part = "length" /\ s[p].at = 1
                  /\ s[p + 1] = [s[p] EXCEPT !.at = 2]

(* Mutant: a payload cut short is returned.                                *)
NextRecordShort(s, rest, p) ==
  IF p = Len(s) + 1 THEN Ends("Eof")
  ELSE IF p + 1 > Len(s) THEN Ends("Truncated")
  ELSE IF ~LengthAt(s, p) THEN Ends("Misframed")
  ELSE LET q == IF p + 2 + s[p].of > Len(s) + 1
                  THEN Len(s) + 1 ELSE p + 2 + s[p].of
       IN  [payloads |-> <<SubSeq(s, p + 2, q - 1)>> \o rest[q].payloads,
            verdict  |-> rest[q].verdict]

(* next_record at cell p, and rest, what is read from each later cell on.  *)
NextRecord(s, rest, p) ==
  IF p = Len(s) + 1 THEN Ends("Eof")
  ELSE IF p + 1 > Len(s) THEN Ends("Truncated")
  ELSE IF ~LengthAt(s, p) THEN Ends("Misframed")
  ELSE IF s[p].of = 0 THEN Ends("LengthZero")
  ELSE IF s[p].of > MaxRecord THEN Ends("LengthExceedsMax")
  ELSE LET q == p + 2 + s[p].of
       IN  IF q > Len(s) + 1 THEN Ends("Truncated")
           ELSE [payloads |-> <<SubSeq(s, p + 2, q - 1)>> \o rest[q].payloads,
                 verdict  |-> rest[q].verdict]

ReadFrom(s) ==
  LET read[p \in 1 .. Len(s) + 1] == NextRecord(s, read, p)
  IN  read

(* open_v1, then next_record until it answers None or an error.            *)
Read(s) ==
  IF Len(s) < 2 THEN Ends("HeaderMissing")
  ELSE IF SubSeq(s, 1, 2) # Magic THEN Ends("UnsupportedStreamVersion")
  ELSE ReadFrom(s)[3]

ReadBack == Read(medium)

AcceptedPayloads == [i \in 1 .. Len(accepted) |-> Payload(accepted[i])]

-----------------------------------------------------------------------------
(***************************************************************************)
(* However a write is cut short and whatever a crash takes, the reader     *)
(* never returns a payload that was not appended, skips none and reorders  *)
(* none, and stops only at the end of the stream or at its torn tail.      *)
(* "every flushed export stream begins with the header magic": after a     *)
(* flush that answered Ok, every record accepted so far reads back, and    *)
(* the stream is whole.  An empty one is a valid stream of no records.     *)
(*                                                                         *)
(* All of this holds until a flush is tried again behind a torn one: a     *)
(* flush that failed before the writer took anything may be repeated, any  *)
(* other may not, although nothing in flush prevents it and the second one *)
(* answers Ok.  What it spoils lies behind the tear: the records that had  *)
(* been flushed before still come first.                                   *)
(***************************************************************************)
NeverMisread ==
  /\ ~spliced =>
       /\ IsPrefix(ReadBack.payloads, AcceptedPayloads)
       /\ ReadBack.verdict \in {"Eof", "Truncated", "HeaderMissing"}
       /\ (headerEmitted /\ buffer = <<>> /\ ~dead) =>
            ReadBack = [payloads |-> AcceptedPayloads, verdict |-> "Eof"]
  /\ IsPrefix(SubSeq(AcceptedPayloads, 1, kept), ReadBack.payloads)

(***************************************************************************)
(* A14: the accepted records have strictly consecutive sequence numbers,   *)
(* from whatever baseline the first one set to u64::MAX, and never wrap;   *)
(* what is pending never exceeds the capacity, and "a maximum-size legal   *)
(* record always fits a fresh sink", and a drained one.                    *)
(***************************************************************************)
AppendOnly ==
  /\ Len(buffer) <= Capacity
  /\ buffer = <<>> => \A r \in Records : ValidLength(r) => Fits(r)
  /\ \A i \in 1 .. Len(accepted) : /\ accepted[i].seq = accepted[1].seq + (i - 1)
                                    /\ ValidLength(accepted[i])
=============================================================================
