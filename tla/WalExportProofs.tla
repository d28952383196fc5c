-------------------------- MODULE WalExportProofs --------------------------
(***************************************************************************)
(* The WAL export stream.  First what holds of the sink (WalSink) for      *)
(* every largest record, every sink capacity and every last sequence       *)
(* number: the sink appends only, and the reader never misreads what it    *)
(* left, whatever the writer and a crash did to it.  Then what holds of    *)
(* wal_to_sink (WalExport) for every WAL: it gives up only for a cause,    *)
(* and the export is an archive of the WAL (LogArchive).                   *)
(***************************************************************************)
EXTENDS WalExport, SequenceTheorems, WellFoundedInduction, TLAPS

Cells == [part : {"magic", "length", "payload"}, of : Nat, at : Nat]

TypeOK ==
  /\ buffer \in Seq(Cells)
  /\ headerEmitted \in BOOLEAN
  /\ ~headerEmitted => buffer = <<>>
  /\ lastSeq \in 0 .. MaxSeq \cup {NoSeq}
  /\ medium \in Seq(Cells)
  /\ durable \in 0 .. Len(medium)
  /\ accepted \in Seq(Records)
  /\ failures \in Nat /\ torn \in BOOLEAN /\ spliced \in BOOLEAN
  /\ torn => failures > 0
  /\ spliced => torn
  /\ kept \in 0 .. Len(accepted)
  /\ dead \in BOOLEAN

(***************************************************************************)
(* What makes the accepted records consecutive: lastSeq is the seq of the  *)
(* last one, and is unset exactly while there is none.                     *)
(***************************************************************************)
SeqInv ==
  /\ lastSeq = NoSeq <=> accepted = <<>>
  /\ accepted # <<>> => lastSeq = accepted[Len(accepted)].seq
  /\ \A i \in 1 .. Len(accepted) : /\ accepted[i].seq = accepted[1].seq + (i - 1)
                                    /\ ValidLength(accepted[i])

SinkInv == TypeOK /\ SeqInv

-----------------------------------------------------------------------------
(***************************************************************************)
(* Frames and the header are cells, of the lengths append_record counts.   *)
(***************************************************************************)
LEMMA PayloadIsCells ==
  ASSUME NEW r \in Records
  PROVE  Payload(r) \in Seq(Cells) /\ Len(Payload(r)) = r.size
<1>1. r.size \in Nat /\ r.seq \in Nat
  BY SinkAssumption DEF Records
<1>2. \A i \in 1 .. r.size :
        [part |-> "payload", of |-> r.seq, at |-> i] \in Cells
  BY <1>1 DEF Cells
<1> QED
  BY <1>1, <1>2 DEF Payload

(* A frame is a prefix of two cells and the payload.                       *)
LEMMA FrameLength ==
  ASSUME NEW r \in Records
  PROVE  /\ Frame(r) \in Seq(Cells)
         /\ Len(Frame(r)) = 2 + r.size
<1>0. r.size \in Nat /\ r.seq \in Nat
  BY SinkAssumption DEF Records
<1>1. Prefix(r.size) \in Seq(Cells) /\ Len(Prefix(r.size)) = 2
  BY <1>0 DEF Prefix, Cells
<1>2. Payload(r) \in Seq(Cells) /\ Len(Payload(r)) = r.size
  BY PayloadIsCells
<1>3. \A p, q \in Seq(Cells) : p \o q \in Seq(Cells) /\ Len(p \o q) = Len(p) + Len(q)
  OBVIOUS
<1>4. Frame(r) = Prefix(r.size) \o Payload(r)
  BY DEF Frame
<1>5. Frame(r) \in Seq(Cells)
  BY <1>1, <1>2, <1>3, <1>4, Zenon
<1>6. Len(Frame(r)) = Len(Prefix(r.size)) + Len(Payload(r))
  BY <1>1, <1>2, <1>3, <1>4, Zenon
<1> QED
  BY <1>1, <1>2, <1>5, <1>6

(* The header is put in front of the first record only.                    *)
LEMMA HeaderLength ==
  ASSUME TypeOK
  PROVE  /\ WithHeader \in Seq(Cells)
         /\ Len(WithHeader) = IF headerEmitted THEN Len(buffer) ELSE 2
<1>1. Magic \in Seq(Cells) /\ Len(Magic) = 2
  BY DEF Magic, Cells
<1>2. CASE headerEmitted
  BY <1>2 DEF WithHeader, TypeOK
<1>3. CASE ~headerEmitted
  <2>1. buffer \in Seq(Cells) /\ Len(buffer) = 0
    BY <1>3 DEF TypeOK
  <2>2. WithHeader = buffer \o Magic
    BY <1>3 DEF WithHeader
  <2>3. WithHeader \in Seq(Cells) /\ Len(WithHeader) = 2
    BY <1>1, <2>1, <2>2
  <2> QED
    BY <1>3, <2>3
<1> QED
  BY <1>2, <1>3

-----------------------------------------------------------------------------
(* The invariant holds before the first record.                            *)
LEMMA InitSinkInv == Init => SinkInv
<1> SUFFICES ASSUME Init PROVE TypeOK /\ SeqInv
  BY DEF SinkInv
<1>1. TypeOK
  <2>1. <<>> \in Seq(Cells) /\ <<>> \in Seq(Records) /\ 0 \in 0 .. Len(<<>>)
    OBVIOUS
  <2> QED
    BY <2>1, Zenon DEF Init, TypeOK
<1>2. SeqInv
  BY DEF Init, SeqInv
<1> QED
  BY <1>1, <1>2

(* Appending a record, with or without a flush, keeps the invariant.       *)
LEMMA AppendKeepsSinkInv ==
  ASSUME SinkInv, NEW r \in Records, AppendRecord(r)
  PROVE  SinkInv'
<1> USE SinkAssumption DEF SinkInv
<1>1. r.seq \in 0 .. MaxSeq /\ NoSeq \notin 0 .. MaxSeq
  BY DEF Records, NoSeq
<1>2. buffer' \in Seq(Cells)
  BY FrameLength, HeaderLength DEF AppendRecord
<1>3. TypeOK'
  BY <1>1, <1>2 DEF AppendRecord, TypeOK, writes
<1>4. /\ accepted' = Append(accepted, r) /\ lastSeq' = r.seq
      /\ accepted \in Seq(Records)
      /\ ValidLength(r)
  BY DEF AppendRecord, TypeOK
<1>5. ASSUME accepted # <<>>
      PROVE  r.seq = accepted[1].seq + Len(accepted)
  <2>1. Len(accepted) \in 1 .. Len(accepted)
    BY <1>4, <1>5
  <2>2. lastSeq = accepted[1].seq + (Len(accepted) - 1)
    BY <1>5, <2>1 DEF SeqInv
  <2>3. accepted[1] \in Records
    BY <1>4, <1>5
  <2>4. r.seq = lastSeq + 1
    BY <1>5 DEF AppendRecord, Succeeds, SeqInv
  <2> QED
    BY <1>4, <2>2, <2>3, <2>4 DEF Records
<1>6. SeqInv'
  BY <1>1, <1>4, <1>5 DEF SeqInv, ValidLength
<1> QED
  BY <1>3, <1>6

(* Every step keeps the invariant.                                         *)
LEMMA SinkInvStep ==
  ASSUME SinkInv, [Next]_vars
  PROVE  SinkInv'
<1> USE SinkAssumption DEF SinkInv
<1>0. WithHeader \in Seq(Cells)
  BY HeaderLength
<1>1. ASSUME NEW r \in Records, AppendRecord(r) PROVE SinkInv'
  BY <1>1, AppendKeepsSinkInv
<1>2. ASSUME NEW r \in Records, AppendOverflows(r) PROVE SinkInv'
  BY <1>0, <1>2 DEF AppendOverflows, TypeOK, SeqInv, writes
<1>3. CASE Flush
  BY <1>0, <1>3 DEF Flush, TypeOK, SeqInv
<1>4. CASE FlushFails
  BY <1>0, <1>4 DEF FlushFails, TypeOK, SeqInv
<1>5. CASE Crash
  BY <1>5 DEF Crash, TypeOK, SeqInv, sink, writes
<1>6. CASE UNCHANGED vars
  BY <1>6 DEF TypeOK, SeqInv, vars, sink, writes
<1> QED
  BY <1>1, <1>2, <1>3, <1>4, <1>5, <1>6 DEF Next, AppendRefused

(***************************************************************************)
(* append_record and flush keep the sink's fields in their types and the   *)
(* accepted records numbered one after the other, ending at last_seq.      *)
(***************************************************************************)
THEOREM SinkInvariant == Spec => []SinkInv
BY InitSinkInv, SinkInvStep, PTL DEF Spec

-----------------------------------------------------------------------------
(***************************************************************************)
(* The capacity the sink has by default, and every larger one: a record of *)
(* the largest size fits beside the magic and its own length prefix.       *)
(***************************************************************************)
HoldsLargestRecord == MaxRecord + 4 <= Capacity

BufferBounded == Len(buffer) <= Capacity

(* Every step keeps the buffer within its bound.                           *)
LEMMA BufferStep ==
  ASSUME HoldsLargestRecord, TypeOK, BufferBounded, [Next]_vars
  PROVE  BufferBounded'
<1> USE SinkAssumption DEF BufferBounded
<1>0. /\ WithHeader \in Seq(Cells)
      /\ Len(WithHeader) <= Capacity
  <2>1. /\ WithHeader \in Seq(Cells)
        /\ Len(WithHeader) = IF headerEmitted THEN Len(buffer) ELSE 2
    BY HeaderLength
  <2>2. 2 <= Capacity
    BY DEF HoldsLargestRecord
  <2> QED
    BY <2>1, <2>2
<1>1. ASSUME NEW r \in Records, AppendRecord(r)
      PROVE  BufferBounded'
  <2>1. /\ Frame(r) \in Seq(Cells) /\ Len(Frame(r)) = 2 + r.size
        /\ r.size \in Nat
    BY FrameLength DEF Records
  <2>2. Len(WithHeader \o Frame(r)) = Len(WithHeader) + Len(Frame(r))
    BY <1>0, <2>1, ConcatProperties, Zenon
  <2>3. buffer' = WithHeader \o Frame(r)
    BY <1>1 DEF AppendRecord
  <2>4. Len(WithHeader) + 2 + r.size <= Capacity
    BY <1>1 DEF AppendRecord, Fits
  <2>5. Len(buffer') = Len(WithHeader) + (2 + r.size) /\ Len(WithHeader) \in Nat
    BY <1>0, <2>1, <2>2, <2>3
  <2> QED
    BY <2>1, <2>4, <2>5
<1>2. CASE buffer' \in {buffer, WithHeader, <<>>}
  BY <1>0, <1>2
<1> QED
  BY <1>1, <1>2
     DEF Next, AppendOverflows, AppendRefused, Flush, FlushFails, Crash, vars, sink

(***************************************************************************)
(* A14 holds of any sequence of calls: accepted records are consecutive,   *)
(* of legal size, and never wrap past u64::MAX; and if the sink can hold   *)
(* the largest record at all, its buffer stays within its capacity and an  *)
(* empty buffer has room for every legal record.                           *)
(***************************************************************************)
THEOREM SinkAppendsOnly ==
  ASSUME HoldsLargestRecord
  PROVE  Spec => []AppendOnly
<1>1. Init => BufferBounded
  BY SinkAssumption DEF Init, BufferBounded
<1>2. SinkInv /\ BufferBounded /\ [Next]_vars => BufferBounded'
  BY BufferStep DEF SinkInv
<1>3. SinkInv /\ BufferBounded => AppendOnly
  <2> SUFFICES ASSUME SinkInv, BufferBounded PROVE AppendOnly
    OBVIOUS
  <2>1. ASSUME buffer = <<>>, NEW r \in Records, ValidLength(r)
        PROVE  Fits(r)
    <3>1. Len(WithHeader) \in {0, 2} /\ r.size \in 1 .. MaxRecord
      BY <2>1, HeaderLength DEF SinkInv, ValidLength
    <3>2. \A h \in {0, 2}, n \in 1 .. MaxRecord : h + 2 + n <= Capacity
      BY SinkAssumption DEF HoldsLargestRecord
    <3> QED
      BY <3>1, <3>2 DEF Fits
  <2> QED
    BY <2>1 DEF AppendOnly, SinkInv, SeqInv, BufferBounded
<1> QED
  BY <1>1, <1>2, <1>3, SinkInvariant, PTL DEF Spec

-----------------------------------------------------------------------------
(***************************************************************************)
(* Induction on the natural numbers, as a fact about a set.                *)
(***************************************************************************)
LEMMA SetInduction ==
  ASSUME NEW S, 0 \in S, \A n \in Nat : n \in S => n + 1 \in S
  PROVE  Nat \subseteq S
<1> SUFFICES ASSUME Nat \ S # {} PROVE FALSE
  OBVIOUS
<1>1. PICK n \in Nat \ S : \A m \in Nat \ S : ~(m < n)
  <2>1. \E n \in Nat \ S : \A m \in Nat \ S : <<m, n>> \notin OpToRel(<, Nat)
    BY WFMin, NatLessThanWellFounded, Zenon
  <2> QED
    BY <2>1, Zenon DEF OpToRel
<1>2. n # 0 /\ n - 1 \in Nat \ S
  BY <1>1
<1> QED
  BY <1>1, <1>2

(***************************************************************************)
(* What next_record answers depends on the stream from its cell on only.   *)
(***************************************************************************)
LEMMA NextRecordIsLocal ==
  ASSUME NEW s \in Seq(Cells), NEW p \in 1 .. Len(s) + 1, NEW f, NEW g,
         \A q \in p + 1 .. Len(s) + 1 : f[q] = g[q]
  PROVE  NextRecord(s, f, p) = NextRecord(s, g, p)
<1> DEFINE q == p + 2 + s[p].of
<1>1. CASE p + 1 <= Len(s) /\ q <= Len(s) + 1
  <2>1. s[p] \in Cells
    BY <1>1
  <2>2. s[p].of \in Nat
    BY <2>1 DEF Cells
  <2>3. q \in p + 1 .. Len(s) + 1
    BY <1>1, <2>2
  <2>4. f[q] = g[q]
    BY <2>3
  <2> HIDE DEF q
  <2> QED
    BY <2>4 DEF NextRecord, q
<1>2. CASE p + 1 > Len(s)
  BY <1>2, Zenon DEF NextRecord
<1>3. CASE q > Len(s) + 1
  BY <1>3, Zenon DEF NextRecord
<1>4. p + 1 <= Len(s) \/ p + 1 > Len(s)
  OBVIOUS
<1>5. CASE p + 1 <= Len(s)
  <2>1. s[p] \in Cells
    BY <1>5
  <2>2. q <= Len(s) + 1 \/ q > Len(s) + 1
    BY <2>1 DEF Cells
  <2> QED
    BY <1>1, <1>3, <1>5, <2>2, Zenon
<1> QED
  BY <1>2, <1>4, <1>5, Zenon

(***************************************************************************)
(* The reading of a stream is defined, at each of its cells, by that of    *)
(* the cells behind it.                                                    *)
(***************************************************************************)
LEMMA ReadFromDef ==
  ASSUME NEW s \in Seq(Cells)
  PROVE  \A p \in 1 .. Len(s) + 1 :
           ReadFrom(s)[p] = NextRecord(s, ReadFrom(s), p)
<1> DEFINE L == Len(s)
           From(n) == L + 1 - n .. L + 1
           Reads(f, n) == f = [p \in From(n) |-> NextRecord(s, f, p)]
           S == {n \in Nat : n <= L => \E f : Reads(f, n)}
<1>0. L \in Nat
  OBVIOUS
<1>1. 0 \in S
  <2> DEFINE f == [p \in From(0) |-> Ends("Eof")]
  <2>1. \A p \in From(0) : NextRecord(s, f, p) = Ends("Eof")
    BY <1>0 DEF NextRecord
  <2>2. Reads(f, 0)
    BY <2>1
  <2> QED
    BY <2>2
<1>2. ASSUME NEW n \in Nat, n \in S PROVE n + 1 \in S
  <2> SUFFICES ASSUME n + 1 <= L PROVE \E f : Reads(f, n + 1)
    OBVIOUS
  <2>1. PICK f : Reads(f, n)
    BY <1>0, <1>2
  <2> DEFINE g == [p \in From(n + 1) |->
                     IF p = L - n THEN NextRecord(s, f, p) ELSE f[p]]
  <2>2. \A p \in From(n + 1) : p = L - n \/ p \in From(n)
    BY <1>0
  <2>3. \A p \in From(n) : p \in From(n + 1) /\ p # L - n /\ g[p] = f[p]
    BY <1>0
  <2>4. \A p \in From(n + 1) : NextRecord(s, g, p) = NextRecord(s, f, p)
    <3> SUFFICES ASSUME NEW p \in From(n + 1)
                 PROVE  NextRecord(s, g, p) = NextRecord(s, f, p)
      OBVIOUS
    <3>1. p \in 1 .. L + 1 /\ \A q \in p + 1 .. L + 1 : q \in From(n)
      BY <1>0
    <3>2. \A q \in p + 1 .. L + 1 : g[q] = f[q]
      BY <2>3, <3>1
    <3> HIDE DEF g
    <3> QED
      BY <3>1, <3>2, NextRecordIsLocal
  <2>5. \A p \in From(n) : f[p] = NextRecord(s, f, p)
    BY <2>1
  <2>6. \A p \in From(n + 1) : g[p] = NextRecord(s, f, p)
    BY <2>2, <2>3, <2>5
  <2>7. g = [p \in From(n + 1) |-> NextRecord(s, g, p)]
    BY <2>4, <2>6
  <2> QED
    BY <2>7
<1>3. L \in S
  <2> HIDE DEF S
  <2> QED
    BY <1>0, <1>1, <1>2, SetInduction
<1>4. \E f : f = [p \in 1 .. L + 1 |-> NextRecord(s, f, p)]
  <2>1. From(L) = 1 .. L + 1
    BY <1>0
  <2>2. PICK f : Reads(f, L)
    BY <1>0, <1>3
  <2>3. f = [p \in 1 .. L + 1 |-> NextRecord(s, f, p)]
    BY <2>1, <2>2, Zenon
  <2> QED
    BY <2>3
<1>5. ReadFrom(s) = CHOOSE f : f = [p \in 1 .. L + 1 |-> NextRecord(s, f, p)]
  BY Zenon DEF ReadFrom
<1>6. ReadFrom(s) = [p \in 1 .. L + 1 |-> NextRecord(s, ReadFrom(s), p)]
  BY <1>4, <1>5, Zenon
<1> QED
  BY <1>6, Zenon

-----------------------------------------------------------------------------
(***************************************************************************)
(* w is the whole stream of the records recs: the magic, then a frame for  *)
(* each record, the frame of the i-th at cell at[i].                       *)
(***************************************************************************)
IsStream(w, at, recs) ==
  /\ w \in Seq(Cells)
  /\ at \in [1 .. Len(recs) + 1 -> Nat]
  /\ at[1] = 3 /\ at[Len(recs) + 1] = Len(w) + 1
  /\ \A i, j \in 1 .. Len(recs) + 1 : i < j => at[i] < at[j]
  /\ \A i \in 1 .. 2 : w[i] = Magic[i]
  /\ \A i \in 1 .. Len(recs) :
       /\ at[i + 1] = at[i] + 2 + recs[i].size
       /\ \A j \in 1 .. 2 + recs[i].size : w[at[i] + j - 1] = Frame(recs[i])[j]

Legal(recs) == recs \in Seq(Records) /\ \A i \in 1 .. Len(recs) : ValidLength(recs[i])

(* s is the beginning of w, cut anywhere.                                  *)
CutOf(s, w) ==
  /\ s \in Seq(Cells) /\ Len(s) <= Len(w)
  /\ \A i \in 1 .. Len(s) : s[i] = w[i]

(* From the i-th record on, the first m records are whole in s.            *)
WholeUpTo(m, i, s, at, recs) ==
  /\ m \in i - 1 .. Len(recs)
  /\ \A j \in i .. Len(recs) : j <= m <=> at[j + 1] <= Len(s) + 1

Payloads(recs, i, m) == [j \in 1 .. m - i + 1 |-> Payload(recs[i + j - 1])]

(* The reading of s from the i-th frame on returns the whole frames left.  *)
ReadsFrames(answer, i, s, w, at, recs) ==
  \E m \in i - 1 .. Len(recs), how \in {"Eof", "Truncated"} :
    /\ WholeUpTo(m, i, s, at, recs)
    /\ answer = [payloads |-> Payloads(recs, i, m), verdict |-> how]
    /\ s = w => how = "Eof"

(* The payload of r, then what is read from cell q on.                     *)
PayloadThen(r, rest, q) ==
  [payloads |-> <<Payload(r)>> \o rest[q].payloads, verdict |-> rest[q].verdict]

(***************************************************************************)
(* next_record at the head of a frame.                                     *)
(***************************************************************************)
LEMMA NextRecordAtFrame ==
  ASSUME NEW w, NEW at, NEW recs, NEW s, Legal(recs), IsStream(w, at, recs),
         CutOf(s, w), NEW i \in 1 .. Len(recs), at[i] + 1 <= Len(s),
         NEW rest
  PROVE  /\ at[i] \in 1 .. Len(s) + 1
         /\ at[i + 1] > Len(s) + 1 => NextRecord(s, rest, at[i]) = Ends("Truncated")
         /\ at[i + 1] <= Len(s) + 1 =>
              NextRecord(s, rest, at[i]) = PayloadThen(recs[i], rest, at[i + 1])
<1> DEFINE p == at[i]
           n == recs[i].size
           q == p + 2 + n
<1>1. /\ recs[i] \in Records /\ Len(recs) \in Nat
      /\ n \in 1 .. MaxRecord /\ MaxRecord \in Nat
  BY SinkAssumption DEF Legal, ValidLength
<1>2. /\ p \in Nat /\ at[i + 1] = q /\ p >= 3 /\ q <= Len(w) + 1
      /\ Len(s) \in Nat /\ Len(w) \in Nat /\ p + 1 <= Len(s)
  <2> DEFINE last == Len(recs) + 1
  <2>1. i + 1 \in 1 .. last /\ i \in 1 .. last /\ 1 \in 1 .. last /\ last \in 1 .. last
    BY <1>1
  <2>2. \A j \in 1 .. last : at[j] \in Nat
    BY DEF IsStream
  <2>3. \A j, k \in 1 .. last : j < k => at[j] < at[k]
    BY DEF IsStream
  <2>4. at[1] = 3 /\ at[last] = Len(w) + 1
    BY DEF IsStream
  <2>5. i = 1 \/ 1 < i
    OBVIOUS
  <2>6. i + 1 = last \/ i + 1 < last
    BY <1>1
  <2> HIDE DEF last
  <2>7. at[i] \in Nat /\ at[i] >= 3
    BY <2>1, <2>2, <2>3, <2>4, <2>5
  <2>8. at[i + 1] <= Len(w) + 1
    BY <2>1, <2>2, <2>3, <2>4, <2>6
  <2> QED
    BY <2>7, <2>8 DEF IsStream, CutOf
<1>3. \A j \in 1 .. 2 + n : w[p + j - 1] = Frame(recs[i])[j]
  BY DEF IsStream
<1> HIDE DEF p
<1>n. n \in Nat /\ n >= 1 /\ q = p + 2 + n
  BY <1>1
<1>4. /\ \A j \in 1 .. 2 : Frame(recs[i])[j] = Prefix(n)[j]
      /\ \A j \in 1 .. n : Frame(recs[i])[2 + j] = Payload(recs[i])[j]
      /\ Payload(recs[i]) \in Seq(Cells) /\ Len(Payload(recs[i])) = n
  <2>1. Prefix(n) \in Seq(Cells) /\ Len(Prefix(n)) = 2
    BY <1>1 DEF Prefix, Cells
  <2>2. Payload(recs[i]) \in Seq(Cells) /\ Len(Payload(recs[i])) = n
    BY <1>1, PayloadIsCells
  <2>4. Frame(recs[i]) = Prefix(n) \o Payload(recs[i])
    BY DEF Frame
  <2>5. \A j \in 1 .. 2 + n :
          Frame(recs[i])[j] = IF j <= 2 THEN Prefix(n)[j] ELSE Payload(recs[i])[j - 2]
    <3>1. \A a, b \in Seq(Cells) : \A j \in 1 .. Len(a) + Len(b) :
            (a \o b)[j] = IF j <= Len(a) THEN a[j] ELSE b[j - Len(a)]
      BY ConcatProperties, Zenon
    <3>2. \A j \in 1 .. Len(Prefix(n)) + Len(Payload(recs[i])) :
            (Prefix(n) \o Payload(recs[i]))[j] =
              IF j <= Len(Prefix(n)) THEN Prefix(n)[j]
              ELSE Payload(recs[i])[j - Len(Prefix(n))]
      BY <2>1, <2>2, <3>1, Zenon
    <3> QED
      BY <2>1, <2>2, <2>4, <3>2, Zenon
  <2>6. \A j \in 1 .. 2 : Frame(recs[i])[j] = Prefix(n)[j]
    BY <1>n, <2>5
  <2>7. \A j \in 1 .. n : Frame(recs[i])[2 + j] = Payload(recs[i])[j]
    <3> SUFFICES ASSUME NEW j \in 1 .. n
                 PROVE  Frame(recs[i])[2 + j] = Payload(recs[i])[j]
      OBVIOUS
    <3>1. 2 + j \in 1 .. 2 + n /\ ~(2 + j <= 2) /\ (2 + j) - 2 = j
      BY <1>n
    <3> QED
      BY <2>5, <3>1, Zenon
  <2> QED
    BY <2>2, <2>6, <2>7
<1>5. s[p] = [part |-> "length", of |-> n, at |-> 1]
      /\ s[p + 1] = [part |-> "length", of |-> n, at |-> 2]
  <2>1. p \in 1 .. Len(s) /\ p + 1 \in 1 .. Len(s)
    BY <1>2
  <2>2. s[p] = w[p] /\ s[p + 1] = w[p + 1]
    BY <2>1 DEF CutOf
  <2>3. /\ 1 \in 1 .. 2 + n /\ 2 \in 1 .. 2 + n
        /\ p + 1 - 1 = p /\ p + 2 - 1 = p + 1
    BY <1>1, <1>2
  <2>4. w[p] = Frame(recs[i])[1] /\ w[p + 1] = Frame(recs[i])[2]
    BY <1>3, <2>3
  <2> QED
    BY <1>4, <2>2, <2>4 DEF Prefix
<1>6. LengthAt(s, p) /\ s[p].of = n
  <2>1. [[part |-> "length", of |-> n, at |-> 1] EXCEPT !.at = 2]
          = [part |-> "length", of |-> n, at |-> 2]
    OBVIOUS
  <2>2. s[p + 1] = [s[p] EXCEPT !.at = 2]
    BY <1>5, <2>1, Zenon
  <2>3. s[p].part = "length" /\ s[p].at = 1 /\ s[p].of = n
    BY <1>5
  <2> QED
    BY <2>2, <2>3, Zenon DEF LengthAt
<1> HIDE DEF n, q
<1>7. ASSUME q <= Len(s) + 1
      PROVE  SubSeq(s, p + 2, q - 1) = Payload(recs[i])
  <2>1. \A j \in 1 .. n : s[p + 2 + j - 1] = Payload(recs[i])[j]
    <3> SUFFICES ASSUME NEW j \in 1 .. n
                 PROVE  s[p + 2 + j - 1] = Payload(recs[i])[j]
      OBVIOUS
    <3>1. 2 + j \in 1 .. 2 + n /\ p + (2 + j) - 1 = p + 2 + j - 1
      BY <1>n, <1>2
    <3>2. p + 2 + j - 1 \in 1 .. Len(s)
      BY <1>n, <1>2, <1>7
    <3>3. s[p + 2 + j - 1] = w[p + 2 + j - 1]
      BY <3>2 DEF CutOf
    <3>4. w[p + (2 + j) - 1] = Frame(recs[i])[2 + j]
      BY <1>3, <3>1
    <3> QED
      BY <1>4, <3>1, <3>3, <3>4
  <2>2. \A j \in p + 2 .. q - 1 : s[j] \in Cells
    <3>1. p + 2 .. q - 1 \subseteq 1 .. Len(s)
      BY <1>n, <1>2, <1>7
    <3> QED
      BY <3>1 DEF CutOf
  <2>3. p + 2 \in Int /\ q - 1 \in Int /\ p + 2 <= q - 1 /\ (q - 1) - (p + 2) + 1 = n
    BY <1>n, <1>2
  <2>4. /\ SubSeq(s, p + 2, q - 1) \in Seq(Cells)
        /\ Len(SubSeq(s, p + 2, q - 1)) = n
        /\ \A j \in 1 .. n : SubSeq(s, p + 2, q - 1)[j] = s[p + 2 + j - 1]
    BY <2>2, <2>3, SubSeqProperties
  <2>5. \A j \in 1 .. n : SubSeq(s, p + 2, q - 1)[j] = Payload(recs[i])[j]
    BY <2>1, <2>4
  <2> QED
    BY <1>4, <2>4, <2>5, SeqEqual
<1> QED
  <2>0. s[p].of \in 1 .. MaxRecord /\ p + 2 + s[p].of = q
    BY <1>1, <1>6, <1>n DEF n
  <2>1. /\ ~(p = Len(s) + 1) /\ ~(p + 1 > Len(s))
        /\ ~(s[p].of = 0) /\ ~(s[p].of > MaxRecord)
    BY <1>1, <1>2, <2>0
  <2>2. ASSUME q > Len(s) + 1
        PROVE  NextRecord(s, rest, p) = Ends("Truncated")
    BY <1>6, <2>0, <2>1, <2>2, Zenon DEF NextRecord
  <2>3. ASSUME q <= Len(s) + 1
        PROVE  NextRecord(s, rest, p) = PayloadThen(recs[i], rest, q)
    <3>1. ~(q > Len(s) + 1)
      BY <1>n, <1>2, <2>3
    <3> QED
      BY <1>6, <1>7, <2>0, <2>1, <2>3, <3>1, Zenon DEF NextRecord, PayloadThen
  <2> QED
    BY <1>2, <2>2, <2>3 DEF p

(***************************************************************************)
(* Where frames start, in a stream and in what a cut leaves of it.         *)
(***************************************************************************)
LEMMA StartsGrow ==
  ASSUME NEW w, NEW at, NEW recs, Legal(recs), IsStream(w, at, recs),
         NEW i \in 1 .. Len(recs) + 1
  PROVE  /\ Len(recs) \in Nat /\ at[i] \in 3 .. Len(w) + 1 /\ Len(w) \in Nat
         /\ \A j \in i .. Len(recs) :
              at[j + 1] \in Nat /\ at[j + 1] >= at[i] + 2
<1> DEFINE last == Len(recs) + 1
<1>1. Len(recs) \in Nat /\ Len(w) \in Nat
  BY DEF Legal, IsStream
<1>2. /\ \A j \in 1 .. last : at[j] \in Nat
      /\ \A j, k \in 1 .. last : j < k => at[j] < at[k]
      /\ at[1] = 3 /\ at[last] = Len(w) + 1
  BY DEF IsStream
<1>3. 1 \in 1 .. last /\ last \in 1 .. last /\ i \in Nat
  BY <1>1
<1>4. at[i] \in 3 .. Len(w) + 1
  <2>1. (i = 1 \/ 1 < i) /\ (i = last \/ i < last)
    BY <1>1
  <2> HIDE DEF last
  <2> QED
    BY <1>1, <1>2, <1>3, <2>1
<1>5. ASSUME NEW j \in i .. Len(recs)
      PROVE  at[j + 1] \in Nat /\ at[j + 1] >= at[i] + 2
  <2>1. /\ j \in 1 .. Len(recs) /\ j + 1 \in 1 .. last /\ j \in 1 .. last
        /\ (i = j \/ i < j)
    BY <1>1, <1>3
  <2>2. recs[j] \in Records
    BY <2>1 DEF Legal
  <2>3. recs[j].size \in Nat
    BY <2>2, SinkAssumption DEF Records
  <2>4. at[j + 1] = at[j] + 2 + recs[j].size
    BY <2>1 DEF IsStream
  <2>5. at[j] \in Nat /\ at[i] \in Nat /\ (i = j \/ at[i] < at[j])
    BY <1>2, <2>1
  <2> HIDE DEF last
  <2> QED
    BY <2>3, <2>4, <2>5
<1> QED
  BY <1>1, <1>4, <1>5

(***************************************************************************)
(* A function on 1 .. n is a sequence.                                     *)
(***************************************************************************)
LEMMA FunctionIsSeq ==
  ASSUME NEW T, NEW n \in Nat, NEW f \in [1 .. n -> T]
  PROVE  f \in Seq(T) /\ Len(f) = n
OBVIOUS

(***************************************************************************)
(* Reading a cut of a stream from the head of any of its frames.           *)
(***************************************************************************)
LEMMA ReadFromFrame ==
  ASSUME NEW w, NEW at, NEW recs, NEW s, Legal(recs), IsStream(w, at, recs),
         CutOf(s, w)
  PROVE  \A i \in 1 .. Len(recs) + 1 :
           at[i] <= Len(s) + 1 =>
             ReadsFrames(ReadFrom(s)[at[i]], i, s, w, at, recs)
<1> DEFINE N == Len(recs)
           Reads(i) == at[i] <= Len(s) + 1 =>
                         ReadsFrames(ReadFrom(s)[at[i]], i, s, w, at, recs)
           S == {n \in Nat : n <= N => Reads(N + 1 - n)}
<1>0. N \in Nat /\ Len(s) \in Nat /\ Len(w) \in Nat /\ Len(s) <= Len(w) /\ s \in Seq(Cells)
  BY DEF Legal, IsStream, CutOf
<1>1. ASSUME NEW i \in 1 .. N + 1, at[i] <= Len(s) + 1
      PROVE  ReadFrom(s)[at[i]] = NextRecord(s, ReadFrom(s), at[i])
  <2>1. at[i] \in 1 .. Len(s) + 1
    BY <1>0, <1>1, StartsGrow
  <2> QED
    BY <1>0, <2>1, ReadFromDef
<1>2. ASSUME NEW i \in 1 .. N + 1, \A j \in i .. N : at[j + 1] > Len(s) + 1,
             NEW answer \in {Ends("Eof"), Ends("Truncated")},
             s = w => answer = Ends("Eof")
      PROVE  ReadsFrames(answer, i, s, w, at, recs)
  <2>1. i - 1 \in i - 1 .. N
    BY <1>0
  <2>2. WholeUpTo(i - 1, i, s, at, recs)
    <3> SUFFICES ASSUME NEW j \in i .. N
                 PROVE  j <= i - 1 <=> at[j + 1] <= Len(s) + 1
      BY <2>1 DEF WholeUpTo
    <3>1. at[j + 1] \in Nat
      BY StartsGrow
    <3> QED
      BY <1>0, <1>2, <3>1
  <2>3. Payloads(recs, i, i - 1) = <<>>
    <3>1. (i - 1) - i + 1 = 0
      BY <1>0
    <3> QED
      BY <3>1 DEF Payloads
  <2> QED
    BY <1>2, <2>1, <2>2, <2>3 DEF ReadsFrames, Ends
<1>3. 0 \in S
  <2> SUFFICES Reads(N + 1)
    BY <1>0
  <2> SUFFICES ASSUME at[N + 1] <= Len(s) + 1
               PROVE  ReadsFrames(ReadFrom(s)[at[N + 1]], N + 1, s, w, at, recs)
    OBVIOUS
  <2>1. N + 1 \in 1 .. N + 1 /\ \A j \in N + 1 .. N : FALSE
    BY <1>0
  <2>2. at[N + 1] = Len(s) + 1
    BY <1>0 DEF IsStream
  <2>3. NextRecord(s, ReadFrom(s), at[N + 1]) = Ends("Eof")
    BY <2>2 DEF NextRecord
  <2> HIDE DEF N
  <2>4. ReadFrom(s)[at[N + 1]] = Ends("Eof")
    BY <1>1, <2>1, <2>3
  <2> QED
    BY <1>2, <2>1, <2>4
<1>4. ASSUME NEW n \in Nat, n \in S PROVE n + 1 \in S
  <2> SUFFICES ASSUME n + 1 <= N PROVE Reads(N + 1 - (n + 1))
    OBVIOUS
  <2> DEFINE i == N - n
  <2>1. i \in 1 .. N /\ N + 1 - (n + 1) = i /\ N + 1 - n = i + 1
    BY <1>0
  <2>2. Reads(i + 1)
    BY <1>0, <1>4, <2>1
  <2> HIDE DEF N, i
  <2> SUFFICES ASSUME at[i] <= Len(s) + 1
               PROVE  ReadsFrames(ReadFrom(s)[at[i]], i, s, w, at, recs)
    BY <2>1
  <2>3. i \in 1 .. N + 1 /\ i + 1 \in 1 .. N + 1
    BY <1>0, <2>1
  <2>4. ReadFrom(s)[at[i]] = NextRecord(s, ReadFrom(s), at[i])
    BY <1>1, <2>3
  <2>5. at[i] \in Nat /\ \A j \in i .. N : at[j + 1] \in Nat /\ at[j + 1] >= at[i] + 2
    BY <2>3, StartsGrow DEF N
  <2>i. /\ i \in 1 .. Len(recs) /\ at[i + 1] \in Nat
        /\ at[i + 1] <= Len(w) + 1 /\ at[i + 1] >= at[i] + 2
    <3>1. i \in 1 .. Len(recs) /\ i + 1 \in 1 .. Len(recs) + 1 /\ i \in i .. N
      BY <1>0, <2>1, <2>3 DEF N
    <3>2. at[i + 1] \in 3 .. Len(w) + 1
      BY <3>1, StartsGrow
    <3> QED
      BY <1>0, <2>5, <3>1, <3>2
  <2>6. CASE at[i] = Len(s) + 1
    <3>1. NextRecord(s, ReadFrom(s), at[i]) = Ends("Eof")
      BY <2>6, Zenon DEF NextRecord
    <3>2. \A j \in i .. N : at[j + 1] > Len(s) + 1
      BY <1>0, <2>5, <2>6
    <3> QED
      BY <1>2, <2>3, <2>4, <3>1, <3>2
  <2>7. CASE at[i] = Len(s)
    <3>1. /\ ~(at[i] = Len(s) + 1) /\ at[i] + 1 > Len(s)
          /\ \A j \in i .. N : at[j + 1] > Len(s) + 1
      BY <1>0, <2>5, <2>7
    <3>2. NextRecord(s, ReadFrom(s), at[i]) = Ends("Truncated")
      BY <3>1, Zenon DEF NextRecord
    <3>3. s # w
      BY <1>0, <2>i, <2>7
    <3> QED
      BY <1>2, <2>3, <2>4, <3>1, <3>2, <3>3
  <2>8. CASE at[i] + 1 <= Len(s) /\ at[i + 1] > Len(s) + 1
    <3>1. ReadFrom(s)[at[i]] = Ends("Truncated")
      BY <2>i, <2>4, <2>8, NextRecordAtFrame
    <3>2. ASSUME NEW j \in i .. N PROVE at[j + 1] > Len(s) + 1
      <4>1. j = i \/ j \in i + 1 .. N
        BY <2>1
      <4>2. j \in i + 1 .. N => at[j + 1] \in Nat /\ at[j + 1] >= at[i + 1] + 2
        BY <2>3, StartsGrow DEF N
      <4> QED
        BY <1>0, <2>i, <2>8, <4>1, <4>2
    <3>3. s # w
      BY <1>0, <2>i, <2>8
    <3> QED
      BY <1>2, <2>3, <3>1, <3>2, <3>3
  <2>9. CASE at[i] + 1 <= Len(s) /\ at[i + 1] <= Len(s) + 1
    <3> DEFINE rest == ReadFrom(s)[at[i + 1]]
    <3>1. ReadsFrames(rest, i + 1, s, w, at, recs)
      BY <2>2, <2>9
    <3> HIDE DEF rest
    <3>2. PICK m \in (i + 1) - 1 .. N, how \in {"Eof", "Truncated"} :
            /\ WholeUpTo(m, i + 1, s, at, recs)
            /\ rest = [payloads |-> Payloads(recs, i + 1, m), verdict |-> how]
            /\ s = w => how = "Eof"
      BY <3>1 DEF ReadsFrames, N
    <3>3. ReadFrom(s)[at[i]] =
            [payloads |-> <<Payload(recs[i])>> \o Payloads(recs, i + 1, m),
             verdict  |-> how]
      <4>1. ReadFrom(s)[at[i]] =
              [payloads |-> <<Payload(recs[i])>> \o ReadFrom(s)[at[i + 1]].payloads,
               verdict  |-> ReadFrom(s)[at[i + 1]].verdict]
        <5>1. NextRecord(s, ReadFrom(s), at[i]) =
                PayloadThen(recs[i], ReadFrom(s), at[i + 1])
          BY <2>i, <2>9, NextRecordAtFrame
        <5> QED
          BY <2>4, <5>1, Zenon DEF PayloadThen
      <4>2. rest.payloads = Payloads(recs, i + 1, m) /\ rest.verdict = how
        BY <3>2
      <4> QED
        BY <4>1, <4>2, Zenon DEF rest
    <3>4. m \in i .. N /\ m \in i - 1 .. N /\ m - i + 1 \in Nat /\ m - (i + 1) + 1 = m - i
          /\ m - i \in Nat
      BY <1>0, <2>1, <3>2
    <3>5. <<Payload(recs[i])>> \o Payloads(recs, i + 1, m) = Payloads(recs, i, m)
      <4> DEFINE a == <<Payload(recs[i])>>
                 b == Payloads(recs, i + 1, m)
                 c == Payloads(recs, i, m)
                 T == Seq(Cells)
      <4>1. \A k \in 1 .. N : Payload(recs[k]) \in T
        BY PayloadIsCells DEF Legal, N
      <4>2. a \in Seq(T) /\ Len(a) = 1 /\ a[1] = Payload(recs[i])
        BY <2>1, <4>1
      <4>3. b \in Seq(T) /\ Len(b) = m - i
            /\ \A j \in 1 .. m - i : b[j] = Payload(recs[i + j])
        <5>1. \A j \in 1 .. m - i : (i + 1) + j - 1 = i + j /\ i + j \in 1 .. N
          BY <1>0, <2>1, <3>4
        <5>2. b = [j \in 1 .. m - i |-> Payload(recs[i + j])]
          BY <3>4, <5>1 DEF Payloads
        <5>3. b \in [1 .. m - i -> T]
          <6> HIDE DEF T, b
          <6> QED
            BY <4>1, <5>1, <5>2
        <5>4. b \in Seq(T) /\ Len(b) = m - i
          <6> HIDE DEF T, b
          <6> QED
            BY <3>4, <5>3, FunctionIsSeq
        <5> HIDE DEF T, b
        <5> QED
          BY <5>2, <5>4, Zenon
      <4>4. c \in Seq(T) /\ Len(c) = m - i + 1
            /\ \A j \in 1 .. m - i + 1 : c[j] = Payload(recs[i + j - 1])
        <5>1. \A j \in 1 .. m - i + 1 : i + j - 1 \in 1 .. N
          BY <1>0, <2>1, <3>4
        <5>2. c = [j \in 1 .. m - i + 1 |-> Payload(recs[i + j - 1])]
          BY DEF Payloads
        <5>3. c \in [1 .. m - i + 1 -> T]
          <6> HIDE DEF T, c
          <6> QED
            BY <4>1, <5>1, <5>2
        <5>4. c \in Seq(T) /\ Len(c) = m - i + 1
          <6> HIDE DEF T, c
          <6> QED
            BY <3>4, <5>3, FunctionIsSeq
        <5> HIDE DEF T, c
        <5> QED
          BY <5>2, <5>4, Zenon
      <4> HIDE DEF a, b, c, T
      <4>5. a \o b \in Seq(T) /\ Len(a \o b) = m - i + 1
            /\ \A j \in 1 .. m - i + 1 :
                 (a \o b)[j] = IF j <= 1 THEN a[j] ELSE b[j - 1]
        <5>1. /\ a \o b \in Seq(T) /\ Len(a \o b) = Len(a) + Len(b)
              /\ \A j \in 1 .. Len(a) + Len(b) :
                   (a \o b)[j] = IF j <= Len(a) THEN a[j] ELSE b[j - Len(a)]
          BY <4>2, <4>3, ConcatProperties, Zenon
        <5>2. Len(a) + Len(b) = m - i + 1
          BY <3>4, <4>2, <4>3
        <5> QED
          BY <4>2, <5>1, <5>2, Zenon
      <4>6. ASSUME NEW j \in 1 .. m - i + 1 PROVE (a \o b)[j] = c[j]
        <5>1. CASE j = 1
          <6>1. i + j - 1 = i
            BY <2>1, <5>1
          <6> QED
            BY <4>2, <4>4, <4>5, <5>1, <6>1
        <5>2. CASE j # 1
          <6>1. j - 1 \in 1 .. m - i /\ i + (j - 1) = i + j - 1 /\ ~(j <= 1)
            BY <2>1, <3>4, <5>2
          <6> QED
            BY <4>3, <4>4, <4>5, <6>1
        <5> QED
          BY <5>1, <5>2
      <4>7. a \o b = c
        BY <4>4, <4>5, <4>6, SeqEqual
      <4> QED
        BY <4>7 DEF a, b, c
    <3>6. WholeUpTo(m, i, s, at, recs)
      <4> SUFFICES ASSUME NEW j \in i .. N
                   PROVE  j <= m <=> at[j + 1] <= Len(s) + 1
        BY <3>4 DEF WholeUpTo, N
      <4>1. j = i \/ j \in i + 1 .. N
        BY <2>1
      <4>2. j \in i + 1 .. N => (j <= m <=> at[j + 1] <= Len(s) + 1)
        BY <3>2 DEF WholeUpTo, N
      <4> QED
        BY <2>9, <3>4, <4>1, <4>2
    <3> QED
      BY <3>2, <3>3, <3>4, <3>5, <3>6 DEF ReadsFrames, N
  <2> QED
    BY <1>0, <2>5, <2>i, <2>6, <2>7, <2>8, <2>9
<1>5. \A n \in Nat : n \in S
  <2> HIDE DEF S
  <2> QED
    BY <1>3, <1>4, SetInduction
<1>6. ASSUME NEW i \in 1 .. N + 1 PROVE Reads(i)
  <2>1. N + 1 - i \in Nat /\ N + 1 - i <= N /\ N + 1 - (N + 1 - i) = i
    BY <1>0
  <2>2. Reads(N + 1 - (N + 1 - i))
    <3> HIDE DEF Reads
    <3> QED
      BY <1>5, <2>1
  <2> QED
    BY <2>1, <2>2
<1> QED
  BY <1>6

-----------------------------------------------------------------------------
(***************************************************************************)
(* Concatenation and initial segments, element by element.                 *)
(***************************************************************************)
LEMMA ConcatIs ==
  \A a, b \in Seq(Cells) :
    /\ a \o b \in Seq(Cells)
    /\ Len(a \o b) = Len(a) + Len(b)
    /\ \A j \in 1 .. Len(a) : (a \o b)[j] = a[j]
    /\ \A j \in 1 .. Len(b) : (a \o b)[Len(a) + j] = b[j]
<1> TAKE a, b \in Seq(Cells)
<1>1. /\ a \o b \in Seq(Cells) /\ Len(a \o b) = Len(a) + Len(b)
      /\ \A j \in 1 .. Len(a) + Len(b) :
           (a \o b)[j] = IF j <= Len(a) THEN a[j] ELSE b[j - Len(a)]
  BY ConcatProperties, Zenon
<1>2. Len(a) \in Nat /\ Len(b) \in Nat
  OBVIOUS
<1> DEFINE c == a \o b
<1>3. \A j \in 1 .. Len(a) + Len(b) :
        c[j] = IF j <= Len(a) THEN a[j] ELSE b[j - Len(a)]
  BY <1>1
<1> HIDE DEF c
<1>4. \A j \in 1 .. Len(a) : c[j] = a[j]
  BY <1>2, <1>3
<1>5. \A j \in 1 .. Len(b) : c[Len(a) + j] = b[j]
  BY <1>2, <1>3
<1> QED
  BY <1>1, <1>4, <1>5 DEF c

(* The first n elements of a sequence.                                     *)
LEMMA InitialSegment ==
  ASSUME NEW T, NEW a \in Seq(T), NEW n \in 0 .. Len(a)
  PROVE  /\ SubSeq(a, 1, n) \in Seq(T)
         /\ Len(SubSeq(a, 1, n)) = n
         /\ \A j \in 1 .. n : SubSeq(a, 1, n)[j] = a[j]
OBVIOUS

(***************************************************************************)
(* Reading a cut of a whole stream.                                        *)
(***************************************************************************)
LEMMA ReadCut ==
  ASSUME NEW w, NEW at, NEW recs, NEW s, Legal(recs), IsStream(w, at, recs),
         CutOf(s, w)
  PROVE  \E m \in 0 .. Len(recs), how \in {"Eof", "Truncated", "HeaderMissing"} :
           /\ WholeUpTo(m, 1, s, at, recs)
           /\ Read(s) = [payloads |-> Payloads(recs, 1, m), verdict |-> how]
           /\ s = w => how = "Eof"
<1> DEFINE N == Len(recs)
<1>1. /\ N \in Nat /\ 1 \in 1 .. N + 1 /\ N + 1 \in 1 .. N + 1
      /\ Len(s) \in Nat /\ Len(w) \in Nat /\ Len(s) <= Len(w) /\ s \in Seq(Cells)
  BY DEF Legal, IsStream, CutOf
<1>2. at[1] = 3 /\ Len(w) >= 2
  <2>1. at[N + 1] \in 3 .. Len(w) + 1 /\ at[1] = 3
    BY <1>1, StartsGrow DEF IsStream
  <2> QED
    BY <1>1, <2>1
<1>3. \A j \in 1 .. N : at[j + 1] \in Nat /\ at[j + 1] >= 5
  BY <1>1, <1>2, StartsGrow
<1>4. CASE Len(s) < 2
  <2>1. Read(s) = Ends("HeaderMissing")
    BY <1>4 DEF Read
  <2>2. 0 \in 0 .. N /\ 0 \in 1 - 1 .. N /\ Payloads(recs, 1, 0) = <<>>
    BY <1>1 DEF Payloads
  <2>3. WholeUpTo(0, 1, s, at, recs)
    <3>1. \A j \in 1 .. N : ~(j <= 0) /\ ~(at[j + 1] <= Len(s) + 1)
      BY <1>1, <1>3, <1>4
    <3> QED
      BY <2>2, <3>1 DEF WholeUpTo, N
  <2>4. s # w
    BY <1>1, <1>2, <1>4
  <2>5. Read(s) = [payloads |-> Payloads(recs, 1, 0), verdict |-> "HeaderMissing"]
    BY <2>1, <2>2 DEF Ends
  <2> QED
    BY <2>2, <2>3, <2>4, <2>5 DEF N
<1>5. CASE Len(s) >= 2
  <2>1. SubSeq(s, 1, 2) = Magic
    <3>1. 2 \in 0 .. Len(s)
      BY <1>1, <1>5
    <3>2. /\ SubSeq(s, 1, 2) \in Seq(Cells) /\ Len(SubSeq(s, 1, 2)) = 2
          /\ \A j \in 1 .. 2 : SubSeq(s, 1, 2)[j] = s[j]
      BY <1>1, <3>1, InitialSegment
    <3>3. \A j \in 1 .. 2 : s[j] = Magic[j]
      <4>1. 1 .. 2 \subseteq 1 .. Len(s)
        BY <1>1, <1>5
      <4> QED
        BY <4>1 DEF IsStream, CutOf
    <3>4. Magic \in Seq(Cells) /\ Len(Magic) = 2
      BY DEF Magic, Cells
    <3>5. \A j \in 1 .. Len(SubSeq(s, 1, 2)) : SubSeq(s, 1, 2)[j] = Magic[j]
      BY <3>2, <3>3
    <3> QED
      BY <3>2, <3>4, <3>5, SeqEqual, Zenon
  <2>2. Read(s) = ReadFrom(s)[at[1]]
    <3>1. ~(Len(s) < 2)
      BY <1>1, <1>5
    <3> QED
      BY <1>2, <2>1, <3>1, Zenon DEF Read
  <2>3. at[1] <= Len(s) + 1
    BY <1>1, <1>2, <1>5
  <2>4. ReadsFrames(ReadFrom(s)[at[1]], 1, s, w, at, recs)
    BY <1>1, <2>3, ReadFromFrame
  <2>5. ReadsFrames(Read(s), 1, s, w, at, recs)
    BY <2>2, <2>4, Zenon
  <2>6. 1 - 1 = 0
    OBVIOUS
  <2> QED
    BY <2>5, <2>6 DEF ReadsFrames
<1> QED
  BY <1>1, <1>4, <1>5

(***************************************************************************)
(* A stream with one more frame at its end.                                *)
(***************************************************************************)
NextStart(at, recs, r) ==
  [i \in 1 .. Len(recs) + 2 |->
     IF i = Len(recs) + 2 THEN at[Len(recs) + 1] + 2 + r.size ELSE at[i]]

(* A stream followed by the frame of a record is the stream of one record  *)
(* more.                                                                   *)
LEMMA StreamGrows ==
  ASSUME NEW w, NEW at, NEW recs, NEW r \in Records, Legal(recs), ValidLength(r),
         IsStream(w, at, recs)
  PROVE  IsStream(w \o Frame(r), NextStart(at, recs, r), Append(recs, r))
<1> DEFINE N == Len(recs)
           v == w \o Frame(r)
           to == NextStart(at, recs, r)
           more == Append(recs, r)
<1>1. /\ N \in Nat /\ Len(w) \in Nat /\ w \in Seq(Cells) /\ recs \in Seq(Records)
      /\ r.size \in Nat /\ r.size >= 1
  BY SinkAssumption DEF Legal, IsStream, ValidLength
<1>2. /\ Len(more) = N + 1 /\ more[N + 1] = r
      /\ \A i \in 1 .. N : more[i] = recs[i]
  BY <1>1
<1>3. /\ Frame(r) \in Seq(Cells) /\ Len(Frame(r)) = 2 + r.size
  BY FrameLength
<1>4. /\ v \in Seq(Cells) /\ Len(v) = Len(w) + 2 + r.size
      /\ \A j \in 1 .. Len(w) : v[j] = w[j]
      /\ \A j \in 1 .. 2 + r.size : v[Len(w) + j] = Frame(r)[j]
  <2>1. /\ v \in Seq(Cells) /\ Len(v) = Len(w) + Len(Frame(r))
        /\ \A j \in 1 .. Len(w) : v[j] = w[j]
        /\ \A j \in 1 .. Len(Frame(r)) : v[Len(w) + j] = Frame(r)[j]
    BY <1>1, <1>3, ConcatIs, Zenon
  <2> HIDE DEF v
  <2> QED
    BY <1>1, <1>3, <2>1
<1>5. /\ at[1] = 3 /\ at[N + 1] = Len(w) + 1
      /\ \A i \in 1 .. N + 1 : at[i] \in Nat
      /\ \A i, j \in 1 .. N + 1 : i < j => at[i] < at[j]
  BY DEF IsStream
<1>6. /\ to[N + 2] = Len(w) + 3 + r.size
      /\ \A i \in 1 .. N + 1 : to[i] = at[i]
      /\ to \in [1 .. N + 2 -> Nat]
  <2>1. \A i \in 1 .. N + 2 :
          to[i] = IF i = N + 2 THEN at[N + 1] + 2 + r.size ELSE at[i]
    BY DEF NextStart
  <2>2. at[N + 1] + 2 + r.size = Len(w) + 3 + r.size
    BY <1>1, <1>5
  <2>3. \A i \in 1 .. N + 1 : i # N + 2 /\ i \in 1 .. N + 2
    BY <1>1
  <2>4. N + 2 \in 1 .. N + 2
    BY <1>1
  <2>5. \A i \in 1 .. N + 2 : i = N + 2 \/ i \in 1 .. N + 1
    BY <1>1
  <2>6. DOMAIN to = 1 .. N + 2 /\ to = [i \in 1 .. N + 2 |-> to[i]]
    BY DEF NextStart
  <2> HIDE DEF to, N
  <2>7. to[N + 2] = Len(w) + 3 + r.size
    BY <2>1, <2>2, <2>4
  <2>8. \A i \in 1 .. N + 1 : to[i] = at[i]
    BY <2>1, <2>3
  <2>9. \A i \in 1 .. N + 2 : to[i] \in Nat
    <3>1. to[N + 2] \in Nat
      BY <1>1, <2>7
    <3>2. \A i \in 1 .. N + 1 : to[i] \in Nat
      BY <1>5, <2>8, Zenon
    <3> QED
      BY <2>5, <3>1, <3>2, Zenon
  <2> QED
    BY <2>6, <2>7, <2>8, <2>9
<1> HIDE DEF v, to, N, more
<1>7. \A i, j \in 1 .. N + 2 : i < j => to[i] < to[j]
  <2> SUFFICES ASSUME NEW i \in 1 .. N + 2, NEW j \in 1 .. N + 2, i < j
               PROVE  to[i] < to[j]
    OBVIOUS
  <2>1. i \in 1 .. N + 1
    BY <1>1
  <2>2. CASE j \in 1 .. N + 1
    BY <1>5, <1>6, <2>1, <2>2
  <2>3. CASE j = N + 2
    <3>1. N + 1 \in 1 .. N + 1 /\ (i = N + 1 \/ i < N + 1)
      BY <1>1, <2>1
    <3>2. at[i] <= Len(w) + 1 /\ at[i] \in Nat
      BY <1>1, <1>5, <2>1, <3>1
    <3> QED
      BY <1>1, <1>6, <2>1, <2>3, <3>2
  <2> QED
    BY <1>1, <2>2, <2>3
<1>8. \A i \in 1 .. 2 : v[i] = Magic[i]
  <2>1. N + 1 \in 1 .. N + 1
    BY <1>1
  <2>2. at[N + 1] \in 3 .. Len(w) + 1
    BY <2>1, StartsGrow DEF N
  <2>3. 1 .. 2 \subseteq 1 .. Len(w)
    BY <1>1, <2>2
  <2> QED
    BY <1>4, <2>3 DEF IsStream
<1>9. ASSUME NEW i \in 1 .. N + 1
      PROVE  /\ to[i + 1] = to[i] + 2 + more[i].size
             /\ \A j \in 1 .. 2 + more[i].size : v[to[i] + j - 1] = Frame(more[i])[j]
  <2>1. CASE i = N + 1
    <3>1. to[i + 1] = Len(w) + 3 + r.size /\ to[i] = Len(w) + 1 /\ more[i] = r
      <4>1. i + 1 = N + 2 /\ i \in 1 .. N + 1
        BY <1>1, <2>1
      <4> QED
        BY <1>2, <1>5, <1>6, <2>1, <4>1
    <3>2. \A j \in 1 .. 2 + r.size : (Len(w) + 1) + j - 1 = Len(w) + j
      BY <1>1
    <3>3. Len(w) + 3 + r.size = (Len(w) + 1) + 2 + r.size
      BY <1>1
    <3> QED
      BY <1>4, <3>1, <3>2, <3>3, Zenon
  <2>2. CASE i \in 1 .. N
    <3>1. i + 1 \in 1 .. N + 1
      BY <1>1, <2>2
    <3>2. to[i + 1] = at[i + 1] /\ to[i] = at[i] /\ more[i] = recs[i]
      BY <1>2, <1>6, <2>2, <3>1
    <3>3. /\ at[i + 1] = at[i] + 2 + recs[i].size
          /\ \A j \in 1 .. 2 + recs[i].size : w[at[i] + j - 1] = Frame(recs[i])[j]
      BY <2>2 DEF IsStream, N
    <3>4. recs[i].size \in Nat /\ at[i] \in Nat /\ at[i] >= 3
      <4>1. recs[i] \in Records
        BY <1>1, <2>2 DEF N
      <4>2. at[i] \in 3 .. Len(w) + 1
        BY StartsGrow DEF N
      <4>3. recs[i].size \in Nat
        BY <4>1, SinkAssumption DEF Records
      <4> QED
        BY <4>2, <4>3
    <3>5. at[i + 1] \in 3 .. Len(w) + 1
      BY <3>1, StartsGrow DEF N
    <3>6. \A j \in 1 .. 2 + recs[i].size : at[i] + j - 1 \in 1 .. Len(w)
      <4> DEFINE a == at[i]
                 b == at[i + 1]
                 n == recs[i].size
      <4>1. a \in Nat /\ a >= 3 /\ n \in Nat /\ b = a + 2 + n /\ b <= Len(w) + 1
        BY <1>1, <3>3, <3>4, <3>5
      <4> HIDE DEF a, b, n
      <4>2. \A j \in 1 .. 2 + n : a + j - 1 \in 1 .. Len(w)
        BY <1>1, <4>1
      <4> QED
        BY <4>2 DEF a, n
    <3> QED
      BY <1>4, <3>2, <3>3, <3>6
  <2> QED
    BY <1>1, <2>1, <2>2
<1>10. to[1] = 3 /\ to[N + 2] = Len(v) + 1
  <2>1. 1 \in 1 .. N + 1
    BY <1>1
  <2>2. to[1] = 3
    BY <1>5, <1>6, <2>1
  <2>3. to[N + 2] = Len(w) + 3 + r.size /\ Len(v) = Len(w) + 2 + r.size
    BY <1>4, <1>6
  <2>4. \A x, y \in Nat : x + 3 + y = (x + 2 + y) + 1
    OBVIOUS
  <2> QED
    BY <1>1, <2>2, <2>3, <2>4, Zenon
<1>11. Len(more) + 1 = N + 2
  BY <1>1, <1>2
<1>12. IsStream(v, to, more)
  BY <1>2, <1>4, <1>6, <1>7, <1>8, <1>9, <1>10, <1>11 DEF IsStream
<1> QED
  BY <1>12 DEF v, to, more

-----------------------------------------------------------------------------
(***************************************************************************)
(* What the reader relies on until a flush writes behind a torn one.      *)
(* There is a whole stream of the accepted records of which the medium is  *)
(* a cut; until a flush is torn or the process dies, the medium and the    *)
(* buffer together are all of it, and all of the medium is durable.  A     *)
(* torn flush leaves the buffer full, and only a splice empties it.        *)
(***************************************************************************)
Streamed(w, at) ==
  /\ IsStream(w, at, accepted)
  /\ CutOf(medium, w)
  /\ ~torn /\ ~dead => w = medium \o WithHeader

StreamInv ==
  /\ SinkInv
  /\ ~headerEmitted => medium = <<>> /\ accepted = <<>>
  /\ ~torn /\ ~dead => durable = Len(medium)
  /\ ~spliced => /\ torn => headerEmitted /\ buffer # <<>>
                 /\ \E w, at : Streamed(w, at)

(* Every accepted record has a length the reader can take.                 *)
LEMMA AcceptedIsLegal == ASSUME SinkInv PROVE Legal(accepted)
BY DEF SinkInv, TypeOK, SeqInv, Legal

(* The invariant holds before the first record.                            *)
LEMMA InitStreamInv == Init => StreamInv
<1> SUFFICES ASSUME Init PROVE StreamInv
  OBVIOUS
<1>1. accepted = <<>> /\ medium = <<>> /\ buffer = <<>> /\ ~headerEmitted /\ ~torn
      /\ durable = 0 /\ Len(medium) = 0
  BY DEF Init
<1>2. Magic \in Seq(Cells) /\ Len(Magic) = 2
  BY DEF Magic, Cells
<1>3. Len(accepted) = 0
  BY <1>1
<1>4. IsStream(Magic, [i \in 1 .. 1 |-> 3], accepted)
  BY <1>2, <1>3 DEF IsStream
<1>5. CutOf(medium, Magic)
  BY <1>1, <1>2 DEF CutOf
<1>6. <<>> \o (<<>> \o Magic) = Magic
  BY <1>2
<1>7. medium \o WithHeader = Magic
  BY <1>1, <1>6, Zenon DEF WithHeader
<1> QED
  BY <1>1, <1>4, <1>5, <1>7, InitSinkInv DEF StreamInv, Streamed

(* A cut of a stream is a cut of the stream grown by more cells.           *)
LEMMA CutOfMore ==
  ASSUME NEW w \in Seq(Cells), NEW b \in Seq(Cells), NEW s, CutOf(s, w)
  PROVE  CutOf(s, w \o b)
<1>1. /\ w \o b \in Seq(Cells) /\ Len(w \o b) = Len(w) + Len(b)
      /\ \A j \in 1 .. Len(w) : (w \o b)[j] = w[j]
  BY ConcatIs
<1> DEFINE v == w \o b
<1>2. Len(v) = Len(w) + Len(b) /\ \A j \in 1 .. Len(w) : v[j] = w[j]
  BY <1>1
<1> HIDE DEF v
<1>3. CutOf(s, v)
  BY <1>2 DEF CutOf
<1> QED
  BY <1>3 DEF v

(* Part of what follows a cut prolongs it.                                 *)
LEMMA CutProlonged ==
  ASSUME NEW s \in Seq(Cells), NEW b \in Seq(Cells), NEW n \in 0 .. Len(b)
  PROVE  CutOf(s \o SubSeq(b, 1, n), s \o b)
<1> DEFINE c == SubSeq(b, 1, n)
           u == s \o c
           v == s \o b
<1>1. c \in Seq(Cells) /\ Len(c) = n /\ \A j \in 1 .. n : c[j] = b[j]
  BY InitialSegment
<1> HIDE DEF c
<1>2. /\ u \in Seq(Cells) /\ Len(u) = Len(s) + n
      /\ \A j \in 1 .. Len(s) : u[j] = s[j]
      /\ \A j \in 1 .. n : u[Len(s) + j] = c[j]
  <2>1. /\ s \o c \in Seq(Cells) /\ Len(s \o c) = Len(s) + Len(c)
        /\ \A j \in 1 .. Len(s) : (s \o c)[j] = s[j]
        /\ \A j \in 1 .. Len(c) : (s \o c)[Len(s) + j] = c[j]
    BY <1>1, ConcatIs, Zenon
  <2> QED
    BY <1>1, <2>1, Zenon
<1>3. /\ v \in Seq(Cells) /\ Len(v) = Len(s) + Len(b)
      /\ \A j \in 1 .. Len(s) : v[j] = s[j]
      /\ \A j \in 1 .. Len(b) : v[Len(s) + j] = b[j]
  BY ConcatIs
<1> HIDE DEF u, v
<1>4. ASSUME NEW j \in 1 .. Len(u) PROVE u[j] = v[j]
  <2>0. Len(s) \in Nat /\ Len(b) \in Nat /\ n \in Nat
    OBVIOUS
  <2>1. CASE j \in 1 .. Len(s)
    BY <1>2, <1>3, <2>1
  <2>2. CASE j \notin 1 .. Len(s)
    <3>1. j - Len(s) \in 1 .. n /\ Len(s) + (j - Len(s)) = j
      BY <1>2, <2>0, <2>2
    <3>2. j - Len(s) \in 1 .. Len(b)
      BY <2>0, <3>1
    <3>3. u[j] = c[j - Len(s)] /\ v[j] = b[j - Len(s)]
      BY <1>2, <1>3, <3>1, <3>2, Zenon
    <3> QED
      BY <1>1, <3>1, <3>3
  <2> QED
    BY <2>1, <2>2
<1> QED
  BY <1>2, <1>3, <1>4 DEF CutOf, u, v, c

(* Appending a record keeps written and buffered cells a stream.           *)
LEMMA AppendKeepsStream ==
  ASSUME StreamInv, NEW r \in Records, AppendRecord(r)
  PROVE  StreamInv'
<1>1. SinkInv'
  BY AppendKeepsSinkInv DEF StreamInv
<1>3. /\ ValidLength(r) /\ headerEmitted' /\ buffer' = WithHeader \o Frame(r)
      /\ accepted' = Append(accepted, r)
      /\ UNCHANGED <<medium, durable, torn, spliced, dead>>
  BY DEF AppendRecord, writes
<1>4. /\ WithHeader \in Seq(Cells) /\ medium \in Seq(Cells)
      /\ Frame(r) \in Seq(Cells) /\ Len(Frame(r)) = 2 + r.size /\ r.size \in Nat
  BY HeaderLength, FrameLength, SinkAssumption
     DEF StreamInv, SinkInv, TypeOK, Records
<1>5. ASSUME ~spliced
      PROVE  \E w, at : Streamed(w, at)'
  <2>1. PICK w, at : Streamed(w, at)
    BY <1>5 DEF StreamInv
  <2>2. w \in Seq(Cells) /\ CutOf(medium, w)
    BY <2>1 DEF Streamed, IsStream
  <2>3. IsStream(w \o Frame(r), NextStart(at, accepted, r), accepted')
    <3>1. IsStream(w \o Frame(r), NextStart(at, accepted, r), Append(accepted, r))
      BY <1>3, <2>1, AcceptedIsLegal, StreamGrows DEF StreamInv, Streamed
    <3> QED
      BY <1>3, <3>1, Zenon
  <2>4. CutOf(medium', w \o Frame(r))
    <3>1. CutOf(medium, w \o Frame(r))
      BY <1>4, <2>2, CutOfMore
    <3> QED
      BY <1>3, <3>1, Zenon
  <2>5. ~torn' /\ ~dead' => w \o Frame(r) = medium' \o WithHeader'
    <3>1. (medium \o WithHeader) \o Frame(r) = medium \o (WithHeader \o Frame(r))
      <4>1. \A a, b, c \in Seq(Cells) : (a \o b) \o c = a \o (b \o c)
        <5> TAKE a, b, c \in Seq(Cells)
        <5> QED
          BY ConcatAssociative
      <4> QED
        BY <1>4, <4>1, Zenon
    <3>2. WithHeader' = WithHeader \o Frame(r)
      BY <1>3 DEF WithHeader
    <3>3. ~torn /\ ~dead => w = medium \o WithHeader
      BY <2>1 DEF Streamed
    <3> QED
      BY <1>3, <3>1, <3>2, <3>3, Zenon
  <2> QED
    BY <2>3, <2>4, <2>5, Zenon DEF Streamed
<1>6. buffer' # <<>>
  <2>1. Len(WithHeader \o Frame(r)) = Len(WithHeader) + Len(Frame(r))
    BY <1>4, ConcatIs
  <2>2. Len(WithHeader) \in Nat
    BY <1>4
  <2>3. Len(buffer') # Len(<<>>)
    BY <1>3, <1>4, <2>1, <2>2
  <2> QED
    BY <2>3
<1>7. ~torn' /\ ~dead' => durable' = Len(medium')
  BY <1>3 DEF StreamInv
<1> QED
  BY <1>1, <1>3, <1>5, <1>6, <1>7, Zenon DEF StreamInv

(* Every step keeps them a stream.                                         *)
LEMMA StreamInvStep ==
  ASSUME StreamInv, [Next]_vars
  PROVE  StreamInv'
<1>1. SinkInv'
  BY SinkInvStep DEF StreamInv
<1>3. /\ WithHeader \in Seq(Cells) /\ medium \in Seq(Cells)
      /\ durable \in 0 .. Len(medium) /\ Len(medium) \in Nat
  BY HeaderLength DEF StreamInv, SinkInv, TypeOK
<1>4. \* whatever leaves the accepted records alone
      ASSUME UNCHANGED accepted, ~spliced' => ~spliced,
             ~torn' /\ ~dead' => durable' = Len(medium'),
             ~headerEmitted' => medium' = <<>> /\ accepted' = <<>>,
             ~spliced' /\ torn' => headerEmitted' /\ buffer' # <<>>,
             ASSUME NEW w, NEW at, Streamed(w, at), w \in Seq(Cells), ~spliced'
             PROVE  /\ CutOf(medium', w)
                    /\ ~torn' /\ ~dead' => w = medium' \o WithHeader'
      PROVE  StreamInv'
  <2>1. ASSUME ~spliced' PROVE \E w, at : Streamed(w, at)'
    <3>1. PICK w, at : Streamed(w, at)
      BY <1>4, <2>1 DEF StreamInv
    <3>2. w \in Seq(Cells) /\ IsStream(w, at, accepted)
      BY <3>1 DEF Streamed, IsStream
    <3>3. IsStream(w, at, accepted')
      BY <1>4, <3>2
    <3>4. /\ CutOf(medium', w)
          /\ ~torn' /\ ~dead' => w = medium' \o WithHeader'
      BY <1>4, <2>1, <3>1, <3>2
    <3> QED
      BY <3>3, <3>4, Zenon DEF Streamed
  <2> QED
    BY <1>1, <1>4, <2>1, Zenon DEF StreamInv
<1>5. ASSUME NEW r \in Records, AppendRecord(r) PROVE StreamInv'
  BY <1>5, AppendKeepsStream
<1>6. ASSUME NEW r \in Records, AppendOverflows(r) PROVE StreamInv'
  <2>1. /\ buffer' = WithHeader /\ headerEmitted'
        /\ UNCHANGED <<medium, accepted, durable, torn, spliced, dead>>
    BY <1>6 DEF AppendOverflows, writes
  <2>2. WithHeader' = WithHeader
    BY <2>1 DEF WithHeader
  <2>3. ~spliced' /\ torn' => buffer' # <<>>
    <3>1. ~spliced /\ torn => WithHeader = buffer /\ buffer # <<>>
      BY DEF StreamInv, WithHeader
    <3> QED
      BY <2>1, <3>1
  <2>4. ASSUME NEW w, NEW at, Streamed(w, at)
        PROVE  /\ CutOf(medium', w)
               /\ ~torn' /\ ~dead' => w = medium' \o WithHeader'
    BY <2>1, <2>2, <2>4 DEF Streamed
  <2>5. ~torn' /\ ~dead' => durable' = Len(medium')
    BY <2>1 DEF StreamInv
  <2> QED
    BY <1>4, <2>1, <2>3, <2>4, <2>5
<1>7. CASE Flush
  <2>1. /\ ~dead /\ medium' = medium \o WithHeader /\ buffer' = <<>>
        /\ durable' = IF WithHeader = <<>> THEN durable ELSE Len(medium')
        /\ headerEmitted' /\ spliced' = torn /\ UNCHANGED <<accepted, torn, dead>>
    BY <1>7 DEF Flush
  <2>2. ASSUME NEW w, NEW at, Streamed(w, at), w \in Seq(Cells), ~spliced'
        PROVE  /\ CutOf(medium', w)
               /\ w = medium' \o WithHeader'
    <3>1. medium' = w /\ WithHeader' = <<>>
      BY <2>1, <2>2 DEF WithHeader, Streamed
    <3>2. CutOf(medium', w)
      BY <2>2, <3>1 DEF CutOf
    <3>3. w = medium' \o WithHeader'
      BY <2>2, <3>1
    <3> QED
      BY <3>2, <3>3
  <2>3. ~torn' /\ ~dead' => durable' = Len(medium')
    <3>1. WithHeader = <<>> => medium' = medium
      BY <1>3, <2>1
    <3> QED
      BY <2>1, <3>1 DEF StreamInv
  <2>4. ~spliced' => ~spliced
    BY <2>1 DEF StreamInv, SinkInv, TypeOK
  <2> QED
    BY <1>4, <2>1, <2>2, <2>3, <2>4
<1>8. CASE FlushFails
  <2>1. /\ ~dead /\ WithHeader # <<>> /\ buffer' = WithHeader
        /\ headerEmitted' /\ UNCHANGED <<accepted, durable, dead>>
    BY <1>8 DEF FlushFails
  <2>2. PICK n \in 0 .. Len(WithHeader) :
          /\ medium' = medium \o SubSeq(WithHeader, 1, n)
          /\ torn' = (torn \/ n > 0)
          /\ spliced' = (spliced \/ (torn /\ n > 0))
    BY <1>8 DEF FlushFails
  <2>3. n = 0 => medium' = medium
    BY <1>3, <2>2
  <2>4. ASSUME NEW w, NEW at, Streamed(w, at), w \in Seq(Cells), ~spliced'
        PROVE  /\ CutOf(medium', w)
               /\ ~torn' /\ ~dead' => w = medium' \o WithHeader'
    <3>1. CASE n = 0
      <4>0. ~(n > 0) /\ torn \in BOOLEAN
        BY <3>1 DEF StreamInv, SinkInv, TypeOK
      <4>1. medium' = medium /\ torn' = torn /\ dead' = dead
        BY <2>1, <2>2, <2>3, <3>1, <4>0, Zenon
      <4>2. WithHeader' = WithHeader
        BY <2>1 DEF WithHeader
      <4> QED
        BY <2>4, <4>1, <4>2, Zenon DEF Streamed
    <3>2. CASE n > 0
      <4>1. ~torn /\ torn'
        BY <2>2, <2>4, <3>2
      <4>2. w = medium \o WithHeader
        BY <2>1, <2>4, <4>1 DEF Streamed
      <4>3. CutOf(medium \o SubSeq(WithHeader, 1, n), medium \o WithHeader)
        BY <1>3, CutProlonged
      <4> QED
        BY <2>2, <4>1, <4>2, <4>3, Zenon
    <3> QED
      BY <3>1, <3>2
  <2>5. ~torn' => medium' = medium /\ ~torn
    <3>1. n = 0 \/ n > 0
      OBVIOUS
    <3> QED
      BY <2>2, <2>3, <3>1, Zenon
  <2>6. ~torn' /\ ~dead' => durable' = Len(medium')
    BY <2>1, <2>5 DEF StreamInv
  <2>7. ~spliced' => ~spliced
    BY <2>2
  <2> QED
    BY <1>4, <2>1, <2>4, <2>6, <2>7
<1>9. CASE Crash
  <2>1. dead' /\ UNCHANGED <<buffer, headerEmitted, accepted, torn, spliced>>
    BY <1>9 DEF Crash, sink, writes
  <2>2. PICK n \in durable .. Len(medium) : medium' = SubSeq(medium, 1, n)
    BY <1>9 DEF Crash
  <2>3. n \in 0 .. Len(medium)
    BY <1>3
  <2>4. /\ medium' \in Seq(Cells) /\ Len(medium') = n
        /\ \A j \in 1 .. n : medium'[j] = medium[j]
    <3>1. /\ SubSeq(medium, 1, n) \in Seq(Cells) /\ Len(SubSeq(medium, 1, n)) = n
          /\ \A j \in 1 .. n : SubSeq(medium, 1, n)[j] = medium[j]
      BY <1>3, <2>3, InitialSegment
    <3> QED
      BY <2>2, <3>1, Zenon
  <2>5. ASSUME NEW w, NEW at, Streamed(w, at), w \in Seq(Cells)
        PROVE  CutOf(medium', w)
    <3>0. CutOf(medium, w)
      BY <2>5 DEF Streamed
    <3>1. n \in Nat /\ n <= Len(medium) /\ Len(medium) <= Len(w) /\ Len(w) \in Nat
      BY <1>3, <2>3, <2>5, <3>0 DEF CutOf
    <3>2. \A j \in 1 .. n : j \in 1 .. Len(medium)
      BY <1>3, <3>1
    <3> QED
      BY <2>4, <3>0, <3>1, <3>2 DEF CutOf
  <2>6. ~headerEmitted => medium' = <<>>
    <3>1. ~headerEmitted => Len(medium) = 0
      BY DEF StreamInv
    <3>2. ~headerEmitted => Len(medium') = 0
      BY <2>3, <2>4, <3>1
    <3> QED
      BY <2>4, <3>2
  <2> QED
    BY <1>4, <2>1, <2>5, <2>6 DEF StreamInv
<1>10. CASE UNCHANGED vars
  <2>1. /\ UNCHANGED <<medium, accepted, durable, torn, spliced, dead, buffer, headerEmitted>>
        /\ WithHeader' = WithHeader
    BY <1>10 DEF vars, sink, writes, WithHeader
  <2> QED
    BY <1>4, <2>1 DEF StreamInv, Streamed
<1> QED
  BY <1>5, <1>6, <1>7, <1>8, <1>9, <1>10 DEF Next, AppendRefused

(***************************************************************************)
(* What the reader returns of the medium: the payloads of the records      *)
(* whose frames are whole in it.                                           *)
(***************************************************************************)
LEMMA ReadBackIs ==
  ASSUME SinkInv, NEW w, NEW at, IsStream(w, at, accepted), NEW s, CutOf(s, w)
  PROVE  \E m \in 0 .. Len(accepted), how \in {"Eof", "Truncated", "HeaderMissing"} :
           /\ WholeUpTo(m, 1, s, at, accepted)
           /\ Read(s) = [payloads |-> SubSeq(AcceptedPayloads, 1, m), verdict |-> how]
           /\ Len(SubSeq(AcceptedPayloads, 1, m)) = m
           /\ s = w => how = "Eof"
<1>1. Legal(accepted)
  BY AcceptedIsLegal
<1>2. PICK m \in 0 .. Len(accepted), how \in {"Eof", "Truncated", "HeaderMissing"} :
        /\ WholeUpTo(m, 1, s, at, accepted)
        /\ Read(s) = [payloads |-> Payloads(accepted, 1, m), verdict |-> how]
        /\ s = w => how = "Eof"
  BY <1>1, ReadCut
<1> DEFINE T == Seq(Cells)
<1>3. AcceptedPayloads \in Seq(T) /\ Len(AcceptedPayloads) = Len(accepted)
  <2>1. \A i \in 1 .. Len(accepted) : Payload(accepted[i]) \in T
    BY <1>1, PayloadIsCells DEF Legal
  <2> HIDE DEF T
  <2>2. AcceptedPayloads \in [1 .. Len(accepted) -> T]
    BY <2>1 DEF AcceptedPayloads
  <2>3. Len(accepted) \in Nat
    BY <1>1 DEF Legal
  <2> QED
    BY <2>2, <2>3, FunctionIsSeq
<1> HIDE DEF T
<1>4. SubSeq(AcceptedPayloads, 1, m) = [i \in 1 .. m |-> AcceptedPayloads[i]]
  BY <1>3
<1>5. Payloads(accepted, 1, m) = [i \in 1 .. m |-> Payload(accepted[i])]
  <2>1. m \in Int /\ m - 1 + 1 = m /\ \A i \in 1 .. m : 1 + i - 1 = i
    OBVIOUS
  <2> QED
    BY <2>1 DEF Payloads
<1>6. \A i \in 1 .. m : AcceptedPayloads[i] = Payload(accepted[i])
  <2>1. 1 .. m \subseteq 1 .. Len(accepted)
    OBVIOUS
  <2> QED
    BY <2>1 DEF AcceptedPayloads
<1>7. SubSeq(AcceptedPayloads, 1, m) = Payloads(accepted, 1, m)
  BY <1>4, <1>5, <1>6
<1>8. Len(SubSeq(AcceptedPayloads, 1, m)) = m
  BY <1>3
<1> QED
  BY <1>2, <1>7, <1>8, Zenon

(***************************************************************************)
(* Unless a flush wrote behind a torn one, the reader returns a prefix of  *)
(* what was accepted, and all of it when nothing is pending.               *)
(***************************************************************************)
LEMMA StreamReadsBack ==
  ASSUME StreamInv, ~spliced
  PROVE  /\ IsPrefix(ReadBack.payloads, AcceptedPayloads)
         /\ ReadBack.verdict \in {"Eof", "Truncated", "HeaderMissing"}
         /\ (headerEmitted /\ buffer = <<>> /\ ~dead) =>
              ReadBack = [payloads |-> AcceptedPayloads, verdict |-> "Eof"]
<1>1. PICK w, at : Streamed(w, at)
  BY DEF StreamInv
<1> DEFINE N == Len(accepted)
           all == AcceptedPayloads
<1>2. PICK m \in 0 .. N, how \in {"Eof", "Truncated", "HeaderMissing"} :
         /\ WholeUpTo(m, 1, medium, at, accepted)
         /\ ReadBack = [payloads |-> SubSeq(all, 1, m), verdict |-> how]
         /\ Len(SubSeq(all, 1, m)) = m
         /\ medium = w => how = "Eof"
  BY <1>1, ReadBackIs DEF StreamInv, Streamed, ReadBack
<1>3. N \in Nat /\ Len(all) = N /\ SubSeq(all, 1, N) = all
  <2>1. N \in Nat /\ all \in [1 .. N -> Seq(Cells)]
    <3>1. Legal(accepted)
      BY AcceptedIsLegal DEF StreamInv
    <3> QED
      BY <3>1, PayloadIsCells DEF AcceptedPayloads, Legal
  <2> HIDE DEF N, all
  <2>2. all \in Seq(Seq(Cells)) /\ Len(all) = N
    BY <2>1, FunctionIsSeq
  <2> QED
    BY <2>1, <2>2
<1>4. Len(ReadBack.payloads) <= Len(all)
  BY <1>2, <1>3
<1>5. SubSeq(ReadBack.payloads, 1, m) = SubSeq(all, 1, m)
  <2> HIDE DEF all, N
  <2>1. all \in Seq(Seq(Cells)) => SubSeq(SubSeq(all, 1, m), 1, m) = SubSeq(all, 1, m)
    BY <1>2, <1>3
  <2> QED
    BY <1>2, <2>1
<1>6. ASSUME headerEmitted, buffer = <<>>, ~dead
      PROVE  ReadBack = [payloads |-> all, verdict |-> "Eof"]
  <2>1. medium = w
    <3>1. ~torn /\ WithHeader = <<>> /\ medium \in Seq(Cells)
      BY <1>6 DEF StreamInv, WithHeader, SinkInv, TypeOK
    <3> QED
      BY <1>1, <1>6, <3>1 DEF Streamed
  <2>2. m = N
    <3>1. N = 0 \/ N \in 1 .. N
      BY <1>3
    <3>2. N \in 1 .. N => at[N + 1] <= Len(medium) + 1
      BY <1>1, <1>3, <2>1 DEF IsStream, Streamed
    <3>3. N \in 1 .. N => (N <= m <=> at[N + 1] <= Len(medium) + 1)
      BY <1>2 DEF WholeUpTo
    <3>4. m \in 0 .. N
      BY <1>2
    <3> HIDE DEF N
    <3> QED
      BY <1>3, <3>1, <3>2, <3>3, <3>4
  <2> QED
    BY <1>2, <1>3, <2>1, <2>2
<1> QED
  BY <1>2, <1>4, <1>5, <1>6 DEF IsPrefix

-----------------------------------------------------------------------------
(***************************************************************************)
(* How much of a stream is read from two cuts of it.                       *)
(***************************************************************************)
Got(s) == Len(Read(s).payloads)

(* What a reader takes from a cut stream is a first part of the records,   *)
(* whole.                                                                  *)
LEMMA GotIs ==
  ASSUME NEW w, NEW at, NEW recs, NEW s, Legal(recs), IsStream(w, at, recs),
         CutOf(s, w)
  PROVE  /\ Got(s) \in 0 .. Len(recs)
         /\ WholeUpTo(Got(s), 1, s, at, recs)
         /\ Read(s).payloads = Payloads(recs, 1, Got(s))
         /\ s = w => Got(s) = Len(recs)
<1>0. Len(recs) \in Nat
  BY DEF Legal
<1>1. PICK m \in 0 .. Len(recs), how \in {"Eof", "Truncated", "HeaderMissing"} :
        /\ WholeUpTo(m, 1, s, at, recs)
        /\ Read(s) = [payloads |-> Payloads(recs, 1, m), verdict |-> how]
        /\ s = w => how = "Eof"
  BY ReadCut
<1>2. Read(s).payloads = Payloads(recs, 1, m)
  BY <1>1
<1>3. Len(Payloads(recs, 1, m)) = m
  <2>1. m \in Nat /\ m - 1 + 1 = m
    OBVIOUS
  <2> QED
    BY <2>1 DEF Payloads
<1>4. Got(s) = m
  BY <1>2, <1>3 DEF Got
<1>5. s = w => m = Len(recs)
  <2> DEFINE N == Len(recs)
  <2>1. N = 0 \/ N \in 1 .. N
    BY <1>0
  <2>2. N \in 1 .. N /\ s = w => N <= m
    BY <1>1 DEF WholeUpTo, IsStream
  <2>3. m \in 0 .. N
    BY <1>1
  <2> HIDE DEF N
  <2>4. s = w => m = N
    BY <1>0, <2>1, <2>2, <2>3
  <2> QED
    BY <2>4 DEF N
<1> QED
  BY <1>1, <1>2, <1>4, <1>5, Zenon

(* The longer the cut, the more records are read.                          *)
LEMMA GotGrows ==
  ASSUME NEW w, NEW at, NEW recs, NEW s, NEW t, Legal(recs), IsStream(w, at, recs),
         CutOf(s, w), CutOf(t, w), Len(s) <= Len(t)
  PROVE  Got(s) <= Got(t)
<1>1. /\ Got(s) \in 0 .. Len(recs) /\ Got(t) \in 0 .. Len(recs)
      /\ WholeUpTo(Got(s), 1, s, at, recs) /\ WholeUpTo(Got(t), 1, t, at, recs)
  BY GotIs
<1>2. Len(recs) \in Nat /\ Len(s) \in Nat /\ Len(t) \in Nat
  BY DEF Legal, CutOf
<1>3. CASE Got(s) = 0
  BY <1>1, <1>2, <1>3
<1>4. CASE Got(s) \in 1 .. Len(recs)
  <2>1. at[Got(s) + 1] <= Len(s) + 1
    BY <1>1, <1>4 DEF WholeUpTo
  <2>2. at[Got(s) + 1] \in Nat
    BY <1>2, <1>4 DEF IsStream
  <2>3. at[Got(s) + 1] <= Len(t) + 1
    BY <1>2, <2>1, <2>2
  <2> QED
    BY <1>1, <1>4, <2>3 DEF WholeUpTo
<1> QED
  BY <1>1, <1>2, <1>3, <1>4

-----------------------------------------------------------------------------
(***************************************************************************)
(* More cells behind a stream take nothing from what is read of it,        *)
(* whatever they are.  Texts is what a reader returns payloads from.       *)
(***************************************************************************)
Texts == Seq(Cells)

Begins(a, b) ==
  /\ a \in Seq(Texts) /\ b \in Seq(Texts)
  /\ Len(a) <= Len(b)
  /\ \A j \in 1 .. Len(a) : a[j] = b[j]

(* next_record returns a payload: the cells behind its prefix.             *)
Takes(s, p) ==
  /\ p + 1 <= Len(s) /\ LengthAt(s, p)
  /\ s[p].of \in 1 .. MaxRecord
  /\ p + 2 + s[p].of <= Len(s) + 1

Behind(s, p) == p + 2 + s[p].of

Taken(s, p) == SubSeq(s, p + 2, Behind(s, p) - 1)

(* next_record returns a payload or ends the reading.                      *)
LEMMA NextRecordTakes ==
  ASSUME NEW s \in Seq(Cells), NEW p \in 1 .. Len(s) + 1, NEW rest
  PROVE  NextRecord(s, rest, p).payloads =
           IF Takes(s, p) THEN <<Taken(s, p)>> \o rest[Behind(s, p)].payloads
           ELSE <<>>
<1>1. Len(s) \in Nat /\ MaxRecord \in Nat /\ p \in Nat
  BY SinkAssumption
<1>2. \A how : Ends(how).payloads = <<>>
  BY DEF Ends
<1>3. CASE p + 1 <= Len(s)
  <2>1. p \in 1 .. Len(s)
    BY <1>1, <1>3
  <2>2. s[p] \in Cells
    BY <2>1
  <2>3. s[p].of \in Nat
    BY <2>2 DEF Cells
  <2>4. ~(p = Len(s) + 1) /\ ~(p + 1 > Len(s))
    BY <1>1, <1>3
  <2>5. CASE ~LengthAt(s, p)
    BY <1>2, <2>4, <2>5, Zenon DEF NextRecord, Takes
  <2>6. CASE LengthAt(s, p)
    <3>1. CASE s[p].of = 0
      <4>1. ~(s[p].of \in 1 .. MaxRecord)
        BY <3>1
      <4> QED
        BY <1>2, <2>4, <2>6, <3>1, <4>1, Zenon DEF NextRecord, Takes
    <3>2. CASE s[p].of > MaxRecord
      <4>1. ~(s[p].of \in 1 .. MaxRecord)
        BY <1>1, <2>3, <3>2
      <4>2. ~(s[p].of = 0)
        BY <1>1, <2>3, <3>2
      <4> QED
        BY <1>2, <2>4, <2>6, <3>2, <4>1, <4>2, Zenon DEF NextRecord, Takes
    <3>3. CASE ~(s[p].of = 0) /\ ~(s[p].of > MaxRecord)
      <4>1. s[p].of \in 1 .. MaxRecord
        BY <1>1, <2>3, <3>3
      <4>2. Behind(s, p) > Len(s) + 1 \/ Behind(s, p) <= Len(s) + 1
        BY <1>1, <2>3 DEF Behind
      <4>3. CASE Behind(s, p) > Len(s) + 1
        <5>1. ~(Behind(s, p) <= Len(s) + 1)
          BY <1>1, <2>3, <4>3 DEF Behind
        <5>2. ~Takes(s, p)
          BY <5>1, Zenon DEF Takes, Behind
        <5>3. NextRecord(s, rest, p) = Ends("Truncated")
          BY <2>4, <2>6, <3>3, <4>3, Zenon DEF NextRecord, Behind
        <5> QED
          BY <1>2, <5>2, <5>3, Zenon
      <4>4. CASE Behind(s, p) <= Len(s) + 1
        <5>1. ~(Behind(s, p) > Len(s) + 1)
          BY <1>1, <2>3, <4>4 DEF Behind
        <5>2. Takes(s, p)
          BY <1>3, <2>6, <4>1, <4>4, Zenon DEF Takes, Behind
        <5>3. NextRecord(s, rest, p) =
                [payloads |-> <<Taken(s, p)>> \o rest[Behind(s, p)].payloads,
                 verdict  |-> rest[Behind(s, p)].verdict]
          BY <2>4, <2>6, <3>3, <5>1, Zenon DEF NextRecord, Behind, Taken
        <5> QED
          BY <5>2, <5>3
      <4> QED
        BY <4>2, <4>3, <4>4
    <3> QED
      BY <3>1, <3>2, <3>3
  <2> QED
    BY <2>5, <2>6
<1>4. CASE ~(p + 1 <= Len(s))
  <2>1. p + 1 > Len(s)
    BY <1>1, <1>4
  <2>2. NextRecord(s, rest, p) \in {Ends("Eof"), Ends("Truncated")}
    BY <2>1, Zenon DEF NextRecord
  <2> QED
    BY <1>2, <1>4, <2>2, Zenon DEF Takes
<1> QED
  BY <1>3, <1>4

(* A payload taken is a text, and reading goes on behind it.               *)
LEMMA TakenIsText ==
  ASSUME NEW s \in Seq(Cells), NEW p \in 1 .. Len(s) + 1, Takes(s, p)
  PROVE  /\ Taken(s, p) \in Texts
         /\ Len(Taken(s, p)) = s[p].of
         /\ \A j \in 1 .. s[p].of : Taken(s, p)[j] = s[p + 2 + j - 1]
         /\ s[p].of \in Nat /\ s[p].of >= 1
         /\ Behind(s, p) \in p + 1 .. Len(s) + 1
<1> DEFINE n == s[p].of
<1>1. Len(s) \in Nat /\ p \in Nat /\ MaxRecord \in Nat
  BY SinkAssumption
<1>2. n \in 1 .. MaxRecord /\ p + 2 + n <= Len(s) + 1
  BY DEF Takes
<1>3. Behind(s, p) = p + 2 + n
  BY DEF Behind
<1> HIDE DEF n
<1>4. p + 2 \in Int /\ Behind(s, p) - 1 \in Int /\ p + 2 <= Behind(s, p) - 1
      /\ (Behind(s, p) - 1) - (p + 2) + 1 = n /\ n \in Nat /\ n >= 1
  BY <1>1, <1>2, <1>3
<1>5. \A j \in p + 2 .. Behind(s, p) - 1 : s[j] \in Cells
  <2>1. p + 2 .. Behind(s, p) - 1 \subseteq 1 .. Len(s)
    BY <1>1, <1>2, <1>3
  <2> QED
    BY <2>1
<1>6. /\ Taken(s, p) \in Seq(Cells)
      /\ Len(Taken(s, p)) = n
      /\ \A j \in 1 .. n : Taken(s, p)[j] = s[p + 2 + j - 1]
  BY <1>4, <1>5, SubSeqProperties DEF Taken
<1>7. Behind(s, p) \in p + 1 .. Len(s) + 1
  BY <1>1, <1>2, <1>3
<1> QED
  BY <1>4, <1>6, <1>7 DEF Texts, n

(* What is taken from a cut is taken from the longer stream.               *)
LEMMA TakesMore ==
  ASSUME NEW s, NEW t \in Seq(Cells), CutOf(s, t), NEW p \in 1 .. Len(s) + 1,
         Takes(s, p)
  PROVE  Takes(t, p) /\ Taken(t, p) = Taken(s, p) /\ Behind(t, p) = Behind(s, p)
<1>1. /\ s \in Seq(Cells) /\ Len(s) \in Nat /\ Len(t) \in Nat /\ Len(s) <= Len(t)
      /\ \A j \in 1 .. Len(s) : s[j] = t[j]
  BY DEF CutOf
<1>2. p + 1 <= Len(s) /\ p \in 1 .. Len(s) /\ p + 1 \in 1 .. Len(s)
  BY <1>1 DEF Takes
<1>3. t[p] = s[p] /\ t[p + 1] = s[p + 1]
  BY <1>1, <1>2
<1>4. LengthAt(t, p)
  BY <1>3 DEF LengthAt, Takes
<1>5. Behind(t, p) = Behind(s, p)
  BY <1>3 DEF Behind
<1>6. /\ Taken(s, p) \in Texts /\ Len(Taken(s, p)) = s[p].of
      /\ \A j \in 1 .. s[p].of : Taken(s, p)[j] = s[p + 2 + j - 1]
      /\ s[p].of \in Nat
  BY <1>1, TakenIsText
<1>7. Takes(t, p)
  <2>1. p + 2 + s[p].of <= Len(s) + 1 /\ s[p].of \in 1 .. MaxRecord
    BY DEF Takes
  <2>2. p + 2 + s[p].of <= Len(t) + 1 /\ p + 1 <= Len(t)
    BY <1>1, <1>2, <1>6, <2>1
  <2> QED
    BY <1>3, <1>4, <2>1, <2>2, Zenon DEF Takes
<1>8. p \in 1 .. Len(t) + 1
  BY <1>1, <1>2
<1>9. /\ Taken(t, p) \in Texts /\ Len(Taken(t, p)) = s[p].of
      /\ \A j \in 1 .. s[p].of : Taken(t, p)[j] = t[p + 2 + j - 1]
  BY <1>3, <1>7, <1>8, TakenIsText
<1>10. \A j \in 1 .. s[p].of : Taken(t, p)[j] = Taken(s, p)[j]
  <2> SUFFICES ASSUME NEW j \in 1 .. s[p].of
               PROVE  t[p + 2 + j - 1] = s[p + 2 + j - 1]
    BY <1>6, <1>9
  <2>1. p + 2 + s[p].of <= Len(s) + 1
    BY DEF Takes
  <2>2. p + 2 + j - 1 \in 1 .. Len(s)
    BY <1>1, <1>2, <1>6, <2>1
  <2> QED
    BY <1>1, <2>2
<1>11. Taken(t, p) = Taken(s, p)
  BY <1>6, <1>9, <1>10, SeqEqual DEF Texts
<1> QED
  BY <1>5, <1>7, <1>11

(* One payload in front of two readings.                                   *)
LEMMA BeginsAfter ==
  ASSUME NEW x \in Texts, NEW a, NEW b, Begins(a, b)
  PROVE  Begins(<<x>> \o a, <<x>> \o b)
<1>1. /\ a \in Seq(Texts) /\ b \in Seq(Texts) /\ Len(a) <= Len(b)
      /\ \A j \in 1 .. Len(a) : a[j] = b[j]
  BY DEF Begins
<1>2. ASSUME NEW c \in Seq(Texts)
      PROVE  /\ <<x>> \o c \in Seq(Texts) /\ Len(<<x>> \o c) = 1 + Len(c)
             /\ \A j \in 1 .. 1 + Len(c) :
                  (<<x>> \o c)[j] = IF j <= 1 THEN x ELSE c[j - 1]
  <2>1. <<x>> \in Seq(Texts) /\ Len(<<x>>) = 1 /\ <<x>>[1] = x
    OBVIOUS
  <2>2. /\ <<x>> \o c \in Seq(Texts) /\ Len(<<x>> \o c) = Len(<<x>>) + Len(c)
        /\ \A j \in 1 .. Len(<<x>>) + Len(c) :
             (<<x>> \o c)[j] = IF j <= Len(<<x>>) THEN <<x>>[j]
                               ELSE c[j - Len(<<x>>)]
    BY <2>1, ConcatProperties, Zenon
  <2>3. \A j \in 1 .. 1 + Len(c) :
          (<<x>> \o c)[j] = IF j <= 1 THEN <<x>>[j] ELSE c[j - 1]
    BY <2>1, <2>2, Zenon
  <2>4. \A j \in 1 .. 1 + Len(c) : j <= 1 => j = 1
    OBVIOUS
  <2> QED
    BY <2>1, <2>2, <2>3, <2>4, Zenon
<1> DEFINE u == <<x>> \o a
           v == <<x>> \o b
<1>3. /\ u \in Seq(Texts) /\ Len(u) = 1 + Len(a)
      /\ \A j \in 1 .. 1 + Len(a) : u[j] = IF j <= 1 THEN x ELSE a[j - 1]
  BY <1>1, <1>2
<1>4. /\ v \in Seq(Texts) /\ Len(v) = 1 + Len(b)
      /\ \A j \in 1 .. 1 + Len(b) : v[j] = IF j <= 1 THEN x ELSE b[j - 1]
  BY <1>1, <1>2
<1> HIDE DEF u, v
<1>5. Len(a) \in Nat /\ Len(b) \in Nat
  BY <1>1
<1>6. ASSUME NEW j \in 1 .. Len(u) PROVE u[j] = v[j]
  <2>1. j \in 1 .. 1 + Len(a) /\ j \in 1 .. 1 + Len(b)
    BY <1>1, <1>3, <1>5
  <2>2. j <= 1 \/ j - 1 \in 1 .. Len(a)
    BY <1>5, <2>1
  <2> QED
    BY <1>1, <1>3, <1>4, <2>1, <2>2
<1> QED
  BY <1>1, <1>3, <1>4, <1>5, <1>6 DEF Begins, u, v

(***************************************************************************)
(* From each of its cells on, a cut is read as the beginning of what is    *)
(* read from there of the longer stream, if that yields texts.             *)
(***************************************************************************)
LEMMA ReadFromGrows ==
  ASSUME NEW s, NEW t \in Seq(Cells), CutOf(s, t),
         \A p \in 1 .. Len(s) + 1 : ~Takes(s, p) =>
            Begins(<<>>, ReadFrom(t)[p].payloads)
  PROVE  \A p \in 1 .. Len(s) + 1 :
           Begins(ReadFrom(s)[p].payloads, ReadFrom(t)[p].payloads)
<1> DEFINE L == Len(s)
           Good(p) == Begins(ReadFrom(s)[p].payloads, ReadFrom(t)[p].payloads)
           S == {n \in Nat : \A p \in 1 .. L + 1 : p >= L + 1 - n => Good(p)}
<1>1. s \in Seq(Cells) /\ L \in Nat /\ Len(t) \in Nat /\ L <= Len(t)
  BY DEF CutOf
<1>2. ASSUME NEW p \in 1 .. L + 1,
             Takes(s, p) => Good(Behind(s, p))
      PROVE  Good(p)
  <2>1. p \in 1 .. Len(t) + 1
    BY <1>1
  <2>2. /\ ReadFrom(s)[p] = NextRecord(s, ReadFrom(s), p)
        /\ ReadFrom(t)[p] = NextRecord(t, ReadFrom(t), p)
    BY <1>1, <2>1, ReadFromDef
  <2>3. CASE Takes(s, p)
    <3>1. Takes(t, p) /\ Taken(t, p) = Taken(s, p) /\ Behind(t, p) = Behind(s, p)
      BY <2>3, TakesMore
    <3>2. ReadFrom(s)[p].payloads =
            <<Taken(s, p)>> \o ReadFrom(s)[Behind(s, p)].payloads
      BY <1>1, <2>2, <2>3, NextRecordTakes
    <3>3. ReadFrom(t)[p].payloads =
            <<Taken(t, p)>> \o ReadFrom(t)[Behind(t, p)].payloads
      BY <2>1, <2>2, <3>1, NextRecordTakes
    <3>4. Taken(s, p) \in Texts
      BY <1>1, <2>3, TakenIsText
    <3>5. Begins(<<Taken(s, p)>> \o ReadFrom(s)[Behind(s, p)].payloads,
                 <<Taken(s, p)>> \o ReadFrom(t)[Behind(s, p)].payloads)
      BY <1>2, <2>3, <3>4, BeginsAfter
    <3> QED
      BY <3>1, <3>2, <3>3, <3>5, Zenon
  <2>4. CASE ~Takes(s, p)
    <3>1. ReadFrom(s)[p].payloads = <<>>
      BY <1>1, <2>2, <2>4, NextRecordTakes
    <3> QED
      BY <2>4, <3>1
  <2> QED
    BY <2>3, <2>4
<1>3. \A p \in 1 .. L + 1 : Takes(s, p) => Behind(s, p) \in p + 1 .. L + 1
  BY <1>1, TakenIsText
<1> HIDE DEF L, Good
<1>4. 0 \in S
  <2> SUFFICES ASSUME NEW p \in 1 .. L + 1, p >= L + 1 - 0 PROVE Good(p)
    OBVIOUS
  <2>1. ~(Takes(s, p))
    <3>1. p + 1 .. L + 1 = {}
      BY <1>1
    <3> QED
      BY <1>3, <3>1
  <2> QED
    BY <1>2, <2>1
<1>5. ASSUME NEW n \in Nat, n \in S PROVE n + 1 \in S
  <2> SUFFICES ASSUME NEW p \in 1 .. L + 1, p >= L + 1 - (n + 1) PROVE Good(p)
    OBVIOUS
  <2>1. ASSUME Takes(s, p) PROVE Good(Behind(s, p))
    <3>1. Behind(s, p) \in p + 1 .. L + 1
      BY <1>3, <2>1
    <3>2. Behind(s, p) \in 1 .. L + 1 /\ Behind(s, p) >= L + 1 - n
      BY <1>1, <3>1
    <3> QED
      BY <1>5, <3>2
  <2> QED
    BY <1>2, <2>1
<1>6. L \in S
  <2> HIDE DEF S
  <2> QED
    BY <1>1, <1>4, <1>5, SetInduction
<1>7. \A p \in 1 .. L + 1 : p >= L + 1 - L
  BY <1>1
<1> QED
  BY <1>6, <1>7 DEF L, Good

(* Reading yields texts.                                                   *)
LEMMA ReadFromIsTexts ==
  ASSUME NEW t \in Seq(Cells)
  PROVE  \A p \in 1 .. Len(t) + 1 :
           Begins(ReadFrom(t)[p].payloads, ReadFrom(t)[p].payloads)
<1>1. CutOf(t, t)
  BY DEF CutOf
<1>2. ASSUME NEW p \in 1 .. Len(t) + 1, ~Takes(t, p)
      PROVE  Begins(<<>>, ReadFrom(t)[p].payloads)
  <2>1. ReadFrom(t)[p] = NextRecord(t, ReadFrom(t), p)
    BY ReadFromDef
  <2>2. ReadFrom(t)[p].payloads = <<>>
    BY <1>2, <2>1, NextRecordTakes
  <2> QED
    BY <2>2 DEF Begins
<1> QED
  BY <1>1, <1>2, ReadFromGrows

(***************************************************************************)
(* What a reader returns of a cut it returns first of the longer stream.   *)
(***************************************************************************)
LEMMA ReadGrows ==
  ASSUME NEW s, NEW t \in Seq(Cells), CutOf(s, t)
  PROVE  Begins(Read(s).payloads, Read(t).payloads)
<1>1. /\ s \in Seq(Cells) /\ Len(s) \in Nat /\ Len(t) \in Nat /\ Len(s) <= Len(t)
      /\ \A j \in 1 .. Len(s) : s[j] = t[j]
  BY DEF CutOf
<1>2. ASSUME NEW p \in 1 .. Len(t) + 1
      PROVE  ReadFrom(t)[p].payloads \in Seq(Texts)
  BY ReadFromIsTexts DEF Begins
<1>3. \A c \in Seq(Texts) : Begins(<<>>, c)
  BY DEF Begins
<1>4. \A how : Ends(how).payloads = <<>>
  BY DEF Ends
<1>5. Read(t).payloads \in Seq(Texts)
  <2>1. Len(t) < 2 => Read(t) = Ends("HeaderMissing")
    BY DEF Read
  <2>2. Len(t) >= 2 => 3 \in 1 .. Len(t) + 1 /\ ~(Len(t) < 2)
    BY <1>1
  <2>3. Len(t) >= 2 => Read(t) \in {Ends("UnsupportedStreamVersion"), ReadFrom(t)[3]}
    BY <2>2, Zenon DEF Read
  <2>4. <<>> \in Seq(Texts)
    OBVIOUS
  <2>5. Len(t) < 2 \/ Len(t) >= 2
    BY <1>1
  <2> QED
    BY <1>2, <1>4, <2>1, <2>2, <2>3, <2>4, <2>5, Zenon
<1>6. CASE Len(s) < 2 \/ SubSeq(s, 1, 2) # Magic
  <2>1. Read(s) \in {Ends("HeaderMissing"), Ends("UnsupportedStreamVersion")}
    BY <1>6, Zenon DEF Read
  <2> QED
    BY <1>3, <1>4, <1>5, <2>1, Zenon
<1>7. CASE ~(Len(s) < 2) /\ SubSeq(s, 1, 2) = Magic
  <2>1. 2 \in 0 .. Len(s) /\ 2 \in 0 .. Len(t) /\ ~(Len(t) < 2) /\ 1 .. 2 \subseteq 1 .. Len(s)
    BY <1>1, <1>7
  <2>2. SubSeq(t, 1, 2) = SubSeq(s, 1, 2)
    <3>1. /\ SubSeq(s, 1, 2) \in Seq(Cells) /\ Len(SubSeq(s, 1, 2)) = 2
          /\ \A j \in 1 .. 2 : SubSeq(s, 1, 2)[j] = s[j]
      BY <1>1, <2>1, InitialSegment
    <3>2. /\ SubSeq(t, 1, 2) \in Seq(Cells) /\ Len(SubSeq(t, 1, 2)) = 2
          /\ \A j \in 1 .. 2 : SubSeq(t, 1, 2)[j] = t[j]
      BY <2>1, InitialSegment
    <3>3. \A j \in 1 .. 2 : SubSeq(t, 1, 2)[j] = SubSeq(s, 1, 2)[j]
      BY <1>1, <2>1, <3>1, <3>2
    <3> QED
      BY <3>1, <3>2, <3>3, SeqEqual
  <2>3. Read(s) = ReadFrom(s)[3] /\ Read(t) = ReadFrom(t)[3]
    BY <1>7, <2>1, <2>2, Zenon DEF Read
  <2>4. 3 \in 1 .. Len(s) + 1
    BY <1>1, <1>7
  <2>5. ASSUME NEW p \in 1 .. Len(s) + 1
        PROVE  Begins(<<>>, ReadFrom(t)[p].payloads)
    <3>1. p \in 1 .. Len(t) + 1
      BY <1>1
    <3> QED
      BY <1>2, <1>3, <3>1
  <2>6. Begins(ReadFrom(s)[3].payloads, ReadFrom(t)[3].payloads)
    BY <2>4, <2>5, ReadFromGrows
  <2> QED
    BY <2>3, <2>6, Zenon
<1> QED
  BY <1>6, <1>7

-----------------------------------------------------------------------------
(* What a crash cannot take.                                               *)
Secure == SubSeq(medium, 1, durable)

(* What is durable stays, at its place.                                    *)
LEMMA DurableStays ==
  ASSUME SinkInv, [Next]_vars
  PROVE  /\ durable <= durable' /\ durable <= Len(medium')
         /\ \A j \in 1 .. durable : medium'[j] = medium[j]
<1>0. /\ medium \in Seq(Cells) /\ durable \in 0 .. Len(medium) /\ Len(medium) \in Nat
      /\ WithHeader \in Seq(Cells)
  BY HeaderLength DEF SinkInv, TypeOK
<1>1. ASSUME NEW b \in Seq(Cells), medium' = medium \o b
      PROVE  /\ Len(medium') = Len(medium) + Len(b) /\ Len(b) \in Nat
             /\ \A j \in 1 .. durable : medium'[j] = medium[j]
  <2>1. /\ Len(medium \o b) = Len(medium) + Len(b)
        /\ \A j \in 1 .. Len(medium) : (medium \o b)[j] = medium[j]
    BY <1>0, <1>1, ConcatIs
  <2>2. 1 .. durable \subseteq 1 .. Len(medium)
    BY <1>0
  <2> QED
    BY <1>1, <2>1, <2>2
<1>2. CASE Flush
  <2>1. medium' = medium \o WithHeader /\ durable' \in {durable, Len(medium')}
    BY <1>2 DEF Flush
  <2> QED
    BY <1>0, <1>1, <2>1
<1>3. CASE FlushFails
  <2>1. PICK n \in 0 .. Len(WithHeader) : medium' = medium \o SubSeq(WithHeader, 1, n)
    BY <1>3 DEF FlushFails
  <2>2. SubSeq(WithHeader, 1, n) \in Seq(Cells)
    BY <1>0, InitialSegment
  <2>3. durable' = durable
    BY <1>3 DEF FlushFails
  <2> QED
    BY <1>0, <1>1, <2>1, <2>2, <2>3
<1>4. CASE Crash
  <2>1. PICK n \in durable .. Len(medium) : medium' = SubSeq(medium, 1, n)
    BY <1>4 DEF Crash
  <2>2. n \in 0 .. Len(medium) /\ 1 .. durable \subseteq 1 .. n
    BY <1>0
  <2>3. /\ Len(SubSeq(medium, 1, n)) = n
        /\ \A j \in 1 .. n : SubSeq(medium, 1, n)[j] = medium[j]
    BY <1>0, <2>2, InitialSegment
  <2>4. durable' = durable
    BY <1>4 DEF Crash
  <2> QED
    BY <1>0, <2>1, <2>2, <2>3, <2>4
<1>5. CASE UNCHANGED <<medium, durable>>
  BY <1>0, <1>5
<1> QED
  BY <1>2, <1>3, <1>4, <1>5
     DEF Next, AppendRecord, AppendOverflows, AppendRefused, vars

(* Of what is durable now and after the step, and of the medium then, each *)
(* lets a reader find at least as much as the one before.                  *)
LEMMA GotStays ==
  ASSUME SinkInv, StreamInv', ~spliced', [Next]_vars
  PROVE  /\ Got(Secure) <= Got(Secure') /\ Got(Secure') <= Got(medium')
         /\ Got(Secure) \in Nat /\ Got(Secure') \in Nat
         /\ Got(medium') \in 0 .. Len(accepted')
         /\ Read(medium').payloads = Payloads(accepted', 1, Got(medium'))
         /\ ~torn' /\ ~dead' /\ WithHeader' = <<>> => Got(Secure') = Len(accepted')
<1>1. PICK w, at : /\ IsStream(w, at, accepted')
                   /\ CutOf(medium', w)
                   /\ ~torn' /\ ~dead' => w = medium' \o WithHeader'
  BY DEF StreamInv, Streamed
<1>2. Legal(accepted')
  <2>1. TypeOK' /\ SeqInv'
    BY DEF StreamInv, SinkInv
  <2> QED
    BY <2>1 DEF TypeOK, SeqInv, Legal
<1>3. /\ medium \in Seq(Cells) /\ durable \in 0 .. Len(medium)
      /\ medium' \in Seq(Cells) /\ durable' \in 0 .. Len(medium')
      /\ Len(medium) \in Nat /\ Len(medium') \in Nat
  BY DEF SinkInv, StreamInv, TypeOK
<1>4. /\ durable <= durable' /\ durable <= Len(medium')
      /\ \A j \in 1 .. durable : medium'[j] = medium[j]
  BY DurableStays
<1>5. /\ Secure \in Seq(Cells) /\ Len(Secure) = durable
      /\ \A j \in 1 .. durable : Secure[j] = medium[j]
  BY <1>3, InitialSegment DEF Secure
<1>6. /\ Secure' \in Seq(Cells) /\ Len(Secure') = durable'
      /\ \A j \in 1 .. durable' : Secure'[j] = medium'[j]
  BY <1>3, InitialSegment DEF Secure
<1>7. Len(medium') <= Len(w) /\ Len(w) \in Nat /\ \A j \in 1 .. Len(medium') : medium'[j] = w[j]
  BY <1>1 DEF CutOf, IsStream
<1>8. CutOf(Secure, w) /\ CutOf(Secure', w)
  <2>1. 1 .. durable \subseteq 1 .. Len(medium') /\ 1 .. durable' \subseteq 1 .. Len(medium')
    BY <1>3, <1>4
  <2>2. durable <= Len(w) /\ durable' <= Len(w)
    BY <1>3, <1>4, <1>7
  <2> QED
    BY <1>4, <1>5, <1>6, <1>7, <2>1, <2>2 DEF CutOf
<1>9. Got(Secure) <= Got(Secure') /\ Got(Secure') <= Got(medium')
  <2>1. Len(Secure) <= Len(Secure') /\ Len(Secure') <= Len(medium')
    BY <1>3, <1>4, <1>5, <1>6
  <2> QED
    BY <1>1, <1>2, <1>8, <2>1, GotGrows
<1>10. /\ Got(medium') \in 0 .. Len(accepted')
       /\ Read(medium').payloads = Payloads(accepted', 1, Got(medium'))
  <2>1. IsStream(w, at, accepted') /\ CutOf(medium', w)
    BY <1>1
  <2> QED
    BY <1>2, <2>1, GotIs
<1>11. Got(Secure) \in Nat /\ Got(Secure') \in Nat
  <2>1. Got(Secure) \in 0 .. Len(accepted') /\ Got(Secure') \in 0 .. Len(accepted')
    BY <1>1, <1>2, <1>8, GotIs
  <2> QED
    BY <2>1
<1>12. ASSUME ~torn', ~dead', WithHeader' = <<>>
       PROVE  Got(Secure') = Len(accepted')
  <2>0. durable' = Len(medium')
    BY <1>12 DEF StreamInv
  <2>1. w = medium'
    BY <1>1, <1>3, <1>12
  <2>2. Secure' = medium'
    BY <1>3, <1>6, <2>0, SeqEqual
  <2>3. CutOf(Secure', w) /\ Secure' = w
    BY <1>8, <2>1, <2>2, Zenon
  <2>4. Secure' = w => Got(Secure') = Len(accepted')
    BY <1>1, <1>2, <2>3, GotIs
  <2> QED
    BY <2>3, <2>4
<1> QED
  BY <1>9, <1>10, <1>11, <1>12

-----------------------------------------------------------------------------
(***************************************************************************)
(* The records flushed before the first tear: the beginning of the medium  *)
(* holds them, and all of that beginning is durable.                       *)
(***************************************************************************)
KeptAt(k) ==
  /\ k \in 0 .. durable
  /\ Read(SubSeq(medium, 1, k)).payloads = Payloads(accepted, 1, kept)

KeptInv == StreamInv /\ \E k : KeptAt(k)

(* Nothing has been flushed before the first record.                       *)
LEMMA InitKeptInv == Init => KeptInv
<1> SUFFICES ASSUME Init PROVE KeptInv
  OBVIOUS
<1>1. StreamInv /\ medium = <<>> /\ durable = 0 /\ kept = 0
  BY InitStreamInv DEF Init
<1>2. SubSeq(medium, 1, 0) = <<>> /\ Len(<<>>) < 2
  BY <1>1
<1>3. Read(SubSeq(medium, 1, 0)) = Ends("HeaderMissing")
  BY <1>2, Zenon DEF Read
<1>4. Payloads(accepted, 1, 0) = <<>>
  BY DEF Payloads
<1>5. KeptAt(0)
  BY <1>1, <1>3, <1>4 DEF KeptAt, Ends
<1> QED
  BY <1>1, <1>5 DEF KeptInv

(* Whatever is written or lost later leaves that beginning alone.          *)
LEMMA KeptInvStep ==
  ASSUME KeptInv, [Next]_vars
  PROVE  KeptInv'
<1>1. StreamInv /\ StreamInv'
  BY StreamInvStep DEF KeptInv
<1>2. /\ medium \in Seq(Cells) /\ medium' \in Seq(Cells) /\ Len(medium) \in Nat
      /\ durable \in 0 .. Len(medium) /\ durable' \in 0 .. Len(medium')
      /\ accepted \in Seq(Records) /\ kept \in 0 .. Len(accepted)
      /\ WithHeader \in Seq(Cells) /\ Len(medium') \in Nat
  BY <1>1, HeaderLength DEF StreamInv, SinkInv, TypeOK
<1>3. /\ durable <= durable' /\ durable <= Len(medium')
      /\ \A j \in 1 .. durable : medium'[j] = medium[j]
  BY <1>1, DurableStays DEF StreamInv
<1>4. ASSUME kept' = kept, accepted' = accepted \/ \E r : accepted' = Append(accepted, r)
      PROVE  KeptInv'
  <2>1. PICK k : KeptAt(k)
    BY DEF KeptInv
  <2>2. k \in 0 .. durable' /\ k \in 0 .. Len(medium) /\ k \in 0 .. Len(medium')
        /\ k \in 0 .. durable
    BY <1>2, <1>3, <2>1 DEF KeptAt
  <2>3. SubSeq(medium', 1, k) = SubSeq(medium, 1, k)
    <3>1. /\ SubSeq(medium, 1, k) \in Seq(Cells) /\ Len(SubSeq(medium, 1, k)) = k
          /\ \A j \in 1 .. k : SubSeq(medium, 1, k)[j] = medium[j]
      BY <1>2, <2>2, InitialSegment
    <3>2. /\ SubSeq(medium', 1, k) \in Seq(Cells) /\ Len(SubSeq(medium', 1, k)) = k
          /\ \A j \in 1 .. k : SubSeq(medium', 1, k)[j] = medium'[j]
      BY <1>2, <2>2, InitialSegment
    <3>3. 1 .. k \subseteq 1 .. durable
      BY <1>2, <2>2
    <3>4. \A j \in 1 .. k : SubSeq(medium', 1, k)[j] = SubSeq(medium, 1, k)[j]
      BY <1>3, <3>1, <3>2, <3>3
    <3> QED
      BY <3>1, <3>2, <3>4, SeqEqual
  <2>4. Payloads(accepted', 1, kept') = Payloads(accepted, 1, kept)
    <3>1. \A j \in 1 .. kept - 1 + 1 : 1 + j - 1 \in 1 .. Len(accepted)
      BY <1>2
    <3>2. \A i \in 1 .. Len(accepted) : accepted'[i] = accepted[i]
      BY <1>2, <1>4
    <3> QED
      BY <1>4, <3>1, <3>2 DEF Payloads
  <2>5. KeptAt(k)'
    BY <2>1, <2>2, <2>3, <2>4 DEF KeptAt
  <2> QED
    BY <1>1, <2>5 DEF KeptInv
<1>5. CASE Flush
  <2>1. /\ ~dead /\ medium' = medium \o WithHeader /\ spliced' = torn
        /\ kept' = IF torn THEN kept ELSE Len(accepted)
        /\ UNCHANGED <<accepted, torn, dead>>
    BY <1>5 DEF Flush
  <2>2. CASE torn
    BY <1>4, <2>1, <2>2
  <2>3. CASE ~torn
    <3>1. ~spliced
      BY <1>1, <2>3 DEF StreamInv, SinkInv, TypeOK
    <3>2. PICK w, at : Streamed(w, at)
      BY <1>1, <3>1 DEF StreamInv
    <3>3. IsStream(medium', at, accepted) /\ CutOf(medium', medium')
      <4>1. medium' = w /\ IsStream(w, at, accepted)
        BY <2>1, <2>3, <3>2, Zenon DEF Streamed
      <4>2. CutOf(medium', medium')
        BY <1>2 DEF CutOf
      <4> QED
        BY <4>1, <4>2, Zenon
    <3>4. /\ Read(medium').payloads = Payloads(accepted, 1, Got(medium'))
          /\ Got(medium') = Len(accepted)
      <4>1. Legal(accepted)
        BY <1>1, AcceptedIsLegal DEF StreamInv
      <4> QED
        BY <3>3, <4>1, GotIs, Zenon
    <3>5. durable' = Len(medium')
      BY <1>1, <2>1, <2>3 DEF StreamInv
    <3>6. SubSeq(medium', 1, durable') = medium'
      BY <1>2, <3>5
    <3>7. Read(SubSeq(medium', 1, durable')).payloads = Payloads(accepted', 1, kept')
      BY <2>1, <2>3, <3>4, <3>6, Zenon
    <3>8. durable' \in 0 .. durable'
      BY <1>2
    <3>9. (\E k : KeptAt(k))'
      BY <3>7, <3>8, Zenon DEF KeptAt
    <3> QED
      BY <1>1, <3>9 DEF KeptInv
  <2> QED
    BY <2>2, <2>3
<1>6. CASE FlushFails \/ Crash
  BY <1>4, <1>6 DEF FlushFails, Crash, writes
<1>7. ASSUME NEW r \in Records, AppendRecord(r) PROVE KeptInv'
  BY <1>4, <1>7 DEF AppendRecord, writes
<1>8. ASSUME NEW r \in Records, AppendOverflows(r) PROVE KeptInv'
  BY <1>4, <1>8 DEF AppendOverflows, writes
<1>9. CASE UNCHANGED vars
  BY <1>4, <1>9 DEF vars, writes
<1> QED
  BY <1>5, <1>6, <1>7, <1>8, <1>9 DEF Next, AppendRefused

(***************************************************************************)
(* However the sink is called, whatever of a write the writer takes and    *)
(* whatever of it a crash loses: until a flush writes behind a torn one    *)
(* the reader returns a prefix of what was accepted, stops at the end of   *)
(* the stream or at its torn tail, and after a flush that answered Ok      *)
(* returns all of it; and even then what was flushed before the tear comes *)
(* first.                                                                  *)
(***************************************************************************)
THEOREM ReaderNeverMisreads == Spec => []NeverMisread
<1>1. ASSUME KeptInv PROVE NeverMisread
  <2>1. StreamInv
    BY <1>1 DEF KeptInv
  <2> DEFINE all == AcceptedPayloads
             first == SubSeq(all, 1, kept)
  <2>2. IsPrefix(first, ReadBack.payloads)
    <3>1. PICK k : KeptAt(k)
      BY <1>1 DEF KeptInv
    <3>2. /\ medium \in Seq(Cells) /\ k \in 0 .. Len(medium)
          /\ accepted \in Seq(Records) /\ kept \in 0 .. Len(accepted)
      BY <2>1, <3>1 DEF KeptAt, StreamInv, SinkInv, TypeOK
    <3>3. CutOf(SubSeq(medium, 1, k), medium)
      <4>1. /\ SubSeq(medium, 1, k) \in Seq(Cells) /\ Len(SubSeq(medium, 1, k)) = k
            /\ \A j \in 1 .. k : SubSeq(medium, 1, k)[j] = medium[j]
        BY <3>2, InitialSegment
      <4>2. k <= Len(medium)
        BY <3>2
      <4> QED
        BY <4>1, <4>2 DEF CutOf
    <3>4. Begins(Payloads(accepted, 1, kept), ReadBack.payloads)
      BY <3>1, <3>2, <3>3, ReadGrows DEF KeptAt, ReadBack
    <3>5. first = Payloads(accepted, 1, kept)
      <4>1. all \in Seq(Texts) /\ Len(all) = Len(accepted)
        <5>1. all \in [1 .. Len(accepted) -> Texts] /\ Len(accepted) \in Nat
          BY <3>2, PayloadIsCells DEF AcceptedPayloads, Texts
        <5> HIDE DEF all
        <5> QED
          BY <5>1, FunctionIsSeq
      <4>2. first = [i \in 1 .. kept |-> all[i]]
        <5> HIDE DEF all
        <5> QED
          BY <3>2, <4>1
      <4>3. \A i \in 1 .. kept : all[i] = Payload(accepted[i]) /\ 1 + i - 1 = i
        BY <3>2 DEF AcceptedPayloads
      <4>4. kept - 1 + 1 = kept
        BY <3>2
      <4> HIDE DEF all
      <4> QED
        BY <4>2, <4>3, <4>4 DEF Payloads
    <3> HIDE DEF first
    <3>6. Begins(first, ReadBack.payloads)
      BY <3>4, <3>5, Zenon
    <3>7. SubSeq(first, 1, Len(first)) = SubSeq(ReadBack.payloads, 1, Len(first))
      <4> DEFINE b == ReadBack.payloads
      <4>1. /\ first \in Seq(Texts) /\ b \in Seq(Texts) /\ Len(first) <= Len(b)
            /\ \A j \in 1 .. Len(first) : first[j] = b[j]
        BY <3>6 DEF Begins
      <4> HIDE DEF b
      <4> QED
        BY <4>1 DEF b
    <3> QED
      BY <3>6, <3>7, Zenon DEF Begins, IsPrefix
  <2> HIDE DEF first, all
  <2>3. IsPrefix(SubSeq(AcceptedPayloads, 1, kept), ReadBack.payloads)
    BY <2>2 DEF first, all
  <2> QED
    BY <2>1, <2>3, StreamReadsBack, Zenon DEF NeverMisread
<1> QED
  BY <1>1, InitKeptInv, KeptInvStep, PTL DEF Spec

-----------------------------------------------------------------------------
(***************************************************************************)
(* wal_to_sink: lastSeq is the seq of the record before the next one, a    *)
(* second attempt finds the buffer drained, and an error has a cause.      *)
(***************************************************************************)
ExportInv ==
  /\ SinkInv
  /\ wal \in Wals
  /\ next \in 1 .. Len(wal) + 1
  /\ phase \in {"append", "drain", "retry", "ok", "err"}
  /\ lastSeq = IF next = 1 THEN NoSeq ELSE wal[next - 1].seq
  /\ phase = "retry" => headerEmitted /\ buffer = <<>>
  /\ phase \in {"drain", "retry"} => ValidLength(wal[next])
  /\ failures > 0 => phase = "err"
  /\ ~spliced
  /\ ErrorsAreEarned

(* The records of the log carry consecutive numbers.                       *)
LEMMA WalIsConsecutive ==
  ASSUME ExportInv
  PROVE  /\ wal \in Seq(Records) /\ Len(wal) \in Nat
         /\ next \in 1 .. Len(wal) => wal[next] \in Records
         /\ next \in 2 .. Len(wal) => wal[next].seq = wal[next - 1].seq + 1
<1>1. /\ wal \in Seq(Records)
      /\ \A i \in 1 .. Len(wal) - 1 : wal[i + 1].seq = wal[i].seq + 1
  BY WalAssumption DEF ExportInv
<1>2. ASSUME next \in 2 .. Len(wal)
      PROVE  wal[next].seq = wal[next - 1].seq + 1
  <2>1. next - 1 \in 1 .. Len(wal) - 1 /\ (next - 1) + 1 = next
    BY <1>1, <1>2
  <2> QED
    BY <1>1, <2>1
<1> QED
  BY <1>1, <1>2

(***************************************************************************)
(* wal_to_sink only ever calls the sink's own operations.                  *)
(***************************************************************************)
LEMMA ExportCallsTheSink ==
  ASSUME ExportInv, [XNext]_xvars
  PROVE  [Next]_vars
<1>1. next \in 1 .. Len(wal) => wal[next] \in Records
  BY WalIsConsecutive
<1>2. CASE ExportRecord
  <2>1. wal[next] \in Records
    BY <1>1, <1>2 DEF ExportRecord, ExportInv
  <2> QED
    BY <1>2, <2>1 DEF ExportRecord, Next
<1>3. CASE Drain \/ Finish
  BY <1>3 DEF Drain, Finish, Next
<1>4. CASE ExportCrash
  BY <1>4 DEF ExportCrash, Next
<1>5. CASE UNCHANGED xvars
  BY <1>5 DEF xvars
<1> QED
  BY <1>2, <1>3, <1>4, <1>5 DEF XNext, Export

(***************************************************************************)
(* A record of the WAL is refused by its size alone: its sequence number   *)
(* follows.                                                                *)
(***************************************************************************)
LEMMA WalRecordsSucceed ==
  ASSUME ExportInv, next \in 1 .. Len(wal)
  PROVE  Succeeds(wal[next])
<1>1. CASE next = 1
  BY <1>1 DEF ExportInv, Succeeds
<1>2. CASE next # 1
  <2>1. next \in 2 .. Len(wal) /\ wal[next] \in Records
    BY <1>2, WalIsConsecutive
  <2>2. next - 1 \in 1 .. Len(wal)
    BY <2>1, WalIsConsecutive
  <2>3. wal[next - 1] \in Records
    BY <2>2, WalIsConsecutive
  <2>4. wal[next].seq = wal[next - 1].seq + 1 /\ lastSeq = wal[next - 1].seq
    BY <1>2, <2>1, WalIsConsecutive DEF ExportInv
  <2> QED
    BY <2>1, <2>3, <2>4, SinkAssumption DEF Succeeds, Records
<1> QED
  BY <1>1, <1>2

(* The invariant holds before the first record.                            *)
LEMMA InitExportInv == XInit => ExportInv
<1> SUFFICES ASSUME XInit PROVE ExportInv
  OBVIOUS
<1>1. SinkInv /\ lastSeq = NoSeq /\ failures = 0 /\ ~spliced
  BY InitSinkInv DEF XInit, Init
<1>2. Len(wal) \in Nat
  BY WalAssumption DEF XInit
<1> QED
  BY <1>1, <1>2 DEF XInit, ExportInv, ErrorsAreEarned

(* Every step keeps the invariant.                                         *)
LEMMA ExportInvStep ==
  ASSUME ExportInv, [XNext]_xvars
  PROVE  ExportInv'
<1>0. SinkInv'
  BY ExportCallsTheSink, SinkInvStep DEF ExportInv
<1>w. wal \in Seq(Records) /\ Len(wal) \in Nat
  BY WalIsConsecutive
<1>1. ASSUME AppendRecord(wal[next]), next <= Len(wal), phase # "err",
             next' = next + 1, phase' = "append", UNCHANGED wal
      PROVE  ExportInv'
  BY <1>0, <1>1, <1>w DEF AppendRecord, writes, ExportInv, ErrorsAreEarned
<1>2. ASSUME AppendOverflows(wal[next]), next <= Len(wal), phase = "append",
             phase' = "drain", UNCHANGED <<wal, next>>
      PROVE  ExportInv'
  BY <1>0, <1>2 DEF AppendOverflows, writes, ExportInv, ErrorsAreEarned
<1>3. ASSUME AppendOverflows(wal[next]), next <= Len(wal), phase = "retry",
             phase' = "err", UNCHANGED <<wal, next>>
      PROVE  ExportInv'
  <2>1. WithHeader = <<>>
    BY <1>3 DEF ExportInv, WithHeader
  <2>2. Len(WithHeader) = 0
    BY <2>1
  <2>3. wal[next] \in Records
    BY <1>3, WalIsConsecutive DEF ExportInv
  <2>4. 2 + wal[next].size > Capacity
    BY <1>3, <2>2, <2>3, SinkAssumption DEF AppendOverflows, Fits, Records
  <2> QED
    BY <1>0, <1>3, <2>4 DEF AppendOverflows, writes, ExportInv, ErrorsAreEarned
<1>4. ASSUME AppendRefused(wal[next]), next <= Len(wal),
             phase' = "err", UNCHANGED <<wal, next>>
      PROVE  ExportInv'
  <2>1. ~ValidLength(wal[next])
    BY <1>4, WalRecordsSucceed DEF AppendRefused, ExportInv
  <2> QED
    BY <1>0, <1>4, <2>1 DEF AppendRefused, vars, sink, writes, ExportInv, ErrorsAreEarned
<1>5. ASSUME Flush, phase \in {"drain", "append"}, phase' \in {"retry", "ok"},
             phase = "append" => phase' = "ok", UNCHANGED <<wal, next>>
      PROVE  ExportInv'
  <2>1. failures = 0 /\ ~torn
    BY <1>5 DEF ExportInv, SinkInv, TypeOK
  <2> QED
    BY <1>0, <1>5, <2>1 DEF Flush, ExportInv, ErrorsAreEarned
<1>6. ASSUME FlushFails, phase # "err", phase' = "err", UNCHANGED <<wal, next>>
      PROVE  ExportInv'
  <2>1. failures \in Nat /\ ~torn /\ ~spliced
    BY <1>6 DEF ExportInv, SinkInv, TypeOK
  <2>2. ~spliced' /\ failures' = failures + 1 /\ UNCHANGED lastSeq
    BY <1>6, <2>1 DEF FlushFails
  <2>3. failures' > 0
    BY <2>1, <2>2
  <2> QED
    BY <1>0, <1>6, <2>2, <2>3 DEF ExportInv, ErrorsAreEarned
<1>7. CASE ExportCrash
  BY <1>0, <1>7 DEF ExportCrash, Crash, loop, sink, writes, ExportInv, ErrorsAreEarned
<1>8. CASE UNCHANGED xvars
  BY <1>0, <1>8 DEF xvars, vars, loop, sink, writes, ExportInv, ErrorsAreEarned
<1> QED
  BY <1>1, <1>2, <1>3, <1>4, <1>5, <1>6, <1>7, <1>8
     DEF XNext, Export, ExportRecord, Drain, Finish

(***************************************************************************)
(* A WAL of any size exports through a bounded sink: unless a write fails, *)
(* wal_to_sink stops only at a record that is not of a legal size or whose *)
(* frame no drained sink of this capacity can hold.                        *)
(***************************************************************************)
THEOREM ExportErrorsAreEarned == XSpec => []ErrorsAreEarned
<1>1. ExportInv /\ [XNext]_xvars => ExportInv'
  BY ExportInvStep
<1>2. ExportInv => ErrorsAreEarned
  BY DEF ExportInv
<1> QED
  BY <1>1, <1>2, InitExportInv, PTL DEF XSpec

-----------------------------------------------------------------------------
(***************************************************************************)
(* The export: what is accepted is the WAL up to the next record; and when *)
(* wal_to_sink has answered Ok, all of the WAL can be read from what is    *)
(* durable.                                                                *)
(***************************************************************************)
ArchiveInv ==
  /\ ExportInv
  /\ StreamInv
  /\ Len(accepted) = next - 1
  /\ \A i \in 1 .. next - 1 : accepted[i] = wal[i]
  /\ phase = "ok" => Got(Secure) = Len(wal)

(* The archive is empty before the first record.                           *)
LEMMA InitArchiveInv == XInit => ArchiveInv
<1> SUFFICES ASSUME XInit PROVE ArchiveInv
  OBVIOUS
<1>1. ExportInv /\ StreamInv
  BY InitExportInv, InitStreamInv DEF XInit
<1>2. accepted = <<>> /\ medium = <<>> /\ durable = 0 /\ next = 1 /\ phase = "append"
  BY DEF XInit, Init
<1> QED
  BY <1>1, <1>2 DEF ArchiveInv

(* The accepted records follow the WAL.                                    *)
LEMMA LoopKeepsPace ==
  ASSUME ArchiveInv, [XNext]_xvars
  PROVE  /\ Len(accepted') = next' - 1
         /\ \A i \in 1 .. next' - 1 : accepted'[i] = wal'[i]
<1>1. /\ accepted \in Seq(Records) /\ next \in Nat /\ Len(accepted) = next - 1
      /\ \A i \in 1 .. next - 1 : accepted[i] = wal[i]
      /\ wal \in Seq(Records)
  BY WalIsConsecutive DEF ArchiveInv, ExportInv, SinkInv, TypeOK
<1>2. ASSUME AppendRecord(wal[next]), next <= Len(wal), next' = next + 1, UNCHANGED wal
      PROVE  /\ Len(accepted') = next' - 1
             /\ \A i \in 1 .. next' - 1 : accepted'[i] = wal'[i]
  <2>1. accepted' = Append(accepted, wal[next])
    BY <1>2 DEF AppendRecord
  <2>2. /\ Len(accepted') = Len(accepted) + 1
        /\ accepted'[next] = wal[next]
        /\ \A i \in 1 .. next - 1 : accepted'[i] = accepted[i]
    BY <1>1, <2>1
  <2>3. \A i \in 1 .. next' - 1 : i \in 1 .. next - 1 \/ i = next
    BY <1>1, <1>2
  <2> QED
    BY <1>1, <1>2, <2>2, <2>3
<1>3. ASSUME UNCHANGED <<accepted, wal, next>>
      PROVE  /\ Len(accepted') = next' - 1
             /\ \A i \in 1 .. next' - 1 : accepted'[i] = wal'[i]
  BY <1>1, <1>3
<1>4. CASE ExportRecord
  <2>1. ASSUME AppendOverflows(wal[next]) \/ AppendRefused(wal[next]), next' = next,
               UNCHANGED wal
        PROVE  UNCHANGED <<accepted, wal, next>>
    BY <2>1 DEF AppendOverflows, AppendRefused, vars
  <2> QED
    BY <1>2, <1>3, <1>4, <2>1 DEF ExportRecord
<1>5. CASE Drain \/ Finish
  BY <1>3, <1>5 DEF Drain, Finish, Flush, FlushFails
<1>6. CASE ExportCrash
  BY <1>3, <1>6 DEF ExportCrash, Crash, loop
<1>7. CASE UNCHANGED xvars
  BY <1>3, <1>7 DEF xvars, vars, loop
<1> QED
  BY <1>4, <1>5, <1>6, <1>7 DEF XNext, Export

(* wal_to_sink answers Ok in the step of its last flush only, and never    *)
(* takes it back.                                                          *)
LEMMA OkIsForGood ==
  ASSUME ArchiveInv, [XNext]_xvars
  PROVE  /\ phase = "ok" => phase' = "ok"
         /\ wal' = wal
         /\ phase' = "ok" /\ phase # "ok" =>
              Flush /\ next > Len(wal) /\ next' = next /\ phase = "append"
<1>1. CASE ExportRecord
  BY <1>1 DEF ExportRecord
<1>2. CASE Drain
  BY <1>2 DEF Drain
<1>3. CASE Finish
  BY <1>3 DEF Finish
<1>4. CASE ExportCrash
  BY <1>4 DEF ExportCrash, loop
<1>5. CASE UNCHANGED xvars
  BY <1>5 DEF xvars, loop
<1> QED
  BY <1>1, <1>2, <1>3, <1>4, <1>5 DEF XNext, Export

(* One step of the export, as a reader of what is durable sees it.         *)
LEMMA ArchiveStep ==
  ASSUME ArchiveInv, [XNext]_xvars
  PROVE  /\ ArchiveInv'
         /\ Got(Secure) <= Got(Secure') /\ Got(Secure') <= Got(medium')
         /\ Got(medium') \in 0 .. Len(accepted')
         /\ Read(medium').payloads = Payloads(accepted', 1, Got(medium'))
<1>1. [Next]_vars /\ SinkInv
  BY ExportCallsTheSink DEF ArchiveInv, ExportInv
<1>2. ExportInv' /\ StreamInv'
  BY <1>1, ExportInvStep, StreamInvStep DEF ArchiveInv
<1>3. /\ Got(Secure) <= Got(Secure') /\ Got(Secure') <= Got(medium')
      /\ Got(Secure) \in Nat /\ Got(Secure') \in Nat
      /\ Got(medium') \in 0 .. Len(accepted')
      /\ Read(medium').payloads = Payloads(accepted', 1, Got(medium'))
      /\ ~torn' /\ ~dead' /\ WithHeader' = <<>> => Got(Secure') = Len(accepted')
  BY <1>1, <1>2, GotStays DEF ExportInv
<1>4. /\ Len(accepted') = next' - 1
      /\ \A i \in 1 .. next' - 1 : accepted'[i] = wal'[i]
  BY LoopKeepsPace
<1>5. next' \in 1 .. Len(wal') + 1 /\ Len(wal') \in Nat
  <2>1. wal' \in Seq(Records)
    BY <1>2, WalAssumption DEF ExportInv
  <2> QED
    BY <1>2, <2>1 DEF ExportInv
<1>6. ASSUME phase' = "ok" PROVE Got(Secure') = Len(wal')
  <2>1. wal' = wal
    BY OkIsForGood
  <2>2. CASE phase = "ok"
    <3>1. Got(Secure) = Len(wal)
      BY <2>2 DEF ArchiveInv
    <3>2. Len(accepted') <= Len(wal')
      BY <1>4, <1>5
    <3> QED
      BY <1>3, <1>4, <1>5, <2>1, <3>1, <3>2
  <2>3. CASE phase # "ok"
    <3>1. Flush /\ next > Len(wal) /\ next' = next /\ phase = "append"
      BY <1>6, <2>3, OkIsForGood
    <3>2. ~torn' /\ ~dead' /\ WithHeader' = <<>>
      BY <1>1, <3>1 DEF Flush, WithHeader, ArchiveInv, ExportInv, SinkInv, TypeOK
    <3>3. Got(Secure') = Len(accepted')
      BY <1>3, <3>2
    <3>4. Len(accepted') = Len(wal')
      BY <1>4, <1>5, <2>1, <3>1
    <3> QED
      BY <3>3, <3>4
  <2> QED
    BY <2>2, <2>3
<1> QED
  BY <1>2, <1>3, <1>4, <1>6 DEF ArchiveInv

(***************************************************************************)
(* Whatever the writer does and whenever the process dies, the export is   *)
(* an archive of the WAL: at every moment a reader finds a prefix of the   *)
(* WAL, what a flush made durable stays readable, and Ok means all of it.  *)
(***************************************************************************)
THEOREM ExportIsAnArchive == XSpec => ImplementsArchive
<1> DEFINE log == [i \in 1 .. Len(wal) |-> Payload(wal[i])]
           acked == Len(Read(SubSeq(medium, 1, durable)).payloads)
           archive == ReadBack.payloads
<1>1. ASSUME XInit PROVE Archive!Init
  <2>1. medium = <<>> /\ durable = 0 /\ phase = "append"
    BY <1>1 DEF XInit, Init
  <2>2. Read(<<>>) = Ends("HeaderMissing")
    <3>1. Len(<<>>) < 2
      OBVIOUS
    <3> QED
      BY <3>1, Zenon DEF Read
  <2>3. SubSeq(medium, 1, durable) = <<>>
    BY <2>1
  <2>4. archive = <<>>
    BY <2>1, <2>2 DEF ReadBack, Ends
  <2>5. Read(SubSeq(medium, 1, durable)).payloads = <<>>
    <3>1. Read(SubSeq(medium, 1, durable)) = Ends("HeaderMissing")
      BY <2>2, <2>3, Zenon
    <3> QED
      BY <3>1 DEF Ends
  <2>6. acked = 0
    BY <2>5
  <2> QED
    BY <2>1, <2>4, <2>6 DEF Archive!Init
<1>2. ASSUME ArchiveInv, [XNext]_xvars PROVE Archive!Next
  <2>1. /\ ArchiveInv'
        /\ Got(Secure) <= Got(Secure') /\ Got(Secure') <= Got(medium')
        /\ Got(medium') \in 0 .. Len(accepted')
        /\ Read(medium').payloads = Payloads(accepted', 1, Got(medium'))
    BY <1>2, ArchiveStep
  <2>2. wal' = wal /\ (phase = "ok" => phase' = "ok")
    BY <1>2, OkIsForGood
  <2>3. /\ wal \in Seq(Records) /\ Len(wal) \in Nat
        /\ Len(accepted') <= Len(wal)
        /\ \A i \in 1 .. Len(accepted') : accepted'[i] = wal[i]
        /\ Len(accepted') \in Nat
    <3>1. wal \in Seq(Records)
      BY <1>2, WalIsConsecutive DEF ArchiveInv
    <3>2. next' \in 1 .. Len(wal') + 1
      BY <2>1 DEF ArchiveInv, ExportInv
    <3>3. Len(accepted') = next' - 1 /\ \A i \in 1 .. next' - 1 : accepted'[i] = wal'[i]
      BY <2>1 DEF ArchiveInv
    <3> DEFINE n == next' - 1
               all == accepted'
    <3>4. Len(wal) \in Nat /\ n \in 0 .. Len(wal)
      <4>1. next' \in 1 .. Len(wal) + 1
        BY <2>2, <3>2, Zenon
      <4>2. Len(wal) \in Nat
        BY <3>1
      <4>3. \A k : k \in 1 .. Len(wal) + 1 => k - 1 \in 0 .. Len(wal)
        BY <4>2
      <4> QED
        BY <4>1, <4>2, <4>3
    <3>5. Len(all) = n /\ \A i \in 1 .. n : all[i] = wal[i]
      BY <2>2, <3>3, Zenon
    <3> HIDE DEF n, all
    <3>6. Len(all) \in Nat /\ Len(all) <= Len(wal) /\ \A i \in 1 .. Len(all) : all[i] = wal[i]
      BY <3>4, <3>5
    <3> QED
      BY <3>1, <3>4, <3>6 DEF all
  <2>4. log' = log
    BY <2>2
  <2>5. IsPrefix(archive', log)
    <3> DEFINE m == Got(medium')
    <3>1. archive' = Payloads(accepted', 1, m) /\ m \in 0 .. Len(accepted')
      BY <2>1 DEF ReadBack
    <3> HIDE DEF m
    <3>2. \A i \in 1 .. m : /\ i \in 1 .. Len(wal) /\ i \in 1 .. Len(accepted')
                            /\ 1 + i - 1 = i
      BY <2>3, <3>1
    <3>3. archive' = [i \in 1 .. m |-> log[i]]
      <4>1. m \in Int /\ m - 1 + 1 = m
        BY <3>1
      <4>2. Payloads(accepted', 1, m) = [i \in 1 .. m |-> Payload(accepted'[i])]
        BY <3>2, <4>1 DEF Payloads
      <4>3. \A i \in 1 .. m : log[i] = Payload(accepted'[i])
        BY <2>3, <3>2
      <4> HIDE DEF log, archive
      <4> QED
        BY <3>1, <4>2, <4>3
    <3>4. log \in [1 .. Len(wal) -> Seq(Cells)]
      BY <2>3, PayloadIsCells
    <3> HIDE DEF log, archive
    <3>5. log \in Seq(Seq(Cells)) /\ Len(log) = Len(wal)
      BY <2>3, <3>4, FunctionIsSeq
    <3>6. m \in Nat /\ archive' \in [1 .. m -> Seq(Cells)]
      BY <3>1, <3>2, <3>3, <3>4
    <3>7. archive' \in Seq(Seq(Cells)) /\ Len(archive') = m
      BY <3>6, FunctionIsSeq
    <3>8. m <= Len(log)
      BY <2>3, <3>1, <3>5
    <3>9. SubSeq(archive', 1, m) = archive' /\ SubSeq(log, 1, m) = archive'
      BY <3>3, <3>5, <3>6, <3>7, <3>8
    <3> QED
      BY <3>7, <3>8, <3>9, Zenon DEF IsPrefix
  <2>6. acked = Got(Secure) /\ acked' = Got(Secure') /\ Len(archive') = Got(medium')
    BY DEF Got, Secure, ReadBack
  <2>7. acked <= acked' /\ acked' <= Len(archive')
    BY <2>1, <2>6, Zenon
  <2>8. phase' = "ok" => acked' = Len(log)
    <3>1. phase' = "ok" => Got(Secure') = Len(wal')
      BY <2>1 DEF ArchiveInv
    <3>2. Len(log) = Len(wal)
      BY <2>3
    <3> QED
      BY <2>2, <2>6, <3>1, <3>2, Zenon
  <2> HIDE DEF log, acked, archive
  <2> QED
    BY <2>2, <2>4, <2>5, <2>7, <2>8, Zenon
       DEF Archive!Next, Archive!IsPrefix, IsPrefix, log, acked, archive
<1>3. ArchiveInv /\ [XNext]_xvars => ArchiveInv'
  BY ArchiveStep
<1> HIDE DEF log, acked, archive
<1> QED
  BY <1>1, <1>2, <1>3, InitArchiveInv, PTL
     DEF XSpec, ImplementsArchive, Archive!Spec
=============================================================================
