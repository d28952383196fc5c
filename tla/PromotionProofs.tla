--------------------------- MODULE PromotionProofs ---------------------------
(***************************************************************************)
(* Theorems of the parts a promotion rests on: of KmsHealth, for any       *)
(* channels, lists of them and threshold, and of DoctorJournal, for any    *)
(* tokens, ticks and signing keys.                                         *)
(***************************************************************************)
EXTENDS KmsHealth, DoctorJournal,
        SequenceTheorems, FunctionTheorems, FiniteSetTheorems, TLAPS

-----------------------------------------------------------------------------
(***************************************************************************)
(* Loops.  A function of the turns made is what its first value and its    *)
(* step make it.                                                           *)
(***************************************************************************)

(* A natural number is reached from 0 in steps of one.                     *)
LEMMA SetInduction ==
  ASSUME NEW S, 0 \in S, \A n \in Nat : n \in S => n + 1 \in S
  PROVE  Nat \subseteq S
<1> SUFFICES ASSUME Nat \ S # {} PROVE FALSE
  OBVIOUS
<1>1. PICK n \in Nat \ S : \A m \in Nat \ S : ~(m < n)
  <2>1. \E n \in Nat \ S : \A m \in Nat \ S : <<m, n>> \notin OpToRel(<, Nat)
    BY WFMin, NatLessThanWellFounded, Zenon
  <2> QED
    BY <2>1, Zenon DEF OpToRel
<1>2. n # 0 /\ n - 1 \in Nat \ S
  BY <1>1
<1> QED
  BY <1>1, <1>2

(* g makes N turns of the loop that starts with c.                         *)
Runs(g, N, c, step) ==
  /\ g = [k \in 0 .. N |-> g[k]]
  /\ g[0] = c
  /\ \A k \in 1 .. N : g[k] = step[<<g[k - 1], k>>]

(* A loop whose step stays in T has a run, which stays in T.               *)
LEMMA LoopRuns ==
  ASSUME NEW N \in Nat, NEW T, NEW c \in T, NEW step \in [T \X (1 .. N) -> T]
  PROVE  \E g \in [0 .. N -> T] : Runs(g, N, c, step)
<1> DEFINE S == {n \in Nat : n <= N => \E g \in [0 .. n -> T] : Runs(g, n, c, step)}
<1>1. 0 \in S
  <2>1. [k \in 0 .. 0 |-> c] \in [0 .. 0 -> T]
    OBVIOUS
  <2>2. Runs([k \in 0 .. 0 |-> c], 0, c, step)
    BY DEF Runs
  <2> QED
    BY <2>1, <2>2
<1>2. ASSUME NEW n \in Nat, n \in S PROVE n + 1 \in S
  <2> SUFFICES ASSUME n + 1 <= N
               PROVE  \E g \in [0 .. n + 1 -> T] : Runs(g, n + 1, c, step)
    OBVIOUS
  <2>1. PICK g \in [0 .. n -> T] : Runs(g, n, c, step)
    BY <1>2
  <2> DEFINE h == [k \in 0 .. n + 1 |-> IF k <= n THEN g[k] ELSE step[<<g[n], n + 1>>]]
  <2>2. step[<<g[n], n + 1>>] \in T
    OBVIOUS
  <2>3. h \in [0 .. n + 1 -> T]
    BY <2>2
  <2>4. \A k \in 0 .. n : h[k] = g[k]
    OBVIOUS
  <2>5. h[n + 1] = step[<<h[n], n + 1>>]
    OBVIOUS
  <2>6. h = [k \in 0 .. n + 1 |-> h[k]]
    OBVIOUS
  <2> HIDE DEF h
  <2>7. Runs(h, n + 1, c, step)
    <3>1. ASSUME NEW k \in 1 .. n + 1 PROVE h[k] = step[<<h[k - 1], k>>]
      <4>1. CASE k = n + 1
        <5>1. k - 1 = n
          BY <4>1
        <5> QED
          BY <2>5, <4>1, <5>1
      <4>2. CASE k \in 1 .. n
        <5>1. k \in 0 .. n /\ k - 1 \in 0 .. n
          BY <4>2
        <5>2. g[k] = step[<<g[k - 1], k>>]
          BY <2>1, <4>2 DEF Runs
        <5> QED
          BY <2>4, <5>1, <5>2
      <4> QED
        BY <4>1, <4>2
    <3>2. h[0] = c
      BY <2>1, <2>4 DEF Runs
    <3> QED
      BY <2>6, <3>1, <3>2 DEF Runs
  <2> QED
    BY <2>3, <2>7
<1>3. N \in S
  <2> HIDE DEF S
  <2> QED
    BY <1>1, <1>2, SetInduction
<1> QED
  BY <1>3

-----------------------------------------------------------------------------
(***************************************************************************)
(* KmsHealth.                                                              *)
(***************************************************************************)

(* Entry i is the first of its channel.                                    *)
First(cs, i) == \A j \in DOMAIN cs : j < i => cs[j].channel # cs[i].channel

(* Each channel that something was said of has an entry, whose status is   *)
(* what was said last; the entries of the list that come after the first   *)
(* of their channel keep the status they were built with.                  *)
FirstEntryTells(cs, said) ==
  /\ \A i \in DOMAIN cs :
       cs[i].status = IF First(cs, i) THEN said[cs[i].channel] ELSE "Unknown"
  /\ \A ch \in Channels : said[ch] # "Unknown" => \E i \in DOMAIN cs : cs[i].channel = ch

(* What was said last of the channel of report i, after the first k        *)
(* reports, is what the last of them said.                                 *)
LastReportTells(reports, k, said) ==
  \A i \in 1 .. k :
    (\A j \in i + 1 .. k : reports[j].channel # reports[i].channel)
      => said[reports[i].channel] = reports[i].status

HealthTypeOK ==
  /\ probed \in Seq(Channels)
  /\ channels \in Seq([channel : Channels, status : Statuses])
  /\ last \in [Channels -> Statuses]
  /\ verdict \in Statuses

(* The verdict is that of a round of probes, and nothing was said since.   *)
VerdictOfARound ==
  verdict # "Unknown" =>
    \E outcomes \in [DOMAIN probed -> Outcomes] :
      LET results == PerChannel(probed, outcomes)
      IN  /\ verdict = IF Votes(results, "Failing") >= Threshold THEN "Failing" ELSE "Healthy"
          /\ LastReportTells(results, Len(results), last)

HealthInv == HealthTypeOK /\ FirstEntryTells(channels, last) /\ VerdictOfARound

-----------------------------------------------------------------------------
Entries == [channel : Channels, status : Statuses]

(* A channel that has entries has a first one.                             *)
LEMMA FirstExists ==
  ASSUME NEW cs \in Seq(Entries), NEW i \in DOMAIN cs
  PROVE  \E f \in DOMAIN cs : cs[f].channel = cs[i].channel /\ First(cs, f)
<1> DEFINE T == {j \in DOMAIN cs : cs[j].channel = cs[i].channel}
<1>1. T \subseteq Nat /\ T # {}
  OBVIOUS
<1>2. PICK f \in T : \A j \in T : <<j, f>> \notin OpToRel(<, Nat)
  <2> HIDE DEF T
  <2> QED
    BY <1>1, WFMin, NatLessThanWellFounded, Zenon
<1>3. \A j \in T : ~(j < f)
  <2> HIDE DEF T
  <2> QED
    BY <1>1, <1>2, Zenon DEF OpToRel
<1>4. f \in DOMAIN cs /\ cs[f].channel = cs[i].channel
  OBVIOUS
<1>5. First(cs, f)
  <2> SUFFICES ASSUME NEW j \in DOMAIN cs, j < f, cs[j].channel = cs[f].channel PROVE FALSE
    BY DEF First
  <2>1. j \in T
    BY <1>4
  <2> QED
    BY <1>3, <2>1
<1> QED
  BY <1>4, <1>5

(* set_status changes the first entry of the channel or adds one.          *)
LEMMA SetStatusIs ==
  ASSUME NEW cs \in Seq(Entries), NEW ch, NEW status
  PROVE  LET entry == [channel |-> ch, status |-> status]
         IN  \/ /\ \A j \in DOMAIN cs : cs[j].channel # ch
                /\ SetStatus(cs, ch, status) = Append(cs, entry)
             \/ \E i \in DOMAIN cs :
                  /\ cs[i].channel = ch /\ First(cs, i)
                  /\ SetStatus(cs, ch, status) = [cs EXCEPT ![i] = entry]
<1> DEFINE I == {i \in 1 .. Len(cs) : cs[i].channel = ch}
           k == IF I # {} THEN CHOOSE x \in I : \A y \in I : x =< y ELSE 0
           entry == [channel |-> ch, status |-> status]
<1>1. SetStatus(cs, ch, status)
        = IF k = 0 THEN Append(cs, entry) ELSE [cs EXCEPT ![k] = entry]
  BY DEF SetStatus, SelectInSeq, Min
<1>2. CASE I = {}
  <2>1. k = 0 /\ \A j \in DOMAIN cs : cs[j].channel # ch
    BY <1>2
  <2> HIDE DEF k
  <2> QED
    BY <1>1, <2>1
<1>3. CASE I # {}
  <2>1. PICK i \in DOMAIN cs : cs[i].channel = ch
    BY <1>3
  <2>2. PICK f \in DOMAIN cs : cs[f].channel = ch /\ First(cs, f)
    BY <2>1, FirstExists
  <2>3. f \in I /\ \A y \in I : f =< y
    BY <2>2 DEF First
  <2>4. k \in I /\ \A y \in I : k =< y
    <3>1. k = CHOOSE x \in I : \A y \in I : x =< y
      BY <1>3
    <3> HIDE DEF I, k
    <3> QED
      BY <2>3, <3>1
  <2> HIDE DEF k
  <2>5. k \in DOMAIN cs /\ cs[k].channel = ch /\ k # 0
    BY <2>4
  <2>6. First(cs, k)
    BY <2>4, <2>5 DEF First
  <2> QED
    BY <1>1, <2>5, <2>6
<1> QED
  BY <1>2, <1>3

(* set_status keeps the first entries up to date.                          *)
LEMMA SetStatusTells ==
  ASSUME NEW cs \in Seq(Entries), NEW said \in [Channels -> Statuses],
         FirstEntryTells(cs, said), NEW ch \in Channels, NEW status \in Statuses
  PROVE  /\ SetStatus(cs, ch, status) \in Seq(Entries)
         /\ FirstEntryTells(SetStatus(cs, ch, status), [said EXCEPT ![ch] = status])
<1> DEFINE entry == [channel |-> ch, status |-> status]
           after == SetStatus(cs, ch, status)
           now == [said EXCEPT ![ch] = status]
<1>1. entry \in Entries /\ entry.channel = ch /\ entry.status = status
  BY DEF Entries
<1>2. now[ch] = status /\ \A c \in Channels \ {ch} : now[c] = said[c]
  OBVIOUS
<1>3. \A j \in DOMAIN cs : cs[j].channel \in Channels
  <2> TAKE j \in DOMAIN cs
  <2>1. cs[j] \in Entries
    OBVIOUS
  <2> QED
    BY <2>1 DEF Entries
<1>6. \/ (\A j \in DOMAIN cs : cs[j].channel # ch) /\ after = Append(cs, entry)
      \/ \E f \in DOMAIN cs : cs[f].channel = ch /\ First(cs, f) /\ after = [cs EXCEPT ![f] = entry]
  BY SetStatusIs
<1> HIDE DEF entry, now, after
<1>4. CASE (\A j \in DOMAIN cs : cs[j].channel # ch) /\ after = Append(cs, entry)
  <2> DEFINE n == Len(cs) + 1
  <2>1. /\ after \in Seq(Entries) /\ DOMAIN after = 1 .. n /\ after[n] = entry
        /\ \A j \in DOMAIN cs : after[j] = cs[j]
        /\ DOMAIN cs = 1 .. n - 1 /\ n \in Nat \ {0}
    BY <1>1, <1>4
  <2> HIDE DEF n
  <2>2. ASSUME NEW i \in DOMAIN after
        PROVE  after[i].status = IF First(after, i) THEN now[after[i].channel] ELSE "Unknown"
    <3>1. CASE i = n
      <4>1. First(after, i)
        BY <1>1, <1>4, <2>1, <3>1 DEF First
      <4> QED
        BY <1>1, <1>2, <2>1, <3>1, <4>1
    <3>2. CASE i \in DOMAIN cs
      <4>1. First(after, i) <=> First(cs, i)
        BY <2>1, <3>2 DEF First
      <4>2. now[cs[i].channel] = said[cs[i].channel]
        BY <1>2, <1>3, <1>4, <3>2
      <4> QED
        BY <2>1, <3>2, <4>1, <4>2 DEF FirstEntryTells
    <3> QED
      BY <2>1, <2>2, <3>1, <3>2
  <2>3. ASSUME NEW c \in Channels, now[c] # "Unknown"
        PROVE  \E i \in DOMAIN after : after[i].channel = c
    <3>1. CASE c = ch
      BY <1>1, <2>1, <3>1
    <3>2. CASE c # ch
      <4>1. PICK i \in DOMAIN cs : cs[i].channel = c
        BY <1>2, <2>3, <3>2 DEF FirstEntryTells
      <4> QED
        BY <2>1, <4>1
    <3> QED
      BY <3>1, <3>2
  <2> QED
    BY <2>1, <2>2, <2>3 DEF FirstEntryTells, after, now
<1>5. ASSUME NEW f \in DOMAIN cs, cs[f].channel = ch, First(cs, f),
             after = [cs EXCEPT ![f] = entry]
      PROVE  after \in Seq(Entries) /\ FirstEntryTells(after, now)
  <2>1. /\ after \in Seq(Entries) /\ DOMAIN after = DOMAIN cs /\ after[f] = entry
        /\ \A j \in DOMAIN cs \ {f} : after[j] = cs[j]
    BY <1>1, <1>5
  <2>2. DOMAIN cs \subseteq Int
    OBVIOUS
  <2>3. \A j \in DOMAIN cs : after[j].channel = cs[j].channel
    BY <1>1, <1>5, <2>1
  <2>4. ASSUME NEW i \in DOMAIN cs PROVE First(after, i) <=> First(cs, i)
    BY <2>1, <2>3 DEF First
  <2>5. ASSUME NEW i \in DOMAIN cs
        PROVE  after[i].status = IF First(after, i) THEN now[after[i].channel] ELSE "Unknown"
    <3>1. CASE i = f
      BY <1>1, <1>2, <1>5, <2>1, <2>4, <3>1
    <3>2. CASE i # f /\ First(cs, i)
      <4>1. cs[i].channel # ch
        <5>1. ~(i < f) => f < i
          BY <2>2, <3>2
        <5> QED
          BY <1>5, <3>2, <5>1 DEF First
      <4>2. now[cs[i].channel] = said[cs[i].channel]
        BY <1>2, <1>3, <4>1
      <4> QED
        BY <2>1, <2>4, <3>2, <4>2 DEF FirstEntryTells
    <3>3. CASE i # f /\ ~First(cs, i)
      BY <2>1, <2>4, <3>3 DEF FirstEntryTells
    <3> QED
      BY <3>1, <3>2, <3>3
  <2>6. ASSUME NEW c \in Channels, now[c] # "Unknown"
        PROVE  \E i \in DOMAIN after : after[i].channel = c
    <3>1. CASE c = ch
      BY <1>5, <2>1, <2>3, <3>1
    <3>2. CASE c # ch
      BY <1>2, <2>1, <2>3, <2>6, <3>2 DEF FirstEntryTells
    <3> QED
      BY <3>1, <3>2
  <2> QED
    BY <2>1, <2>5, <2>6 DEF FirstEntryTells
<1> QED
  BY <1>4, <1>5, <1>6 DEF after, now

(* Reports put in one after the other keep the first entries up to date,   *)
(* and of each channel the last report stands.                             *)
LEMMA ReportedTells ==
  ASSUME NEW cs \in Seq(Entries), NEW said \in [Channels -> Statuses],
         FirstEntryTells(cs, said), NEW reports \in Seq(Entries)
  PROVE  LET s == Reported(cs, said, reports)
         IN  /\ s.channels \in Seq(Entries) /\ s.last \in [Channels -> Statuses]
             /\ FirstEntryTells(s.channels, s.last)
             /\ LastReportTells(reports, Len(reports), s.last)
<1> DEFINE N == Len(reports)
           T == {s \in [channels : Seq(Entries), last : [Channels -> Statuses]] :
                   FirstEntryTells(s.channels, s.last)}
           Turn(s, k) == [channels |-> SetStatus(s.channels, reports[k].channel, reports[k].status),
                          last |-> [s.last EXCEPT ![reports[k].channel] = reports[k].status]]
           step == [x \in T \X (1 .. N) |-> Turn(x[1], x[2])]
           c == [channels |-> cs, last |-> said]
           Is(f) == f = [k \in 0 .. N |-> IF k = 0 THEN c ELSE Turn(f[k - 1], k)]
<1>1. N \in Nat /\ \A k \in 1 .. N : reports[k].channel \in Channels /\ reports[k].status \in Statuses
  <2>1. \A k \in 1 .. N : reports[k] \in Entries
    OBVIOUS
  <2> QED
    BY <2>1 DEF Entries
<1>2. c \in T
  OBVIOUS
<1>3. step \in [T \X (1 .. N) -> T]
  <2> SUFFICES ASSUME NEW s \in T, NEW k \in 1 .. N PROVE Turn(s, k) \in T
    OBVIOUS
  <2>1. /\ SetStatus(s.channels, reports[k].channel, reports[k].status) \in Seq(Entries)
        /\ FirstEntryTells(SetStatus(s.channels, reports[k].channel, reports[k].status),
                           [s.last EXCEPT ![reports[k].channel] = reports[k].status])
    BY <1>1, SetStatusTells
  <2>2. [s.last EXCEPT ![reports[k].channel] = reports[k].status] \in [Channels -> Statuses]
    BY <1>1
  <2> QED
    BY <2>1, <2>2
<1>4. PICK g \in [0 .. N -> T] : Runs(g, N, c, step)
  <2> HIDE DEF step, T, c, N
  <2> QED
    BY <1>1, <1>2, <1>3, LoopRuns
<1>5. /\ g = [k \in 0 .. N |-> g[k]] /\ g[0] = c
      /\ \A k \in 1 .. N : g[k] = Turn(g[k - 1], k)
  <2>1. /\ g = [k \in 0 .. N |-> g[k]] /\ g[0] = c
        /\ \A k \in 1 .. N : g[k] = step[<<g[k - 1], k>>]
    <3> HIDE DEF step, T, c, N
    <3> QED
      BY <1>4 DEF Runs
  <2>2. ASSUME NEW k \in 1 .. N PROVE step[<<g[k - 1], k>>] = Turn(g[k - 1], k)
    <3>1. g[k - 1] \in T
      <4> HIDE DEF T, step, c
      <4> QED
        BY <1>1, <1>4
    <3> HIDE DEF T, Turn, c
    <3> QED
      BY <3>1
  <2> HIDE DEF step, Turn, T, c
  <2> QED
    BY <2>1, <2>2
<1>6. Is(g)
  <2>1. ASSUME NEW k \in 0 .. N PROVE g[k] = IF k = 0 THEN c ELSE Turn(g[k - 1], k)
    <3> HIDE DEF Turn, T, c, step
    <3>1. k = 0 \/ k \in 1 .. N
      BY <1>1
    <3> QED
      BY <1>5, <3>1
  <2> HIDE DEF Turn, T, c, step
  <2> QED
    BY <1>5, <2>1
<1> DEFINE f == CHOOSE h : Is(h)
<1>7. Is(f)
  <2> HIDE DEF Is
  <2> QED
    BY <1>6
<1>8. Reported(cs, said, reports) = f[N]
  BY DEF Reported
<1> HIDE DEF f
<1>9. /\ f[0] = c
      /\ \A k \in 1 .. N : f[k] = Turn(f[k - 1], k)
  <2> HIDE DEF Turn, T, c, step
  <2> QED
    BY <1>1, <1>7
<1>10. \A n \in 0 .. N : f[n] \in T /\ LastReportTells(reports, n, f[n].last)
  <2> DEFINE S == {n \in Nat : n <= N => f[n] \in T /\ LastReportTells(reports, n, f[n].last)}
  <2>1. 0 \in S
    BY <1>2, <1>9 DEF LastReportTells
  <2>2. ASSUME NEW n \in Nat, n \in S PROVE n + 1 \in S
    <3> SUFFICES ASSUME n + 1 \in 1 .. N
                 PROVE  f[n + 1] \in T /\ LastReportTells(reports, n + 1, f[n + 1].last)
      OBVIOUS
    <3>1. f[n] \in T /\ LastReportTells(reports, n, f[n].last)
      BY <1>1, <2>2
    <3>2. f[n + 1] = Turn(f[n], n + 1)
      <4> HIDE DEF Turn, T, c, step
      <4> QED
        BY <1>9
    <3>3. f[n + 1] \in T
      <4>1. step[<<f[n], n + 1>>] \in T
        <5> HIDE DEF step, T
        <5> QED
          BY <1>3, <3>1
      <4>2. step[<<f[n], n + 1>>] = Turn(f[n], n + 1)
        <5> HIDE DEF T, Turn
        <5> QED
          BY <3>1
      <4> HIDE DEF step, T, Turn
      <4> QED
        BY <3>2, <4>1, <4>2
    <3> DEFINE a == f[n].last
               b == f[n + 1].last
               ch == reports[n + 1].channel
    <3>4. /\ a \in [Channels -> Statuses] /\ ch \in Channels
          /\ b = [a EXCEPT ![ch] = reports[n + 1].status]
      BY <1>1, <3>1, <3>2
    <3>5. b[ch] = reports[n + 1].status /\ \A x \in Channels \ {ch} : b[x] = a[x]
      <4> HIDE DEF a, b, ch
      <4> QED
        BY <3>4
    <3>6. LastReportTells(reports, n + 1, b)
      <4> HIDE DEF a, b
      <4> SUFFICES ASSUME NEW i \in 1 .. n + 1,
                          \A j \in i + 1 .. n + 1 : reports[j].channel # reports[i].channel
                   PROVE  b[reports[i].channel] = reports[i].status
        BY DEF LastReportTells
      <4>1. CASE i = n + 1
        BY <3>5, <4>1
      <4>2. CASE i \in 1 .. n
        <5>1. n + 1 \in i + 1 .. n + 1 /\ \A j \in i + 1 .. n : j \in i + 1 .. n + 1
          BY <4>2
        <5>2. reports[i].channel # ch /\ reports[i].channel \in Channels
          BY <1>1, <4>2, <5>1
        <5>3. a[reports[i].channel] = reports[i].status
          BY <3>1, <4>2, <5>1 DEF LastReportTells, a
        <5> QED
          BY <3>5, <5>2, <5>3
      <4> QED
        BY <4>1, <4>2
    <3> QED
      BY <3>3, <3>6
  <2>3. Nat \subseteq S
    <3> HIDE DEF S
    <3> QED
      BY <2>1, <2>2, SetInduction
  <2> QED
    BY <1>1, <2>3
<1>11. f[N] \in T /\ LastReportTells(reports, N, f[N].last)
  <2> HIDE DEF T
  <2> QED
    BY <1>1, <1>10
<1> QED
  BY <1>8, <1>11

-----------------------------------------------------------------------------
(***************************************************************************)
(* Counting.  A set of entries is counted by the channels they are of.     *)
(***************************************************************************)

(* An aggregator has as many votes of a kind as it has channels of which   *)
(* that was said last: the first entry of each is the one that votes.      *)
LEMMA VotesAreChannels ==
  ASSUME HealthTypeOK, FirstEntryTells(channels, last), NEW status \in {"Healthy", "Failing"}
  PROVE  /\ IsFiniteSet({ch \in Channels : last[ch] = status})
         /\ Votes(channels, status) = Cardinality({ch \in Channels : last[ch] = status})
<1> DEFINE V == {i \in DOMAIN channels : channels[i].status = status}
           C == {ch \in Channels : last[ch] = status}
           f == [i \in V |-> channels[i].channel]
<1>1. /\ DOMAIN channels = 1 .. Len(channels) /\ Len(channels) \in Nat
      /\ \A i \in DOMAIN channels : channels[i].channel \in Channels
  <2>1. channels \in Seq(Entries)
    BY DEF HealthTypeOK, Entries
  <2>2. \A i \in DOMAIN channels : channels[i] \in Entries
    BY <2>1
  <2> QED
    BY <2>1, <2>2 DEF Entries
<1>2. IsFiniteSet(V)
  <2>1. V \in SUBSET (1 .. Len(channels)) /\ 1 \in Int /\ Len(channels) \in Int
    BY <1>1
  <2> HIDE DEF V
  <2> QED
    BY <2>1, FS_Interval, FS_Subset
<1>3. \A i \in V : First(channels, i) /\ last[channels[i].channel] = status
  BY DEF FirstEntryTells
<1>4. f \in [V -> C]
  BY <1>1, <1>3
<1>5. \A i, j \in V : f[i] = f[j] => i = j
  <2> SUFFICES ASSUME NEW i \in V, NEW j \in V, channels[i].channel = channels[j].channel
               PROVE  i = j
    OBVIOUS
  <2>1. ~(i < j) /\ ~(j < i)
    BY <1>3 DEF First
  <2> QED
    BY <1>1, <2>1
<1>6. \A ch \in C : \E i \in V : f[i] = ch
  <2> TAKE ch \in C
  <2>1. PICK i \in DOMAIN channels : channels[i].channel = ch
    BY DEF FirstEntryTells
  <2>2. channels \in Seq(Entries)
    BY DEF HealthTypeOK, Entries
  <2>3. PICK k \in DOMAIN channels : channels[k].channel = ch /\ First(channels, k)
    BY <2>1, <2>2, FirstExists
  <2>4. k \in V
    BY <2>3 DEF FirstEntryTells
  <2> QED
    BY <2>3, <2>4
<1>7. f \in Bijection(V, C)
  <2> HIDE DEF f, V, C
  <2> QED
    BY <1>4, <1>5, <1>6, Fun_IsInj, Fun_IsSurj, Fun_IsBij
<1> QED
  <2> HIDE DEF f, V, C
  <2>1. ExistsBijection(V, C)
    BY <1>7, Fun_ExistsBij
  <2>2. IsFiniteSet(C) /\ Cardinality(C) = Cardinality(V)
    BY <1>2, <2>1, FS_Bijection
  <2> QED
    BY <2>2 DEF Votes, V, C

(* The last report of a channel among those of it.                         *)
LEMMA LastReport ==
  ASSUME NEW reports \in Seq(Entries), NEW i \in DOMAIN reports
  PROVE  \E k \in DOMAIN reports :
           /\ reports[k].channel = reports[i].channel
           /\ \A j \in k + 1 .. Len(reports) : reports[j].channel # reports[k].channel
<1> DEFINE T == {n \in Nat : /\ Len(reports) - n \in DOMAIN reports
                             /\ reports[Len(reports) - n].channel = reports[i].channel}
<1>1. Len(reports) \in Nat /\ DOMAIN reports = 1 .. Len(reports)
  OBVIOUS
<1>2. T \subseteq Nat /\ T # {}
  <2>1. Len(reports) - i \in T
    BY <1>1
  <2> QED
    BY <2>1
<1>3. PICK n \in T : \A m \in T : <<m, n>> \notin OpToRel(<, Nat)
  <2> HIDE DEF T
  <2> QED
    BY <1>2, WFMin, NatLessThanWellFounded, Zenon
<1>4. \A m \in T : ~(m < n)
  <2> HIDE DEF T
  <2> QED
    BY <1>2, <1>3, Zenon DEF OpToRel
<1> DEFINE k == Len(reports) - n
<1>5. k \in DOMAIN reports /\ reports[k].channel = reports[i].channel
  OBVIOUS
<1>6. ASSUME NEW j \in k + 1 .. Len(reports), reports[j].channel = reports[k].channel
      PROVE  FALSE
  <2>1. Len(reports) - (Len(reports) - j) = j /\ Len(reports) - j \in Nat /\ j \in DOMAIN reports
    BY <1>1, <1>5
  <2>2. Len(reports) - j \in T
    BY <1>5, <1>6, <2>1
  <2>3. Len(reports) - j < n
    BY <1>1, <1>5
  <2> QED
    BY <1>4, <2>2, <2>3
<1> HIDE DEF k
<1> QED
  BY <1>5, <1>6

(* After a round of probes, a channel on the list that failed was said to  *)
(* fail by the last probe of it: there are at least as many failing probes *)
(* as failing channels, and as many where no channel is listed twice.      *)
LEMMA RoundCounts ==
  ASSUME HealthTypeOK, NEW outcomes \in [DOMAIN probed -> Outcomes],
         LastReportTells(PerChannel(probed, outcomes), Len(probed), last),
         {ch \in Channels : last[ch] = "Failing"} \subseteq {probed[i] : i \in DOMAIN probed}
  PROVE  LET failing == Votes(PerChannel(probed, outcomes), "Failing")
             listed == {probed[i] : i \in DOMAIN probed}
             said == Cardinality({ch \in Channels : last[ch] = "Failing"})
         IN  /\ failing \in Nat /\ said \in Nat /\ said <= failing
             /\ Cardinality(listed) = Len(probed) => failing = said
<1> DEFINE results == PerChannel(probed, outcomes)
           V == {i \in DOMAIN results : results[i].status = "Failing"}
           listed == {probed[i] : i \in DOMAIN probed}
           C == {ch \in Channels : last[ch] = "Failing"}
           N == Len(probed)
<1>1. /\ N \in Nat /\ DOMAIN probed = 1 .. N
      /\ \A i \in 1 .. N : probed[i] \in Channels
  BY DEF HealthTypeOK
<1>2. /\ results \in Seq(Entries) /\ DOMAIN results = 1 .. N /\ Len(results) = N
      /\ \A i \in 1 .. N : results[i].channel = probed[i]
  <2>1. \A i \in 1 .. N : [channel |-> probed[i], status |-> Status(outcomes[i])] \in Entries
    BY <1>1 DEF Status, Outcomes, Statuses, Entries
  <2>2. results = [i \in 1 .. N |-> [channel |-> probed[i], status |-> Status(outcomes[i])]]
    BY <1>1 DEF PerChannel
  <2>3. results \in [1 .. N -> Entries]
    BY <2>1, <2>2
  <2>4. results \in Seq(Entries) /\ DOMAIN results = 1 .. N /\ Len(results) = N
    <3> HIDE DEF results, N
    <3> QED
      BY <1>1, <2>3
  <2> QED
    BY <2>2, <2>4
<1> HIDE DEF results
<1>3. IsFiniteSet(V)
  <2>1. V \in SUBSET (1 .. N) /\ 1 \in Int /\ N \in Int
    BY <1>1, <1>2
  <2> HIDE DEF V, N
  <2> QED
    BY <2>1, FS_Interval, FS_Subset
<1>4. \A ch \in C : \E k \in V :
        /\ results[k].channel = ch
        /\ \A j \in k + 1 .. N : results[j].channel # ch
  <2> TAKE ch \in C
  <2>1. PICK i \in 1 .. N : probed[i] = ch
    BY <1>1
  <2>2. PICK k \in 1 .. N : /\ results[k].channel = ch
                            /\ \A j \in k + 1 .. N : results[j].channel # ch
    <3>1. i \in DOMAIN results /\ results[i].channel = ch
      BY <1>2, <2>1
    <3>2. \E k \in DOMAIN results :
            /\ results[k].channel = results[i].channel
            /\ \A j \in k + 1 .. Len(results) : results[j].channel # results[k].channel
      BY <1>2, <3>1, LastReport
    <3> HIDE DEF N
    <3> QED
      BY <1>2, <3>1, <3>2
  <2>3. last[results[k].channel] = results[k].status
    BY <1>1, <2>2 DEF LastReportTells, results
  <2> QED
    BY <1>2, <2>2, <2>3
<1> DEFINE tells(k, ch) == /\ results[k].channel = ch
                           /\ \A j \in k + 1 .. N : results[j].channel # ch
           f == [ch \in C |-> CHOOSE k \in V : tells(k, ch)]
<1>5. \A ch \in C : f[ch] \in V /\ results[f[ch]].channel = ch
  <2>1. \A ch \in C : f[ch] \in V /\ tells(f[ch], ch)
    <3> HIDE DEF C, V, tells
    <3> QED
      <4>1. \A ch \in C : \E k \in V : tells(k, ch)
        BY <1>4 DEF tells
      <4> QED
        BY <4>1
  <2> QED
    BY <2>1
<1>6. f \in [C -> V]
  <2>1. DOMAIN f = C /\ f = [ch \in C |-> f[ch]]
    OBVIOUS
  <2> HIDE DEF f, V, C
  <2> QED
    BY <1>5, <2>1
<1> HIDE DEF f, V, C, tells
<1>7. f \in Injection(C, V)
  BY <1>5, <1>6, Fun_IsInj
<1>8. IsFiniteSet(C) /\ Cardinality(C) <= Cardinality(V)
  BY <1>3, <1>7, FS_Injection
<1>9. Cardinality(V) \in Nat /\ Cardinality(C) \in Nat
  BY <1>3, <1>8, FS_CardinalityType
<1>10. ASSUME Cardinality(listed) = N PROVE Cardinality(V) = Cardinality(C)
  <2>1. \A i, j \in 1 .. N : probed[i] = probed[j] => i = j
    <3> DEFINE g == [i \in 1 .. N |-> probed[i]]
    <3>1. g \in [1 .. N -> listed] /\ \A x \in listed : \E i \in 1 .. N : g[i] = x
      BY <1>1
    <3>2. \A i \in 1 .. N : g[i] = probed[i]
      OBVIOUS
    <3> HIDE DEF g, listed, N
    <3>3. g \in Surjection(1 .. N, listed)
      BY <3>1, Fun_IsSurj
    <3>4. IsFiniteSet(1 .. N) /\ Cardinality(1 .. N) = N
      BY <1>1, FS_Interval
    <3>5. g \in Injection(1 .. N, listed)
      BY <1>10, <3>3, <3>4, FS_SurjSameCardinalityImpliesInj
    <3>6. \A i, j \in 1 .. N : g[i] = g[j] => i = j
      BY <3>1, <3>5 DEF Injection, IsInjective
    <3> QED
      BY <3>2, <3>6
  <2>2. \A k \in V : \E ch \in C : f[ch] = k
    <3> TAKE k \in V
    <3>1. k \in 1 .. N /\ results[k].status = "Failing"
      BY <1>2 DEF V
    <3>2. \A j \in k + 1 .. N : results[j].channel # results[k].channel
      <4> SUFFICES ASSUME NEW j \in k + 1 .. N PROVE results[j].channel # results[k].channel
        OBVIOUS
      <4>1. j \in 1 .. N /\ j # k
        BY <1>1, <3>1
      <4> QED
        BY <1>2, <2>1, <3>1, <4>1
    <3>3. last[results[k].channel] = "Failing"
      BY <1>1, <3>1, <3>2 DEF LastReportTells, results
    <3>4. probed[k] \in C
      BY <1>1, <1>2, <3>1, <3>3 DEF C
    <3>5. f[probed[k]] \in 1 .. N /\ probed[f[probed[k]]] = probed[k]
      <4>1. f[probed[k]] \in V /\ results[f[probed[k]]].channel = probed[k]
        BY <1>5, <3>4
      <4>2. f[probed[k]] \in 1 .. N
        BY <1>2, <4>1 DEF V
      <4> QED
        BY <1>2, <4>1, <4>2
    <3> QED
      BY <2>1, <3>1, <3>4, <3>5
  <2>3. f \in Surjection(C, V)
    BY <1>6, <2>2, Fun_IsSurj
  <2> QED
    BY <1>3, <1>7, <2>3, FS_Injection
<1> QED
  BY <1>8, <1>9, <1>10 DEF Votes, V, C, results

(* The two parts of QuorumsAgree, counted.                                 *)
LEMMA HealthInvAgrees ==
  ASSUME HealthInv
  PROVE  QuorumsAgree
<1> DEFINE listed == {probed[i] : i \in DOMAIN probed}
           C == {ch \in Channels : last[ch] = "Failing"}
<1>1. HealthTypeOK /\ FirstEntryTells(channels, last) /\ VerdictOfARound
  BY DEF HealthInv
<1>2. \A status \in {"Healthy", "Failing"} :
        Votes(channels, status) = Cardinality({ch \in Channels : last[ch] = status})
  BY <1>1, VotesAreChannels
<1>3. ASSUME verdict # "Unknown",
             {channels[i].channel : i \in DOMAIN channels} = listed
      PROVE  /\ IsQuorumFailing(channels, Threshold) => verdict = "Failing"
             /\ Cardinality(listed) = Len(probed) =>
                  (IsQuorumFailing(channels, Threshold) <=> verdict = "Failing")
  <2>1. C \subseteq listed
    BY <1>1, <1>3 DEF FirstEntryTells
  <2>2. PICK outcomes \in [DOMAIN probed -> Outcomes] :
          LET results == PerChannel(probed, outcomes)
          IN  /\ verdict = IF Votes(results, "Failing") >= Threshold THEN "Failing" ELSE "Healthy"
              /\ LastReportTells(results, Len(results), last)
    BY <1>1, <1>3 DEF VerdictOfARound
  <2> DEFINE results == PerChannel(probed, outcomes)
             failing == Votes(results, "Failing")
             said == Cardinality(C)
  <2>3. Len(results) = Len(probed)
    BY <1>1 DEF HealthTypeOK, PerChannel
  <2>4. LastReportTells(results, Len(probed), last)
    BY <2>2, <2>3
  <2>5. /\ failing \in Nat /\ said \in Nat /\ said <= failing
        /\ Cardinality(listed) = Len(probed) => failing = said
    BY <1>1, <2>1, <2>4, RoundCounts
  <2>6. IsQuorumFailing(channels, Threshold) <=> said >= Threshold
    BY <1>2 DEF IsQuorumFailing
  <2>7. verdict = IF failing >= Threshold THEN "Failing" ELSE "Healthy"
    BY <2>2
  <2> HIDE DEF results, failing, said, listed
  <2> QED
    BY <2>5, <2>6, <2>7, HealthAssumption
<1> QED
  BY <1>2, <1>3 DEF QuorumsAgree

-----------------------------------------------------------------------------
(* A checker and an aggregator start with nothing said of any channel.     *)
LEMMA HealthStarts ==
  ASSUME HealthInit
  PROVE  HealthInv
<1>1. PICK list \in Seq(Channels) : Watches(list)
  BY DEF HealthInit
<1>2. probed = list /\ verdict = "Unknown" /\ last = [ch \in Channels |-> "Unknown"]
  BY <1>1 DEF Watches
<1>3. channels = [i \in 1 .. Len(list) |-> [channel |-> list[i], status |-> "Unknown"]]
  BY <1>1 DEF Watches
<1>4. channels \in Seq([channel : Channels, status : Statuses])
  <2>1. \A i \in 1 .. Len(list) :
          [channel |-> list[i], status |-> "Unknown"] \in [channel : Channels, status : Statuses]
    BY DEF Statuses
  <2>2. channels \in [1 .. Len(list) -> [channel : Channels, status : Statuses]]
    BY <1>3, <2>1
  <2>3. Len(list) \in Nat
    OBVIOUS
  <2> DEFINE S == [channel : Channels, status : Statuses]
  <2>4. channels \in [1 .. Len(list) -> S]
    BY <2>2
  <2> HIDE DEF S
  <2>5. channels \in Seq(S)
    BY <2>3, <2>4
  <2> QED
    BY <2>5 DEF S
<1>5. HealthTypeOK
  BY <1>2, <1>4 DEF HealthTypeOK, Statuses
<1>6. FirstEntryTells(channels, last)
  BY <1>2, <1>3 DEF FirstEntryTells
<1> QED
  BY <1>2, <1>5, <1>6 DEF HealthInv, VerdictOfARound

(* A status set from outside forgets the verdict.                          *)
LEMMA SetChannelKeeps ==
  ASSUME HealthInv, NEW ch \in Channels, NEW status \in Statuses, SetChannel(ch, status)
  PROVE  HealthInv'
<1>1. /\ channels \in Seq(Entries) /\ last \in [Channels -> Statuses]
      /\ FirstEntryTells(channels, last) /\ probed \in Seq(Channels)
  BY DEF HealthInv, HealthTypeOK, Entries
<1>2. /\ channels' = SetStatus(channels, ch, status)
      /\ last' = [last EXCEPT ![ch] = status]
      /\ verdict' = "Unknown" /\ probed' = probed
  BY DEF SetChannel
<1>3. channels' \in Seq(Entries) /\ FirstEntryTells(channels', last')
  BY <1>1, <1>2, SetStatusTells
<1>4. last' \in [Channels -> Statuses]
  BY <1>1, <1>2
<1>5. HealthTypeOK'
  BY <1>1, <1>2, <1>3, <1>4 DEF HealthTypeOK, Entries, Statuses
<1> QED
  BY <1>2, <1>3, <1>5 DEF HealthInv, VerdictOfARound

(* A round of probes reports what its verdict was reached on.              *)
LEMMA CheckKeeps ==
  ASSUME HealthInv, NEW outcomes \in [DOMAIN probed -> Outcomes], Check(outcomes)
  PROVE  HealthInv'
<1> DEFINE results == PerChannel(probed, outcomes)
           after == Reported(channels, last, results)
<1>1. /\ channels \in Seq(Entries) /\ last \in [Channels -> Statuses]
      /\ FirstEntryTells(channels, last) /\ probed \in Seq(Channels)
  BY DEF HealthInv, HealthTypeOK, Entries
<1>2. /\ verdict' = IF Votes(results, "Failing") >= Threshold THEN "Failing" ELSE "Healthy"
      /\ channels' = after.channels /\ last' = after.last /\ probed' = probed
  BY DEF Check
<1>3. results \in Seq(Entries)
  <2>1. \A i \in DOMAIN probed :
          [channel |-> probed[i], status |-> Status(outcomes[i])] \in Entries
    BY <1>1 DEF Status, Outcomes, Statuses, Entries
  <2>2. results \in [1 .. Len(probed) -> Entries]
    BY <1>1, <2>1 DEF PerChannel
  <2>3. Len(probed) \in Nat
    BY <1>1
  <2> HIDE DEF results, after
  <2> QED
    BY <2>2, <2>3
<1>4. /\ after.channels \in Seq(Entries) /\ after.last \in [Channels -> Statuses]
      /\ FirstEntryTells(after.channels, after.last)
      /\ LastReportTells(results, Len(results), after.last)
  <2> HIDE DEF results
  <2> QED
    BY <1>1, <1>3, ReportedTells
<1> HIDE DEF results, after
<1>5. HealthTypeOK'
  BY <1>1, <1>2, <1>4 DEF HealthTypeOK, Entries, Statuses
<1>6. FirstEntryTells(channels, last)'
  BY <1>2, <1>4
<1>7. VerdictOfARound'
  <2>1. outcomes \in [DOMAIN probed' -> Outcomes]
    BY <1>2
  <2>2. /\ verdict' = IF Votes(results, "Failing") >= Threshold THEN "Failing" ELSE "Healthy"
        /\ LastReportTells(results, Len(results), last')
    BY <1>2, <1>4
  <2>3. results = PerChannel(probed', outcomes)
    BY <1>2 DEF results
  <2> QED
    BY <2>1, <2>2, <2>3 DEF VerdictOfARound
<1> QED
  BY <1>5, <1>6, <1>7 DEF HealthInv

(* The invariant holds in every state.                                     *)
LEMMA HealthInvHolds == HealthSpec => []HealthInv
<1>1. HealthInit => HealthInv
  BY HealthStarts
<1>2. HealthInv /\ [HealthNext]_health => HealthInv'
  <2> SUFFICES ASSUME HealthInv, [HealthNext]_health PROVE HealthInv'
    OBVIOUS
  <2>1. CASE \E ch \in Channels, status \in Statuses : SetChannel(ch, status)
    BY <2>1, SetChannelKeeps
  <2>2. CASE \E outcomes \in [DOMAIN probed -> Outcomes] : Check(outcomes)
    BY <2>2, CheckKeeps
  <2>3. CASE UNCHANGED health
    BY <2>3 DEF health, HealthInv, HealthTypeOK, VerdictOfARound
  <2> QED
    BY <2>1, <2>2, <2>3 DEF HealthNext
<1> QED
  BY <1>1, <1>2, PTL DEF HealthSpec

(***************************************************************************)
(* The quorums of MultiChannelHealth and ConsensusHealthChecker agree, for *)
(* any channels and threshold, and channel lists of any length with any    *)
(* repetitions in them.                                                    *)
(***************************************************************************)
THEOREM AgreeingQuorums == HealthSpec => []QuorumsAgree
<1>1. HealthInv => QuorumsAgree
  BY HealthInvAgrees
<1> QED
  BY <1>1, HealthInvHolds, PTL

-----------------------------------------------------------------------------
(***************************************************************************)
(* DoctorJournal.                                                          *)
(***************************************************************************)

(* The log is a sequence; of what, the chain of hashes lets nobody say.    *)
IsLog(log) == \E S : log \in Seq(S)

(* What append looks up is what is on the record.                          *)
SeenIsRecorded ==
  \A i \in 1 .. Len(entries) : entries[i].token.token_hash \in seen

ConsumedInv == IsLog(entries) /\ SeenIsRecorded /\ TokenConsumedOnce

ChainInv == IsLog(entries) /\ VerifyChain(entries)

-----------------------------------------------------------------------------
(* What Append does to a log.                                              *)
LEMMA LogAppend ==
  ASSUME NEW log, IsLog(log), NEW x
  PROVE  /\ IsLog(Append(log, x))
         /\ Len(log) \in Nat
         /\ Len(Append(log, x)) = Len(log) + 1
         /\ \A i \in 1 .. Len(log) : Append(log, x)[i] = log[i]
         /\ Append(log, x)[Len(log) + 1] = x
<1>1. PICK S : log \in Seq(S)  BY DEF IsLog
<1>2. log \in Seq(S \cup {x})  BY <1>1
<1>3. Append(log, x) \in Seq(S \cup {x})  BY <1>2
<1> QED  BY <1>2, <1>3 DEF IsLog

(* The first entries of a log.                                             *)
LEMMA LogPrefix ==
  ASSUME NEW log, IsLog(log), NEW n \in 0 .. Len(log)
  PROVE  /\ IsLog(SubSeq(log, 1, n))
         /\ Len(SubSeq(log, 1, n)) = n
         /\ \A i \in 1 .. n : SubSeq(log, 1, n)[i] = log[i]
<1>1. PICK S : log \in Seq(S)  BY DEF IsLog
<1>2. Len(log) \in Nat  BY <1>1
<1>3. SubSeq(log, 1, n) \in Seq(S)  BY <1>1, <1>2
<1> QED  BY <1>1, <1>2, <1>3 DEF IsLog

(* The hash before an entry depends on the entries before it.              *)
LEMMA PrevHashAgrees ==
  ASSUME NEW log, IsLog(log), NEW copy, IsLog(copy),
         NEW i \in Nat \ {0}, i - 1 <= Len(log), i - 1 <= Len(copy),
         \A k \in 1 .. i - 1 : copy[k] = log[k]
  PROVE  PrevHash(copy, i) = PrevHash(log, i)
<1> DEFINE a == SubSeq(log, 1, i - 1)
           b == SubSeq(copy, 1, i - 1)
<1>1. i - 1 \in 0 .. Len(log) /\ i - 1 \in 0 .. Len(copy)  OBVIOUS
<1>2. /\ IsLog(a) /\ Len(a) = i - 1
      /\ \A k \in 1 .. i - 1 : a[k] = log[k]
  BY <1>1, LogPrefix
<1>3. /\ IsLog(b) /\ Len(b) = i - 1
      /\ \A k \in 1 .. i - 1 : b[k] = copy[k]
  BY <1>1, LogPrefix
<1>4. CASE i = 1
  <2>1. a = <<>> /\ b = <<>>  BY <1>2, <1>3, <1>4 DEF IsLog
  <2> QED  BY <2>1 DEF PrevHash, TipHash
<1>5. CASE i # 1
  <2>1. i - 1 \in 1 .. i - 1  BY <1>5
  <2>2. a # <<>> /\ b # <<>>  BY <1>2, <1>3, <1>5
  <2>3. a[Len(a)] = b[Len(b)]  BY <1>2, <1>3, <2>1
  <2> QED  BY <2>2, <2>3 DEF PrevHash, TipHash
<1> QED  BY <1>4, <1>5

-----------------------------------------------------------------------------
(* Appending a token that was not seen keeps the record free of repeats.   *)
LEMMA ConsumeKeepsConsumed ==
  ASSUME ConsumedInv, NEW token, NEW signer, Consume(token, signer)
  PROVE  ConsumedInv'
<1> DEFINE x == Entry(entries, token, signer)
<1>1. entries' = Append(entries, x) /\ seen' = seen \cup {token.token_hash}
  BY DEF Consume
<1>2. token.token_hash \notin seen  BY DEF Consume, IsDuplicate
<1>3. x.token = token  BY DEF Entry
<1> HIDE DEF x
<1>4. /\ IsLog(entries') /\ Len(entries) \in Nat
      /\ Len(entries') = Len(entries) + 1
      /\ \A i \in 1 .. Len(entries) : entries'[i] = entries[i]
      /\ entries'[Len(entries) + 1] = x
  BY <1>1, LogAppend DEF ConsumedInv
<1>5. SeenIsRecorded'
  BY <1>1, <1>3, <1>4 DEF ConsumedInv, SeenIsRecorded
<1>6. TokenConsumedOnce'
  BY <1>2, <1>3, <1>4 DEF ConsumedInv, SeenIsRecorded, TokenConsumedOnce
<1> QED  BY <1>4, <1>5, <1>6 DEF ConsumedInv

(***************************************************************************)
(* No token is on the record twice: append looks tokens up in a set that   *)
(* holds the hash of every entry.                                          *)
(***************************************************************************)
THEOREM ConsumedOnce == JournalSpec => []TokenConsumedOnce
<1>1. JournalInit => ConsumedInv
  <2> SUFFICES ASSUME JournalInit PROVE ConsumedInv  OBVIOUS
  <2>1. entries \in Seq({}) /\ Len(entries) = 0  BY DEF JournalInit
  <2> QED  BY <2>1 DEF ConsumedInv, IsLog, SeenIsRecorded, TokenConsumedOnce
<1>2. ConsumedInv /\ [JournalNext]_journal => ConsumedInv'
  <2> SUFFICES ASSUME ConsumedInv, [JournalNext]_journal PROVE ConsumedInv'
    OBVIOUS
  <2>1. ASSUME NEW token \in Tokens, NEW signer \in Signers, Consume(token, signer)
        PROVE  ConsumedInv'
    BY <2>1, ConsumeKeepsConsumed
  <2>2. CASE UNCHANGED journal
    BY <2>2 DEF journal, ConsumedInv, IsLog, SeenIsRecorded, TokenConsumedOnce
  <2> QED  BY <2>1, <2>2 DEF JournalNext, ConsumeRefused
<1>3. ConsumedInv => TokenConsumedOnce  BY DEF ConsumedInv
<1> QED  BY <1>1, <1>2, <1>3, PTL DEF JournalSpec

-----------------------------------------------------------------------------
(* Entries in front of an appended one verify as before, and it does too.  *)
LEMMA ConsumeKeepsChain ==
  ASSUME ChainInv, NEW token, NEW signer, Consume(token, signer)
  PROVE  ChainInv'
<1> DEFINE x == Entry(entries, token, signer)
           n == Len(entries)
<1>1. entries' = Append(entries, x)  BY DEF Consume
<1>2. /\ IsLog(entries) /\ IsLog(entries') /\ n \in Nat
      /\ Len(entries') = n + 1
      /\ \A i \in 1 .. n : entries'[i] = entries[i]
      /\ entries'[n + 1] = x
  BY <1>1, LogAppend DEF ChainInv
<1>3. ASSUME NEW i \in 1 .. n + 1
      PROVE  PrevHash(entries', i) = PrevHash(entries, i)
  <2>1. i - 1 \in 0 .. n /\ n <= Len(entries')
    BY <1>2
  <2> QED
    BY <1>2, <2>1, PrevHashAgrees
<1>4. PrevHash(entries, n + 1) = TipHash(entries)
  <2>1. PICK S : entries \in Seq(S)  BY <1>2 DEF IsLog
  <2>2. SubSeq(entries, 1, n) = entries  BY <2>1
  <2>3. PrevHash(entries, n + 1) = TipHash(SubSeq(entries, 1, n))
    <3>1. (n + 1) - 1 = n  BY <1>2
    <3> QED  BY <3>1 DEF PrevHash
  <2> QED  BY <2>2, <2>3
<1>5. ASSUME NEW i \in 1 .. n PROVE EntryVerifies(entries', i)
  BY <1>2, <1>3, <1>5 DEF ChainInv, VerifyChain, EntryVerifies
<1>6. EntryVerifies(entries', n + 1)
  BY <1>2, <1>3, <1>4 DEF EntryVerifies, Entry
<1>7. VerifyChain(entries')
  BY <1>2, <1>5, <1>6 DEF VerifyChain
<1> QED  BY <1>2, <1>7 DEF ChainInv, VerifyChain, EntryVerifies

(* A log that verifies does so up to any entry.                            *)
LEMMA PrefixVerifies ==
  ASSUME NEW log, IsLog(log), VerifyChain(log), NEW n \in 0 .. Len(log)
  PROVE  VerifyChain(SubSeq(log, 1, n))
<1> DEFINE front == SubSeq(log, 1, n)
<1>1. /\ IsLog(front) /\ Len(front) = n
      /\ \A i \in 1 .. n : front[i] = log[i]
  BY LogPrefix
<1>2. Len(log) \in Nat
  <2>1. PICK S : log \in Seq(S)  BY DEF IsLog
  <2> QED  BY <2>1
<1> HIDE DEF front
<1>3. ASSUME NEW i \in 1 .. n PROVE EntryVerifies(front, i)
  <2>1. PrevHash(front, i) = PrevHash(log, i)
    BY <1>1, <1>2, <1>3, PrevHashAgrees
  <2> QED  BY <1>1, <1>2, <1>3, <2>1 DEF VerifyChain, EntryVerifies
<1>4. VerifyChain(front)  BY <1>1, <1>3 DEF VerifyChain
<1> QED  BY <1>4 DEF front

(***************************************************************************)
(* Whatever was appended and whoever signed, the log and every prefix of   *)
(* it that was published pass verify_chain.                                *)
(***************************************************************************)
THEOREM HonestChain == JournalSpec => []HonestLogVerifies
<1>1. JournalInit => ChainInv
  <2> SUFFICES ASSUME JournalInit PROVE ChainInv  OBVIOUS
  <2>1. entries \in Seq({}) /\ Len(entries) = 0  BY DEF JournalInit
  <2> QED  BY <2>1 DEF ChainInv, IsLog, VerifyChain
<1>2. ChainInv /\ [JournalNext]_journal => ChainInv'
  <2> SUFFICES ASSUME ChainInv, [JournalNext]_journal PROVE ChainInv'  OBVIOUS
  <2>1. ASSUME NEW token \in Tokens, NEW signer \in Signers, Consume(token, signer)
        PROVE  ChainInv'
    BY <2>1, ConsumeKeepsChain
  <2>2. CASE UNCHANGED journal
    <3>1. entries' = entries  BY <2>2 DEF journal
    <3> QED  BY <3>1 DEF ChainInv, IsLog, VerifyChain, EntryVerifies, PrevHash, TipHash
  <2> QED  BY <2>1, <2>2 DEF JournalNext, ConsumeRefused
<1>3. ChainInv => HonestLogVerifies
  BY PrefixVerifies DEF ChainInv, HonestLogVerifies
<1> QED  BY <1>1, <1>2, <1>3, PTL DEF JournalSpec

-----------------------------------------------------------------------------
(* A log of entries, and not of anything else.                             *)
IsEntry(x) ==
  x = [token |-> x.token, prev_hash |-> x.prev_hash, entry_hash |-> x.entry_hash,
       signature |-> x.signature, signer_pubkey |-> x.signer_pubkey]

IsJournal(log) == IsLog(log) /\ \A i \in 1 .. Len(log) : IsEntry(log[i])

(* One key signs for every entry.                                          *)
OneSigner(log, key) == \A i \in 1 .. Len(log) : log[i].signer_pubkey = key

(* A log has a length, and its entries are numbered from 1.                *)
LEMMA LogLength ==
  ASSUME NEW log, IsLog(log)
  PROVE  Len(log) \in Nat /\ DOMAIN log = 1 .. Len(log)
<1>1. PICK S : log \in Seq(S)  BY DEF IsLog
<1> QED  BY <1>1

(* Logs with the same entries are the same.                                *)
LEMMA SameLog ==
  ASSUME NEW a, IsLog(a), NEW b, IsLog(b), Len(a) = Len(b),
         \A i \in 1 .. Len(a) : a[i] = b[i]
  PROVE  a = b
<1>1. PICK S : a \in Seq(S)  BY DEF IsLog
<1>2. PICK T : b \in Seq(T)  BY DEF IsLog
<1>3. a = [i \in 1 .. Len(a) |-> a[i]]  BY <1>1
<1>4. b = [i \in 1 .. Len(b) |-> b[i]]  BY <1>2
<1>5. [i \in 1 .. Len(a) |-> a[i]] = [i \in 1 .. Len(b) |-> b[i]]  OBVIOUS
<1> QED  BY <1>3, <1>4, <1>5

(* The hash before an entry that is not the first.                         *)
LEMMA PrevHashIsEntryHash ==
  ASSUME NEW log, IsLog(log), NEW i \in Nat, i > 1, i <= Len(log)
  PROVE  PrevHash(log, i) = log[i - 1].entry_hash
<1> DEFINE front == SubSeq(log, 1, i - 1)
<1>1. Len(log) \in Nat  BY LogLength
<1>2. i - 1 \in 0 .. Len(log)  BY <1>1
<1>3. /\ IsLog(front) /\ Len(front) = i - 1
      /\ \A k \in 1 .. i - 1 : front[k] = log[k]
  BY <1>2, LogPrefix
<1>4. front # <<>> /\ i - 1 \in 1 .. i - 1  BY <1>1, <1>3
<1> HIDE DEF front
<1>5. TipHash(front) = log[i - 1].entry_hash  BY <1>3, <1>4 DEF TipHash
<1> QED  BY <1>5 DEF PrevHash, front

(***************************************************************************)
(* The tip pins the whole log: two journals of one length and one tip that *)
(* verify, signed by one key, are the same, since each hash fixes the      *)
(* token and the hash before it.                                           *)
(***************************************************************************)
LEMMA TipPinsJournal ==
  ASSUME NEW a, IsJournal(a), VerifyChain(a), NEW b, IsJournal(b), VerifyChain(b),
         Len(a) = Len(b), TipHash(a) = TipHash(b),
         NEW key, OneSigner(a, key), OneSigner(b, key)
  PROVE  a = b
<1> DEFINE n == Len(a)
           S == {m \in Nat : n - m \in 1 .. n => a[n - m].entry_hash = b[n - m].entry_hash}
<1>1. n \in Nat /\ IsLog(a) /\ IsLog(b)  BY LogLength DEF IsJournal
<1>2. ASSUME NEW i \in 1 .. n
      PROVE  /\ a[i].entry_hash = <<PrevHash(a, i), a[i].token>>
             /\ b[i].entry_hash = <<PrevHash(b, i), b[i].token>>
             /\ a[i].prev_hash = PrevHash(a, i) /\ b[i].prev_hash = PrevHash(b, i)
             /\ a[i].signature = <<key, a[i].entry_hash>>
             /\ b[i].signature = <<key, b[i].entry_hash>>
  BY DEF VerifyChain, EntryVerifies, EntryHash, Signed, OneSigner
<1> HIDE DEF n
<1>3. 0 \in S
  <2>1. n \in 1 .. n => a[n].entry_hash = b[n].entry_hash
    <3> SUFFICES ASSUME n \in 1 .. n PROVE a[n].entry_hash = b[n].entry_hash
      OBVIOUS
    <3>1. a # <<>> /\ b # <<>>  BY <1>1 DEF n
    <3> QED  BY <3>1 DEF TipHash, n
  <2>2. n - 0 = n  BY <1>1
  <2> QED  BY <2>1, <2>2
<1>4. ASSUME NEW m \in Nat, m \in S PROVE m + 1 \in S
  <2> SUFFICES ASSUME n - (m + 1) \in 1 .. n
               PROVE  a[n - (m + 1)].entry_hash = b[n - (m + 1)].entry_hash
    OBVIOUS
  <2> DEFINE i == n - m
  <2>1. i \in 1 .. n /\ i \in Nat /\ i > 1 /\ i - 1 = n - (m + 1)  BY <1>1
  <2>2. a[i].entry_hash = b[i].entry_hash  BY <1>4, <2>1
  <2> HIDE DEF i
  <2>3. PrevHash(a, i) = PrevHash(b, i)  BY <1>2, <2>1, <2>2
  <2>4. PrevHash(a, i) = a[i - 1].entry_hash /\ PrevHash(b, i) = b[i - 1].entry_hash
    <3>1. i <= Len(a) /\ i <= Len(b)  BY <1>1, <2>1 DEF n
    <3> QED  BY <1>1, <2>1, <3>1, PrevHashIsEntryHash
  <2> QED  BY <2>1, <2>3, <2>4
<1>5. Nat \subseteq S
  <2> HIDE DEF S
  <2> QED  BY <1>3, <1>4, SetInduction
<1>6. ASSUME NEW i \in 1 .. n PROVE a[i] = b[i]
  <2>1. n - i \in S /\ n - (n - i) = i
    <3> HIDE DEF S
    <3> QED  BY <1>1, <1>5
  <2>2. a[i].entry_hash = b[i].entry_hash  BY <2>1
  <2>3. a[i].token = b[i].token /\ PrevHash(a, i) = PrevHash(b, i)  BY <1>2, <2>2
  <2>4. a[i].prev_hash = b[i].prev_hash /\ a[i].signature = b[i].signature
    BY <1>2, <2>2, <2>3
  <2>5. a[i].signer_pubkey = b[i].signer_pubkey  BY DEF n, OneSigner
  <2>6. IsEntry(a[i]) /\ IsEntry(b[i])  BY DEF IsJournal, n
  <2> QED  BY <2>2, <2>3, <2>4, <2>5, <2>6 DEF IsEntry
<1> QED  BY <1>1, <1>6, SameLog DEF n

-----------------------------------------------------------------------------
(* An entry that append makes, and an entry with one field changed.        *)
LEMMA EntriesAreEntries ==
  /\ \A log, token, signer : IsEntry(Entry(log, token, signer))
  /\ \A x, t : IsEntry(x) => /\ IsEntry([x EXCEPT !.token = t])
                             /\ IsEntry([x EXCEPT !.prev_hash = t])
                             /\ IsEntry([x EXCEPT !.entry_hash = t])
                             /\ IsEntry([x EXCEPT !.signer_pubkey = t])
                             /\ IsEntry([x EXCEPT !.signature = t])
<1>1. ASSUME NEW tok, NEW prev, NEW hash, NEW sig, NEW key
      PROVE  IsEntry([token |-> tok, prev_hash |-> prev, entry_hash |-> hash,
                      signature |-> sig, signer_pubkey |-> key])
  BY DEF IsEntry
<1>2. ASSUME NEW log, NEW token, NEW signer PROVE IsEntry(Entry(log, token, signer))
  BY <1>1 DEF Entry
<1>3. ASSUME NEW x, NEW t, IsEntry(x)
      PROVE  /\ IsEntry([x EXCEPT !.token = t]) /\ IsEntry([x EXCEPT !.prev_hash = t])
             /\ IsEntry([x EXCEPT !.entry_hash = t])
             /\ IsEntry([x EXCEPT !.signer_pubkey = t])
             /\ IsEntry([x EXCEPT !.signature = t])
  <2>1. PICK tok, prev, hash, sig, key :
          x = [token |-> tok, prev_hash |-> prev, entry_hash |-> hash,
               signature |-> sig, signer_pubkey |-> key]
    BY <1>3 DEF IsEntry
  <2>2. [x EXCEPT !.token = t] =
          [token |-> t, prev_hash |-> prev, entry_hash |-> hash,
           signature |-> sig, signer_pubkey |-> key]
    BY <2>1
  <2>3. [x EXCEPT !.prev_hash = t] =
          [token |-> tok, prev_hash |-> t, entry_hash |-> hash,
           signature |-> sig, signer_pubkey |-> key]
    BY <2>1
  <2>4. [x EXCEPT !.entry_hash = t] =
          [token |-> tok, prev_hash |-> prev, entry_hash |-> t,
           signature |-> sig, signer_pubkey |-> key]
    BY <2>1
  <2>5. [x EXCEPT !.signer_pubkey = t] =
          [token |-> tok, prev_hash |-> prev, entry_hash |-> hash,
           signature |-> sig, signer_pubkey |-> t]
    BY <2>1
  <2>6. [x EXCEPT !.signature = t] =
          [token |-> tok, prev_hash |-> prev, entry_hash |-> hash,
           signature |-> t, signer_pubkey |-> key]
    BY <2>1
  <2> QED  BY <1>1, <2>2, <2>3, <2>4, <2>5, <2>6
<1> QED  BY <1>2, <1>3

(* A journal with one entry replaced by another.                           *)
LEMMA ReplacedEntry ==
  ASSUME NEW log, IsJournal(log), NEW i \in 1 .. Len(log), NEW x, IsEntry(x)
  PROVE  IsJournal([log EXCEPT ![i] = x])
<1> DEFINE copy == [log EXCEPT ![i] = x]
<1>1. PICK S : log \in Seq(S)  BY DEF IsJournal, IsLog
<1>2. log \in Seq(S \cup {x})  BY <1>1
<1>3. copy \in Seq(S \cup {x}) /\ Len(copy) = Len(log)  BY <1>2
<1>4. \A k \in 1 .. Len(log) : copy[k] = IF k = i THEN x ELSE log[k]  BY <1>2
<1> HIDE DEF copy
<1>5. \A k \in 1 .. Len(copy) : IsEntry(copy[k])  BY <1>3, <1>4 DEF IsJournal
<1>6. IsJournal(copy)  BY <1>3, <1>5 DEF IsJournal, IsLog
<1> QED  BY <1>6 DEF copy

(* An entry added to a journal leaves a journal.                           *)
LEMMA AppendedEntry ==
  ASSUME NEW log, IsJournal(log), NEW x, IsEntry(x)
  PROVE  IsJournal(Append(log, x))
<1> DEFINE copy == Append(log, x)
<1>1. /\ IsLog(copy) /\ Len(log) \in Nat /\ Len(copy) = Len(log) + 1
      /\ \A i \in 1 .. Len(log) : copy[i] = log[i]
      /\ copy[Len(log) + 1] = x
  BY LogAppend DEF IsJournal
<1> HIDE DEF copy
<1>2. ASSUME NEW i \in 1 .. Len(copy) PROVE IsEntry(copy[i])
  <2>1. i \in 1 .. Len(log) \/ i = Len(log) + 1  BY <1>1
  <2> QED  BY <1>1, <2>1 DEF IsJournal
<1>3. IsJournal(copy)  BY <1>1, <1>2 DEF IsJournal
<1> QED  BY <1>3 DEF copy

(* No entry is a journal.                                                  *)
LEMMA EmptyJournal == IsJournal(<<>>)
<1>1. <<>> \in Seq({}) /\ Len(<<>>) = 0  OBVIOUS
<1> QED  BY <1>1 DEF IsJournal, IsLog

(* Appending any tokens builds a journal.                                  *)
LEMMA RebuiltIsJournal ==
  ASSUME NEW m \in Nat, NEW tokens \in [1 .. m -> Tokens], NEW signer
  PROVE  IsJournal(Rebuilt(tokens, signer))
<1> DEFINE Body(f, n) == IF n = 0 THEN <<>>
                         ELSE Append(f[n - 1], Entry(f[n - 1], tokens[n], signer))
           Defines(f, n) == f = [k \in 0 .. n |-> Body(f, k)]
           Sound(f, n) == \A k \in 0 .. n : IsJournal(f[k])
           S == {n \in Nat : \E f : Defines(f, n)}
<1>1. \A n \in Nat : \A f : Defines(f, n) => Sound(f, n)
  <2> TAKE n \in Nat
  <2> TAKE f
  <2> HAVE Defines(f, n)
  <2>1. \A k \in 0 .. n : f[k] = Body(f, k)
    <3> HIDE DEF Body
    <3> QED  OBVIOUS
  <2> DEFINE T == {k \in Nat : k \in 0 .. n => IsJournal(f[k])}
  <2>2. 0 \in T
    <3>1. 0 \in 0 .. n  OBVIOUS
    <3>2. f[0] = <<>>  BY <2>1, <3>1
    <3> QED  BY <3>2, EmptyJournal
  <2>3. ASSUME NEW k \in Nat, k \in T PROVE k + 1 \in T
    <3> SUFFICES ASSUME k + 1 \in 0 .. n PROVE IsJournal(f[k + 1])
      OBVIOUS
    <3>1. k \in 0 .. n /\ k + 1 # 0 /\ (k + 1) - 1 = k  OBVIOUS
    <3>2. f[k + 1] = Append(f[k], Entry(f[k], tokens[k + 1], signer))
      BY <2>1, <3>1
    <3>3. IsJournal(f[k])  BY <2>3, <3>1
    <3> QED  BY <3>2, <3>3, AppendedEntry, EntriesAreEntries
  <2>4. Nat \subseteq T
    <3> HIDE DEF T
    <3> QED  BY <2>2, <2>3, SetInduction
  <2>5. ASSUME NEW k \in 0 .. n PROVE IsJournal(f[k])
    <3>1. k \in Nat  OBVIOUS
    <3>2. k \in T
      <4> HIDE DEF T
      <4> QED  BY <2>4, <3>1
    <3> QED  BY <3>2
  <2> QED  BY <2>5
<1>2. 0 \in S
  <2>1. Defines([k \in 0 .. 0 |-> <<>>], 0)  OBVIOUS
  <2> QED  BY <2>1
<1>3. ASSUME NEW n \in Nat, n \in S PROVE n + 1 \in S
  <2>1. PICK f : Defines(f, n)  BY <1>3
  <2> DEFINE g == [k \in 0 .. n + 1 |-> IF k = n + 1 THEN Body(f, k) ELSE f[k]]
  <2>2. \A k \in 0 .. n : k \in 0 .. n + 1 /\ k # n + 1 /\ g[k] = f[k]  OBVIOUS
  <2>3. \A k \in 0 .. n + 1 : k = 0 \/ k - 1 \in 0 .. n  OBVIOUS
  <2>4. ASSUME NEW k \in 0 .. n + 1 PROVE Body(g, k) = Body(f, k)
    <3>1. k = 0 \/ g[k - 1] = f[k - 1]  BY <2>2, <2>3
    <3> HIDE DEF g
    <3> QED  BY <3>1
  <2>5. ASSUME NEW k \in 0 .. n + 1 PROVE g[k] = Body(f, k)
    <3>1. k = n + 1 \/ k \in 0 .. n  OBVIOUS
    <3>2. k \in 0 .. n => f[k] = Body(f, k)
      <4> HIDE DEF Body
      <4> QED  BY <2>1
    <3> HIDE DEF Body
    <3> QED  BY <2>2, <3>1, <3>2
  <2>6. Defines(g, n + 1)
    <3> HIDE DEF Body
    <3> QED  BY <2>4, <2>5
  <2> HIDE DEF g, Defines
  <2> QED  BY <2>6
<1>4. m \in S
  <2> HIDE DEF S
  <2> QED  BY <1>2, <1>3, SetInduction
<1>5. Len(tokens) = m  OBVIOUS
<1> DEFINE log == CHOOSE f : Defines(f, m)
<1>6. Rebuilt(tokens, signer) = log[m]
  BY <1>5, Zenon DEF Rebuilt
<1>7. Defines(log, m)
  <2> HIDE DEF Defines
  <2> QED  BY <1>4
<1>8. Sound(log, m)
  <2> HIDE DEF Defines, Sound, log
  <2> QED  BY <1>1, <1>7
<1>9. IsJournal(log[m])
  <2> HIDE DEF log
  <2> QED  BY <1>8
<1> QED  BY <1>6, <1>9

(* Whatever a reader is handed in place of the journal is a journal.       *)
LEMMA CopiesAreJournals ==
  ASSUME NEW log, IsJournal(log), NEW copy \in Copies(log)
  PROVE  IsJournal(copy)
<1>1. Len(log) \in Nat /\ IsLog(log)  BY LogLength DEF IsJournal
<1>2. ASSUME NEW m \in 0 .. Len(log), copy = SubSeq(log, 1, m) PROVE IsJournal(copy)
  <2>1. /\ IsLog(copy) /\ Len(copy) = m /\ \A i \in 1 .. m : copy[i] = log[i]
    BY <1>1, <1>2, LogPrefix
  <2>2. \A i \in 1 .. m : i \in 1 .. Len(log)  BY <1>1
  <2> QED  BY <2>1, <2>2 DEF IsJournal
<1>3. ASSUME NEW i \in 1 .. Len(log), NEW hashes, NEW x \in Changed(log[i], hashes)
      PROVE  IsJournal([log EXCEPT ![i] = x])
  <2>1. IsEntry(log[i])  BY DEF IsJournal
  <2>2. \/ \E t : x = [log[i] EXCEPT !.token = t]
        \/ \E h : x = [log[i] EXCEPT !.prev_hash = h]
        \/ \E h : x = [log[i] EXCEPT !.entry_hash = h]
        \/ \E s : x = [log[i] EXCEPT !.signer_pubkey = s]
        \/ \E s : x = [log[i] EXCEPT !.signature = s]
    <3> DEFINE Resigned == {[log[i] EXCEPT !.signature = Signed(s, h)] :
                              s \in Signers, h \in hashes}
    <3>1. \/ \E t : x = [log[i] EXCEPT !.token = t]
          \/ \E h : x = [log[i] EXCEPT !.prev_hash = h]
          \/ \E h : x = [log[i] EXCEPT !.entry_hash = h]
          \/ \E s : x = [log[i] EXCEPT !.signer_pubkey = s]
          \/ x \in Resigned
      BY SMT DEF Changed
    <3>2. ASSUME x \in Resigned PROVE \E s : x = [log[i] EXCEPT !.signature = s]
      <4>1. PICK s \in Signers, h \in hashes : x = [log[i] EXCEPT !.signature = Signed(s, h)]
        BY <3>2
      <4> QED  BY <4>1
    <3> HIDE DEF Resigned
    <3> QED  BY <3>1, <3>2, Zenon
  <2>3. \A t : /\ IsEntry([log[i] EXCEPT !.token = t])
              /\ IsEntry([log[i] EXCEPT !.prev_hash = t])
              /\ IsEntry([log[i] EXCEPT !.entry_hash = t])
              /\ IsEntry([log[i] EXCEPT !.signer_pubkey = t])
              /\ IsEntry([log[i] EXCEPT !.signature = t])
    BY <2>1, EntriesAreEntries, Zenon
  <2>4. IsEntry(x)  BY <2>2, <2>3, Zenon
  <2> QED  BY <2>4, ReplacedEntry
<1>4. ASSUME NEW ts, NEW m \in 0 .. Len(log), ts \in [1 .. m -> Tokens], NEW s \in Signers
      PROVE  IsJournal(Rebuilt(ts, s))
  <2>1. m \in Nat  BY <1>1
  <2> QED  BY <1>4, <2>1, RebuiltIsJournal
<1> DEFINE n == Len(log)
           hashes == {log[i].entry_hash : i \in 1 .. n} \cup {GenesisPrevHash}
<1>5. \/ \E m \in 0 .. n : copy = SubSeq(log, 1, m)
      \/ \E i \in 1 .. n : \E x \in Changed(log[i], hashes) : copy = [log EXCEPT ![i] = x]
      \/ \E s \in Signers : \E m \in 0 .. n : \E ts \in [1 .. m -> Tokens] :
           copy = Rebuilt(ts, s)
  BY Zenon DEF Copies
<1> HIDE DEF hashes
<1> QED  BY <1>2, <1>3, <1>4, <1>5, Zenon

-----------------------------------------------------------------------------
(* Consuming a token keeps the journal one.                                *)
LEMMA ConsumeKeepsJournal ==
  ASSUME IsJournal(entries), NEW token, NEW signer, Consume(token, signer)
  PROVE  IsJournal(entries)'
<1>1. IsJournal(Append(entries, Entry(entries, token, signer)))
  BY AppendedEntry, EntriesAreEntries
<1> QED  BY <1>1 DEF Consume, IsJournal, IsLog

(***************************************************************************)
(* Under the key that signed the journal and a tip and length that were    *)
(* published, verify_chain_anchored accepts the journal as it was then,    *)
(* and no log that was cut short, changed in a field or written anew.      *)
(***************************************************************************)
THEOREM AnchorsPinTheJournal == JournalSpec => []AnchoredMeansPublished
<1> DEFINE Inv == ChainInv /\ IsJournal(entries)
<1>1. JournalInit => Inv
  <2> SUFFICES ASSUME JournalInit PROVE Inv  OBVIOUS
  <2>1. entries = <<>> /\ entries \in Seq({}) /\ Len(entries) = 0  BY DEF JournalInit
  <2> QED  BY <2>1, EmptyJournal DEF ChainInv, IsLog, VerifyChain
<1>2. Inv /\ [JournalNext]_journal => Inv'
  <2> SUFFICES ASSUME Inv, [JournalNext]_journal PROVE Inv'  OBVIOUS
  <2>1. ASSUME NEW token \in Tokens, NEW signer \in Signers, Consume(token, signer)
        PROVE  Inv'
    BY <2>1, ConsumeKeepsChain, ConsumeKeepsJournal
  <2>2. CASE UNCHANGED journal
    <3>1. entries' = entries  BY <2>2 DEF journal
    <3> QED
      BY <3>1 DEF ChainInv, IsLog, IsJournal, VerifyChain, EntryVerifies, PrevHash, TipHash
  <2> QED  BY <2>1, <2>2 DEF JournalNext, ConsumeRefused
<1>3. Inv => AnchoredMeansPublished
  <2> SUFFICES ASSUME Inv, NEW n \in 0 .. Len(entries), NEW key \in Signers,
                      \A i \in 1 .. n : SubSeq(entries, 1, n)[i].signer_pubkey = key,
                      NEW copy \in Copies(entries)
               PROVE  VerifyChainAnchored(copy, key, TipHash(SubSeq(entries, 1, n)), n)
                        <=> copy = SubSeq(entries, 1, n)
    BY DEF AnchoredMeansPublished
  <2> DEFINE then == SubSeq(entries, 1, n)
  <2>1. IsLog(then) /\ Len(then) = n /\ \A i \in 1 .. n : then[i] = entries[i]
    BY LogPrefix DEF ChainInv
  <2>2. Len(entries) \in Nat /\ \A i \in 1 .. n : i \in 1 .. Len(entries)
    <3>1. Len(entries) \in Nat  BY LogLength DEF ChainInv
    <3> QED  BY <3>1
  <2>3. IsJournal(then)  BY <2>1, <2>2 DEF IsJournal
  <2>4. VerifyChain(then)  BY PrefixVerifies DEF ChainInv
  <2>5. IsJournal(copy)  BY CopiesAreJournals
  <2>6. OneSigner(then, key)  BY <2>1 DEF OneSigner
  <2> HIDE DEF then
  <2>7. copy = then => VerifyChainAnchored(copy, key, TipHash(then), n)
    BY <2>1, <2>4, <2>6 DEF VerifyChainAnchored, OneSigner
  <2>8. VerifyChainAnchored(copy, key, TipHash(then), n) => copy = then
    <3> SUFFICES ASSUME VerifyChainAnchored(copy, key, TipHash(then), n)
                 PROVE  copy = then
      OBVIOUS
    <3>1. /\ Len(copy) = Len(then) /\ VerifyChain(copy) /\ TipHash(copy) = TipHash(then)
          /\ OneSigner(copy, key)
      BY <2>1 DEF VerifyChainAnchored, OneSigner
    <3> HIDE DEF Inv
    <3> QED  BY <2>3, <2>4, <2>5, <2>6, <3>1, TipPinsJournal
  <2> QED  BY <2>7, <2>8 DEF then
<1> QED  BY <1>1, <1>2, <1>3, PTL DEF JournalSpec
=============================================================================
