--------------------------- MODULE KeyCustodyProofs ---------------------------
(***************************************************************************)
(* What holds of KeyCustody for every set of KEKs and types, every set of  *)
(* manifests and builds, every width of the destruction log index, and     *)
(* every number of processes, keys and deletions.                          *)
(***************************************************************************)
EXTENDS KeyCustody, SequenceTheorems, FiniteSetTheorems, TLAPS

(* What the backend knows.  Every key it generates is a new one, and at    *)
(* AWS, where nothing is forgotten, a key is wrapped only under a KEK that *)
(* exists or has existed.                                                  *)
KmsInv ==
  /\ backend \in {"mock", "aws"}
  /\ status \in [Keks -> {"Unknown", "Live", "Gone"}]
  /\ IsFiniteSet(made) /\ \A key \in made : key.n \in 1 .. Cardinality(made)
  /\ \A w \in wraps : /\ w.kek \in Keks
                      /\ backend = "aws" => status[w.kek] # "Unknown"

(* The stored envelope is the sealed form of what it was sealed as.        *)
RowInv ==
  \A stored \in row, s \in sealed : stored = Seal(s.kind, s, s.key, s.code)

(* The answers after the first b, which are those of the running process.  *)
Mine(b) == b + 1 .. Len(answers)
Used(b) == {answers[i].index : i \in Mine(b)}

(* While the index has not wrapped, it counts the answers of AWS.          *)
AwsLog(b) ==
  /\ Len(answers) - b <= MaxIndex + 1 =>
       \A i \in Mine(b) : answers[i].index = i - b - 1
  /\ Up /\ Len(answers) - b <= MaxIndex => nextIndex = Len(answers) - b

(* The mock's cache holds exactly what it answered, and while the index    *)
(* has not saturated, it counts the KEKs in the cache.                     *)
MockLog(b) ==
  /\ Len(answers) - b <= MaxIndex + 1 =>
       /\ \E m \in Nat : Used(b) = 0 .. m - 1
       /\ \A i, j \in Mine(b) :
            answers[i].index = answers[j].index <=> answers[i].kek = answers[j].kek
  /\ Up =>
       /\ \A i \in Mine(b) : /\ answers[i].kek \in DOMAIN destroyed
                             /\ destroyed[answers[i].kek] = answers[i].index
       /\ \A k \in DOMAIN destroyed : \E i \in Mine(b) : answers[i].kek = k
       /\ Len(answers) - b <= MaxIndex =>
            nextIndex <= Len(answers) - b /\ Used(b) = 0 .. nextIndex - 1

AnswerRecords == [kek : Keks, index : Nat, life : Nat]

LogInv ==
  /\ lives \in Nat /\ nextIndex \in Nat
  /\ answers \in Seq(AnswerRecords)
  /\ ~Up => nextIndex = 0 /\ DOMAIN destroyed = {}
  /\ \E b \in 0 .. Len(answers) :
       /\ \A i \in 1 .. b : answers[i].life < lives
       /\ \A i \in Mine(b) : answers[i].life = lives
       /\ backend = "aws" => AwsLog(b)
       /\ backend = "mock" => MockLog(b)

CustodyInv == KmsInv /\ RowInv /\ LogInv

-----------------------------------------------------------------------------
(* The invariant holds before the first call.                              *)
LEMMA CustodyInit == Init => CustodyInv
<1> SUFFICES ASSUME Init PROVE CustodyInv
  OBVIOUS
<1> USE CustodyAssumption
<1>1. KmsInv
  BY FS_EmptySet DEF Init, KmsInv
<1>2. RowInv
  BY DEF Init, RowInv
<1>3. LogInv
  <2>1. ~Up /\ answers = <<>> /\ Len(answers) = 0 /\ Mine(0) = {} /\ Used(0) = {}
    BY DEF Init, Up, Mine, Used
  <2>2. AwsLog(0)
    BY <2>1 DEF AwsLog
  <2>3. MockLog(0)
    <3>1. Used(0) = 0 .. 0 - 1
      BY <2>1
    <3> QED
      BY <2>1, <3>1 DEF MockLog
  <2> QED
    BY <2>1, <2>2, <2>3 DEF Init, LogInv
<1> QED
  BY <1>1, <1>2, <1>3 DEF CustodyInv

(***************************************************************************)
(* No call makes a key the backend knows already, forgets a KEK of AWS or  *)
(* wraps a key under a KEK that does not exist.                            *)
(***************************************************************************)
LEMMA KmsStep ==
  ASSUME KmsInv, [Next]_vars
  PROVE  KmsInv'
<1> USE DEF KmsInv, kms, rows
<1>1. ASSUME NEW start \in Starts, Boot(start) PROVE KmsInv'
  BY <1>1 DEF Boot
<1>2. ASSUME NEW start \in Starts, BootRefused(start) PROVE KmsInv'
  BY <1>2 DEF BootRefused, vars
<1>3. CASE Stop
  <2>1. CASE backend = "mock"
    BY <1>3, <2>1, FS_EmptySet DEF Stop
  <2>2. CASE backend # "mock"
    BY <1>3, <2>2 DEF Stop
  <2> QED
    BY <2>1, <2>2
<1>4. CASE RotateKek \/ Refused
  BY <1>4 DEF RotateKek, Refused, vars
<1>5. ASSUME NEW k \in Keks, RegisterKek(k) PROVE KmsInv'
  BY <1>5 DEF RegisterKek
<1>6. ASSUME NEW k \in Keks, GenerateDek(k) PROVE KmsInv'
  <2> DEFINE key == [kek |-> k, n |-> Cardinality(made) + 1]
  <2>1. Cardinality(made) \in Nat
    BY FS_CardinalityType
  <2>2. key \notin made
    BY <2>1
  <2>3. IsFiniteSet(made') /\ Cardinality(made') = Cardinality(made) + 1
    BY <1>6, <2>2, FS_AddElement DEF GenerateDek
  <2>4. \A x \in made' : x.n \in 1 .. Cardinality(made')
    BY <1>6, <2>1, <2>3 DEF GenerateDek
  <2> QED
    BY <1>6, <2>3, <2>4 DEF GenerateDek
<1>7. ASSUME NEW k \in Keks,
             DeleteCached(k) \/ DeleteFresh(k) \/ DeleteScheduled(k) \/ DeleteAnswerLost(k)
      PROVE  KmsInv'
  BY <1>7 DEF DeleteCached, DeleteFresh, DeleteScheduled, DeleteAnswerLost
<1>8. ASSUME NEW k \in Keks, NEW dek \in held, WrapDek(dek, k) PROVE KmsInv'
  BY <1>8 DEF WrapDek, Alive
<1>9. ASSUME NEW k \in Keks, NEW w \in wraps, UnwrapDek(w, k) PROVE KmsInv'
  BY <1>9 DEF UnwrapDek
<1>10. ASSUME NEW dek \in held, DropDek(dek) PROVE KmsInv'
  BY <1>10 DEF DropDek
<1>11. ASSUME NEW dek \in held, NEW code \in Codes, Encrypt(dek, code) PROVE KmsInv'
  BY <1>11 DEF Encrypt
<1>12. CASE UNCHANGED vars
  BY <1>12 DEF vars
<1> QED
  BY <1>1, <1>2, <1>3, <1>4, <1>5, <1>6, <1>7, <1>8, <1>9, <1>10, <1>11, <1>12 DEF Next

(***************************************************************************)
(* The envelope and the record of what it was sealed as are written by     *)
(* Encrypt, together.                                                      *)
(***************************************************************************)
LEMMA RowStep ==
  ASSUME RowInv, [Next]_vars
  PROVE  RowInv'
<1>1. ASSUME NEW dek \in held, NEW code \in Codes, Encrypt(dek, code) PROVE RowInv'
  <2>1. ASSUME NEW stored \in row', NEW s \in sealed'
        PROVE  stored = Seal(s.kind, s, s.key, s.code)
    <3>1. /\ stored = Seal(Cipher, dek, dek.key, code)
          /\ s = [key |-> dek.key, code |-> code, kind |-> Cipher]
      BY <1>1, <2>1 DEF Encrypt
    <3>2. s.key = dek.key /\ s.code = code /\ s.kind = Cipher
      BY <3>1
    <3> QED
      BY <3>1, <3>2 DEF Seal
  <2> QED
    BY <2>1 DEF RowInv
<1>2. CASE UNCHANGED rows
  BY <1>2 DEF rows, RowInv
<1>3. (\E dek \in held, code \in Codes : Encrypt(dek, code)) \/ UNCHANGED rows
  BY DEF Next, Boot, BootRefused, Stop, RotateKek, Refused, RegisterKek, GenerateDek,
         DeleteCached, DeleteFresh, DeleteScheduled, DeleteAnswerLost, WrapDek,
         UnwrapDek, DropDek, vars, rows
<1> QED
  BY <1>1, <1>2, <1>3

-----------------------------------------------------------------------------
(***************************************************************************)
(* One more answer of the running process.                                 *)
(***************************************************************************)
LEMMA AnswerFacts ==
  ASSUME LogInv, NEW k \in Keks, NEW index \in Nat, Answer(k, index)
  PROVE  /\ answers' \in Seq(AnswerRecords)
         /\ Len(answers') = Len(answers) + 1
         /\ \A i \in 1 .. Len(answers) : answers'[i] = answers[i]
         /\ answers'[Len(answers) + 1].kek = k
         /\ answers'[Len(answers) + 1].index = index
         /\ answers'[Len(answers) + 1].life = lives
         /\ \A b \in 0 .. Len(answers) : Mine(b)' = Mine(b) \cup {Len(answers) + 1}
         /\ \A b \in 0 .. Len(answers) : Used(b)' = Used(b) \cup {index}
<1> DEFINE a == [kek |-> k, index |-> index, life |-> lives]
<1>1. a \in AnswerRecords /\ answers' = Append(answers, a)
  BY DEF LogInv, Answer, AnswerRecords
<1>2. /\ answers' \in Seq(AnswerRecords)
      /\ Len(answers') = Len(answers) + 1
      /\ \A i \in 1 .. Len(answers) : answers'[i] = answers[i]
      /\ answers'[Len(answers) + 1] = a
  BY <1>1 DEF LogInv
<1>3. ASSUME NEW b \in 0 .. Len(answers)
      PROVE  /\ Mine(b)' = Mine(b) \cup {Len(answers) + 1}
             /\ Used(b)' = Used(b) \cup {index}
  <2>1. Mine(b)' = Mine(b) \cup {Len(answers) + 1}
    BY <1>2 DEF Mine, LogInv
  <2>2. Mine(b) \subseteq 1 .. Len(answers)
    BY DEF Mine, LogInv
  <2>3. \A i \in Mine(b) : answers'[i].index = answers[i].index
    BY <1>2, <2>2
  <2>4. answers'[Len(answers) + 1].index = index
    BY <1>2
  <2> QED
    BY <2>1, <2>3, <2>4, Zenon DEF Used
<1> QED
  BY <1>2, <1>3

(***************************************************************************)
(* AWS: an answer takes the index, which then counts it.                   *)
(***************************************************************************)
LEMMA AwsAnswer ==
  ASSUME LogInv, NEW k \in Keks, DeleteScheduled(k),
         NEW b \in 0 .. Len(answers), AwsLog(b)
  PROVE  AwsLog(b)'
<1> USE CustodyAssumption
<1>1. Answer(k, nextIndex) /\ Up /\ nextIndex \in Nat /\ Len(answers) \in Nat
  BY DEF DeleteScheduled, LogInv
<1>2. nextIndex' = (nextIndex + 1) % (MaxIndex + 1)
  BY DEF DeleteScheduled
<1>3. /\ Len(answers') = Len(answers) + 1
      /\ \A i \in 1 .. Len(answers) : answers'[i] = answers[i]
      /\ answers'[Len(answers) + 1].index = nextIndex
      /\ Mine(b)' = Mine(b) \cup {Len(answers) + 1}
  BY <1>1, AnswerFacts
<1>4. ASSUME Len(answers') - b <= MaxIndex + 1, NEW i \in Mine(b)'
      PROVE  answers'[i].index = i - b - 1
  <2>1. Len(answers) - b <= MaxIndex /\ nextIndex = Len(answers) - b
    BY <1>1, <1>3, <1>4 DEF AwsLog
  <2>2. CASE i \in Mine(b)
    <3>1. Len(answers) - b <= MaxIndex + 1
      BY <1>1, <2>1
    <3>2. answers[i].index = i - b - 1
      BY <2>2, <3>1 DEF AwsLog
    <3>3. i \in 1 .. Len(answers)
      BY <1>1, <2>2 DEF Mine
    <3> QED
      BY <1>3, <3>2, <3>3
  <2>3. CASE i = Len(answers) + 1
    BY <1>1, <1>3, <2>1, <2>3
  <2> QED
    BY <1>3, <1>4, <2>2, <2>3
<1>5. ASSUME Len(answers') - b <= MaxIndex
      PROVE  nextIndex' = Len(answers') - b
  <2>1. nextIndex = Len(answers) - b /\ nextIndex + 1 \in 0 .. MaxIndex
    BY <1>1, <1>3, <1>5 DEF AwsLog
  <2>2. \A n \in Nat, m \in Nat : n <= m => n % (m + 1) = n
    OBVIOUS
  <2> QED
    BY <1>1, <1>2, <1>3, <2>1, <2>2
<1> QED
  BY <1>4, <1>5 DEF AwsLog

(* The index of a recorded deletion is a number.                           *)
LEMMA CachedIndex ==
  ASSUME LogInv, Up, NEW b \in 0 .. Len(answers), MockLog(b),
         NEW k \in DOMAIN destroyed
  PROVE  destroyed[k] \in Nat
<1>1. PICK i \in Mine(b) : answers[i].kek = k
  BY DEF MockLog
<1>2. destroyed[k] = answers[i].index
  BY <1>1 DEF MockLog
<1>3. answers \in Seq(AnswerRecords) /\ i \in 1 .. Len(answers)
  BY DEF Mine, LogInv
<1>4. answers[i] \in AnswerRecords
  BY <1>3
<1> QED
  BY <1>2, <1>4 DEF AnswerRecords

(***************************************************************************)
(* The mock: the answer for a KEK in the cache repeats an earlier one.     *)
(***************************************************************************)
LEMMA CachedAnswer ==
  ASSUME LogInv, NEW k \in Keks, DeleteCached(k),
         NEW b \in 0 .. Len(answers), MockLog(b)
  PROVE  MockLog(b)'
<1> DEFINE last == Len(answers) + 1
<1>1. Up /\ Len(answers) \in Nat /\ nextIndex \in Nat /\ k \in DOMAIN destroyed
  BY DEF DeleteCached, LogInv
<1>2. PICK first \in Mine(b) : answers[first].kek = k
  BY <1>1 DEF MockLog
<1>3. /\ Mine(b) \subseteq 1 .. Len(answers)
      /\ answers[first].index = destroyed[k] /\ destroyed[k] \in Nat
  <2>1. Mine(b) \subseteq 1 .. Len(answers)
    BY <1>1 DEF Mine
  <2>2. answers[first].index = destroyed[k]
    BY <1>1, <1>2 DEF MockLog
  <2>3. destroyed[k] \in Nat
    BY <1>1, CachedIndex
  <2> QED
    BY <2>1, <2>2, <2>3
<1>4. /\ Len(answers') = last
      /\ \A i \in 1 .. Len(answers) : answers'[i] = answers[i]
      /\ answers'[last].kek = k /\ answers'[last].index = destroyed[k]
      /\ Mine(b)' = Mine(b) \cup {last}
      /\ Used(b)' = Used(b) \cup {destroyed[k]}
  BY <1>3, AnswerFacts DEF DeleteCached
<1>5. Used(b)' = Used(b)
  BY <1>2, <1>3, <1>4 DEF Used
<1>6. nextIndex' = nextIndex /\ destroyed' = destroyed /\ Up'
  BY DEF DeleteCached, kms, Up
<1>7. \A i \in Mine(b) : answers'[i] = answers[i]
  BY <1>3, <1>4
<1> HIDE DEF last
<1>8. ASSUME Len(answers') - b <= MaxIndex + 1
      PROVE  /\ \E m \in Nat : Used(b)' = 0 .. m - 1
             /\ \A i, j \in Mine(b)' :
                  answers'[i].index = answers'[j].index <=> answers'[i].kek = answers'[j].kek
  <2>1. Len(answers) - b <= MaxIndex + 1
    BY <1>1, <1>4, <1>8, CustodyAssumption DEF last
  <2>2. \A i, j \in Mine(b) :
          answers[i].index = answers[j].index <=> answers[i].kek = answers[j].kek
    BY <2>1 DEF MockLog
  <2>3. \A i \in Mine(b)' : \E j \in Mine(b) :
          answers'[i].index = answers[j].index /\ answers'[i].kek = answers[j].kek
    BY <1>2, <1>3, <1>4, <1>7
  <2>4. \E m \in Nat : Used(b)' = 0 .. m - 1
    BY <1>5, <2>1 DEF MockLog
  <2> QED
    BY <2>2, <2>3, <2>4
<1>9. /\ \A i \in Mine(b)' : /\ answers'[i].kek \in DOMAIN destroyed'
                             /\ destroyed'[answers'[i].kek] = answers'[i].index
      /\ \A j \in DOMAIN destroyed' : \E i \in Mine(b)' : answers'[i].kek = j
  BY <1>1, <1>4, <1>6, <1>7 DEF MockLog
<1>10. ASSUME Len(answers') - b <= MaxIndex
       PROVE  nextIndex' <= Len(answers') - b /\ Used(b)' = 0 .. nextIndex' - 1
  <2>1. Len(answers) - b <= MaxIndex
    BY <1>1, <1>4, <1>10, CustodyAssumption DEF last
  <2>2. nextIndex <= Len(answers) - b /\ Used(b) = 0 .. nextIndex - 1
    BY <1>1, <2>1 DEF MockLog
  <2> QED
    BY <1>1, <1>4, <1>5, <1>6, <2>2 DEF last
<1> QED
  BY <1>8, <1>9, <1>10 DEF MockLog

(***************************************************************************)
(* The mock: the answer for a KEK that is not in the cache takes the next  *)
(* index, which no other KEK has until it saturates.                       *)
(***************************************************************************)
LEMMA FreshAnswer ==
  ASSUME LogInv, NEW k \in Keks, DeleteFresh(k),
         NEW b \in 0 .. Len(answers), MockLog(b)
  PROVE  MockLog(b)'
<1> DEFINE last == Len(answers) + 1
<1>1. Up /\ Len(answers) \in Nat /\ nextIndex \in Nat /\ k \notin DOMAIN destroyed
  BY DEF DeleteFresh, LogInv
<1>2. /\ Len(answers') = last
      /\ \A i \in 1 .. Len(answers) : answers'[i] = answers[i]
      /\ answers'[last].kek = k /\ answers'[last].index = nextIndex
      /\ Mine(b)' = Mine(b) \cup {last}
      /\ Used(b)' = Used(b) \cup {nextIndex}
  BY <1>1, AnswerFacts DEF DeleteFresh
<1>3. /\ DOMAIN destroyed' = DOMAIN destroyed \cup {k}
      /\ destroyed'[k] = nextIndex
      /\ \A j \in DOMAIN destroyed : destroyed'[j] = destroyed[j]
      /\ Up'
  BY <1>1 DEF DeleteFresh, Up
<1>4. nextIndex' = IF nextIndex < MaxIndex THEN nextIndex + 1 ELSE MaxIndex
  BY DEF DeleteFresh
<1>5. Mine(b) \subseteq 1 .. Len(answers) /\ last \notin Mine(b)
  BY <1>1 DEF Mine
<1>6. \A i \in Mine(b) : answers'[i] = answers[i]
  BY <1>2, <1>5
<1>7. \A i \in Mine(b) : /\ answers[i].kek \in DOMAIN destroyed
                         /\ destroyed[answers[i].kek] = answers[i].index
  BY <1>1 DEF MockLog
<1>8. ASSUME Len(answers') - b <= MaxIndex + 1
      PROVE  /\ Len(answers) - b <= MaxIndex /\ Len(answers) - b <= MaxIndex + 1
             /\ nextIndex <= Len(answers) - b /\ Used(b) = 0 .. nextIndex - 1
             /\ Used(b)' = 0 .. nextIndex
  <2>1. Len(answers) - b <= MaxIndex /\ Len(answers) - b <= MaxIndex + 1
    BY <1>1, <1>2, <1>8, CustodyAssumption
  <2>2. nextIndex <= Len(answers) - b /\ Used(b) = 0 .. nextIndex - 1
    BY <1>1, <2>1 DEF MockLog
  <2>3. Used(b)' = 0 .. nextIndex
    BY <1>1, <1>2, <2>2
  <2> QED
    BY <2>1, <2>2, <2>3
<1> HIDE DEF last
<1>9. ASSUME Len(answers') - b <= MaxIndex + 1
      PROVE  /\ \E m \in Nat : Used(b)' = 0 .. m - 1
             /\ \A i, j \in Mine(b)' :
                  answers'[i].index = answers'[j].index <=> answers'[i].kek = answers'[j].kek
  <2>1. \A i, j \in Mine(b) :
          answers[i].index = answers[j].index <=> answers[i].kek = answers[j].kek
    BY <1>8, <1>9 DEF MockLog
  <2>2. nextIndex \notin Used(b)
    BY <1>1, <1>8, <1>9
  <2>3. \A i \in Mine(b) : answers[i].index # nextIndex /\ answers[i].kek # k
    <3>1. \A i \in Mine(b) : answers[i].index # nextIndex
      BY <2>2 DEF Used
    <3> QED
      BY <1>1, <1>7, <3>1, Zenon
  <2>4. \E m \in Nat : Used(b)' = 0 .. m - 1
    <3>1. nextIndex + 1 \in Nat /\ Used(b)' = 0 .. (nextIndex + 1) - 1
      BY <1>1, <1>8, <1>9
    <3> QED
      BY <3>1
  <2>5. \A i \in Mine(b)' : i \in Mine(b) \/ i = last
    BY <1>2
  <2>6. ASSUME NEW i \in Mine(b)', NEW j \in Mine(b)'
        PROVE  answers'[i].index = answers'[j].index <=> answers'[i].kek = answers'[j].kek
    <3>1. CASE i \in Mine(b) /\ j \in Mine(b)
      BY <1>6, <2>1, <3>1
    <3>2. CASE i = last \/ j = last
      BY <1>2, <1>6, <2>3, <2>5, <2>6, <3>2
    <3> QED
      BY <2>5, <2>6, <3>1, <3>2, Zenon
  <2> QED
    BY <2>4, <2>6, Zenon
<1>10. /\ \A i \in Mine(b)' : /\ answers'[i].kek \in DOMAIN destroyed'
                              /\ destroyed'[answers'[i].kek] = answers'[i].index
       /\ \A j \in DOMAIN destroyed' : \E i \in Mine(b)' : answers'[i].kek = j
  <2>1. \A j \in DOMAIN destroyed : \E i \in Mine(b) : answers[i].kek = j
    BY <1>1 DEF MockLog
  <2> QED
    BY <1>2, <1>3, <1>6, <1>7, <2>1
<1>11. ASSUME Len(answers') - b <= MaxIndex
       PROVE  nextIndex' <= Len(answers') - b /\ Used(b)' = 0 .. nextIndex' - 1
  <2>1. Len(answers') - b <= MaxIndex + 1 /\ Len(answers) - b < MaxIndex
    BY <1>1, <1>2, <1>11, CustodyAssumption DEF last
  <2>2. nextIndex < MaxIndex /\ nextIndex' = nextIndex + 1
    BY <1>1, <1>4, <1>8, <2>1, CustodyAssumption
  <2> QED
    BY <1>1, <1>2, <1>8, <2>1, <2>2 DEF last
<1> QED
  BY <1>9, <1>10, <1>11 DEF MockLog

(* Every call keeps the audit log and the recorded deletions in agreement. *)
LEMMA LogStep ==
  ASSUME KmsInv, LogInv, [Next]_vars
  PROVE  LogInv'
<1> USE CustodyAssumption
<1> DEFINE Records == Seq(AnswerRecords)
           Since(b) == /\ \A i \in 1 .. b : answers[i].life < lives
                       /\ \A i \in Mine(b) : answers[i].life = lives
<1>1. PICK b \in 0 .. Len(answers) :
        /\ Since(b)
        /\ backend = "aws" => AwsLog(b)
        /\ backend = "mock" => MockLog(b)
  BY DEF LogInv
<1>2. /\ lives \in Nat /\ nextIndex \in Nat /\ answers \in Records /\ Len(answers) \in Nat
      /\ backend \in {"mock", "aws"}
  BY DEF LogInv, KmsInv
<1>3. ASSUME NEW start \in Starts, Boot(start) PROVE LogInv'
  <2> DEFINE n == Len(answers)
  <2>1. /\ ~Up /\ nextIndex = 0 /\ DOMAIN destroyed = {}
        /\ UNCHANGED <<answers, nextIndex, destroyed, backend>> /\ lives' = lives + 1
    BY <1>3 DEF Boot, kms, LogInv, Up
  <2>2. ASSUME NEW i \in 1 .. n PROVE answers[i].life < lives + 1
    <3>1. answers[i] \in AnswerRecords
      BY <1>2
    <3>2. i \in 1 .. b \/ i \in Mine(b)
      BY <1>2 DEF Mine
    <3>3. answers[i].life < lives \/ answers[i].life = lives
      BY <1>1, <3>2
    <3>4. answers[i].life \in Nat
      BY <3>1 DEF AnswerRecords
    <3> QED
      BY <1>2, <3>3, <3>4
  <2>3. Mine(n) = {} /\ Mine(n)' = {} /\ Used(n)' = {} /\ n - n = 0 /\ n \in 0 .. n
    BY <1>2, <2>1 DEF Mine, Used
  <2>4. \A m : m = n => AwsLog(m)' /\ MockLog(m)'
    <3> TAKE m
    <3> HAVE m = n
    <3>1. Mine(m)' = {} /\ Used(m)' = {} /\ Len(answers') - m = 0
      BY <1>2, <2>1 DEF Mine, Used
    <3>2. AwsLog(m)'
      BY <2>1, <3>1 DEF AwsLog
    <3>3. Used(m)' = 0 .. 0 - 1
      BY <3>1
    <3>4. MockLog(m)'
      BY <2>1, <3>1, <3>3 DEF MockLog
    <3> QED
      BY <3>2, <3>4
  <2> QED
    BY <1>2, <2>1, <2>2, <2>3, <2>4 DEF LogInv
<1>4. CASE Stop
  <2>1. /\ ~Up' /\ nextIndex' = 0 /\ DOMAIN destroyed' = {}
        /\ UNCHANGED <<answers, lives, backend>>
    BY <1>4 DEF Stop, Up
  <2>2. Mine(b)' = Mine(b) /\ Used(b)' = Used(b)
    BY <2>1 DEF Mine, Used
  <2>3. AwsLog(b) => AwsLog(b)'
    BY <2>1, <2>2 DEF AwsLog
  <2>4. MockLog(b) => MockLog(b)'
    BY <2>1, <2>2 DEF MockLog
  <2> QED
    BY <1>1, <1>2, <2>1, <2>2, <2>3, <2>4 DEF LogInv
<1>9. ASSUME NEW k \in Keks, NEW index \in Nat, Answer(k, index), lives' = lives
      PROVE  /\ answers' \in Seq(AnswerRecords) /\ b \in 0 .. Len(answers')
             /\ \A i \in 1 .. b : answers'[i].life < lives'
             /\ \A i \in Mine(b)' : answers'[i].life = lives'
  <2>1. /\ answers' \in Seq(AnswerRecords)
        /\ Len(answers') = Len(answers) + 1
        /\ \A i \in 1 .. Len(answers) : answers'[i] = answers[i]
        /\ answers'[Len(answers) + 1].life = lives
        /\ Mine(b)' = Mine(b) \cup {Len(answers) + 1}
    BY <1>9, AnswerFacts
  <2>2. Mine(b) \subseteq 1 .. Len(answers) /\ 1 .. b \subseteq 1 .. Len(answers)
    BY <1>2 DEF Mine
  <2>3. b \in 0 .. Len(answers')
    BY <1>2, <2>1
  <2> QED
    BY <1>1, <1>9, <2>1, <2>2, <2>3
<1>5. ASSUME NEW k \in Keks, DeleteScheduled(k) PROVE LogInv'
  <2>1. /\ Answer(k, nextIndex) /\ Up' /\ backend = "aws"
        /\ UNCHANGED <<lives, destroyed, backend>>
    BY <1>5 DEF DeleteScheduled, Up
  <2>2. nextIndex' \in Nat
    BY <1>2, <1>5 DEF DeleteScheduled
  <2>3. AwsLog(b)'
    BY <1>1, <1>5, <2>1, AwsAnswer
  <2> QED
    BY <1>2, <1>9, <2>1, <2>2, <2>3 DEF LogInv
<1>6. ASSUME NEW k \in Keks, DeleteCached(k) \/ DeleteFresh(k) PROVE LogInv'
  <2>1. /\ Up' /\ backend = "mock" /\ UNCHANGED <<lives, backend>>
        /\ \E index \in Nat : Answer(k, index)
    <3>1. CASE DeleteFresh(k)
      BY <1>2, <3>1 DEF DeleteFresh, Up
    <3>2. CASE DeleteCached(k)
      <4>1. /\ Up /\ backend = "mock" /\ k \in DOMAIN destroyed
            /\ Answer(k, destroyed[k]) /\ UNCHANGED <<lives, backend, process>>
        BY <3>2 DEF DeleteCached
      <4>2. destroyed[k] \in Nat
        BY <1>1, <4>1, CachedIndex
      <4> QED
        BY <4>1, <4>2 DEF Up
    <3> QED
      BY <1>6, <3>1, <3>2
  <2>2. nextIndex' \in Nat
    BY <1>2, <1>6 DEF DeleteCached, DeleteFresh, kms
  <2>3. MockLog(b)'
    BY <1>1, <1>6, <2>1, CachedAnswer, FreshAnswer
  <2> QED
    BY <1>2, <1>9, <2>1, <2>2, <2>3 DEF LogInv
<1>7. ASSUME UNCHANGED <<lives, nextIndex, destroyed, answers, backend, process>>
      PROVE  LogInv'
  <2>1. Mine(b)' = Mine(b) /\ Used(b)' = Used(b) /\ Up' = Up
    BY <1>7 DEF Mine, Used, Up
  <2>2. (AwsLog(b) => AwsLog(b)') /\ (MockLog(b) => MockLog(b)')
    BY <1>7, <2>1 DEF AwsLog, MockLog
  <2> QED
    BY <1>1, <1>7, <2>1, <2>2 DEF LogInv
<1>8. ASSUME Next
      PROVE  \/ \E start \in Starts : Boot(start)
             \/ Stop
             \/ \E k \in Keks : DeleteScheduled(k) \/ DeleteCached(k) \/ DeleteFresh(k)
             \/ UNCHANGED <<lives, nextIndex, destroyed, answers, backend, process>>
  BY <1>8 DEF Next, BootRefused, RotateKek, Refused, RegisterKek, GenerateDek,
     DeleteAnswerLost, WrapDek, UnwrapDek, DropDek, Encrypt, vars, kms
<1> QED
  BY <1>3, <1>4, <1>5, <1>6, <1>7, <1>8 DEF vars, kms

-----------------------------------------------------------------------------
(***************************************************************************)
(* The backend, the stored envelope and the log of answers are always as   *)
(* CustodyInv says: MockKmsBackend, AwsKmsBackend, encrypt.                *)
(***************************************************************************)
THEOREM CustodyInvariant == Spec => []CustodyInv
<1>1. CustodyInv /\ [Next]_vars => CustodyInv'
  BY KmsStep, RowStep, LogStep DEF CustodyInv
<1> QED
  BY CustodyInit, <1>1, PTL DEF Spec

(***************************************************************************)
(* An envelope opens exactly under the key, type and cipher it was sealed  *)
(* with, in a build that has the cipher: decrypt after encrypt, with       *)
(* whatever field of EncryptedPii damaged in the store.                    *)
(***************************************************************************)
THEOREM EnvelopesOpenAsSealed == Spec => []OpensAsSealed
<1>1. RowInv => OpensAsSealed
  <2> SUFFICES ASSUME RowInv,
                      NEW stored \in row, NEW s \in sealed, NEW dek \in held,
                      NEW code \in Codes, NEW e \in {stored} \cup Damaged(stored)
               PROVE  Decrypt(Features, Cipher, e, dek, code) = "Ok" <=>
                        /\ e = stored /\ dek.key = s.key /\ code = s.code
                        /\ Cipher = s.kind /\ Compiled(Features, Cipher)
    BY DEF OpensAsSealed
  <2> DEFINE opens == /\ e.pii_code = code /\ e.aead_kind = Cipher
                      /\ Compiled(Features, Cipher) /\ TagVerifies(e, dek)
  <2>1. Decrypt(Features, Cipher, e, dek, code) = "Ok" <=> opens
    BY DEF Decrypt
  <2>2. stored = Seal(s.kind, s, s.key, s.code)
    BY DEF RowInv
  <2>3. /\ stored.dek_id = s.key /\ stored.pii_code = s.code /\ stored.aead_kind = s.kind
        /\ stored.nonce = [shape |-> Shape(s.kind), drawn |-> TRUE]
        /\ stored.ciphertext = [key |-> s.key, kind |-> s.kind,
                                aad |-> <<s.key, s.code, s.kind>>, intact |-> TRUE]
    BY <2>2 DEF Seal, ComputeAad
  <2>4. TagVerifies(stored, dek) <=> dek.key = s.key
    <3>1. TagVerifies(stored, dek) <=>
            stored.ciphertext = [key |-> dek.key, kind |-> s.kind,
                                 aad |-> <<s.key, s.code, s.kind>>, intact |-> TRUE]
      BY <2>3 DEF TagVerifies, ComputeAad
    <3>2. ASSUME TagVerifies(stored, dek) PROVE dek.key = s.key
      <4>1. stored.ciphertext.key = dek.key
        BY <3>1, <3>2
      <4>2. stored.ciphertext.key = s.key
        BY <2>3
      <4> QED
        BY <4>1, <4>2
    <3>3. ASSUME dek.key = s.key PROVE TagVerifies(stored, dek)
      BY <2>3, <3>1, <3>3, Zenon
    <3> QED
      BY <3>2, <3>3
  <2>5. ASSUME e \in Damaged(stored) PROVE ~TagVerifies(e, dek)
    <3> DEFINE nonce == [shape |-> Shape(s.kind), drawn |-> TRUE]
               text  == [key |-> s.key, kind |-> s.kind,
                         aad |-> <<s.key, s.code, s.kind>>, intact |-> TRUE]
    <3>1. stored = [dek_id |-> s.key, pii_code |-> s.code, aead_kind |-> s.kind,
                    nonce |-> nonce, ciphertext |-> text]
      BY <2>2 DEF Seal, ComputeAad
    <3>2. e # stored
      BY <2>5 DEF Damaged
    <3>3. TagVerifies(e, dek) =>
            /\ e.nonce.shape = Shape(e.aead_kind) /\ e.nonce.drawn = TRUE
            /\ e.ciphertext.kind = e.aead_kind /\ e.ciphertext.intact = TRUE
            /\ e.ciphertext.aad = <<e.dek_id, e.pii_code, e.aead_kind>>
      BY DEF TagVerifies, ComputeAad
    <3>4. ASSUME NEW c, e = [stored EXCEPT !.pii_code = c] PROVE ~TagVerifies(e, dek)
      <4>1. e = [dek_id |-> s.key, pii_code |-> c, aead_kind |-> s.kind,
                 nonce |-> nonce, ciphertext |-> text]
        BY <3>1, <3>4
      <4>2. c # s.code
        BY <3>1, <3>2, <4>1
      <4> QED
        BY <3>3, <4>1, <4>2
    <3>5. ASSUME NEW id, e = [stored EXCEPT !.dek_id = id] PROVE ~TagVerifies(e, dek)
      <4>1. e = [dek_id |-> id, pii_code |-> s.code, aead_kind |-> s.kind,
                 nonce |-> nonce, ciphertext |-> text]
        BY <3>1, <3>5
      <4>2. id # s.key
        BY <3>1, <3>2, <4>1
      <4> QED
        BY <3>3, <4>1, <4>2
    <3>6. ASSUME NEW kind, e = [stored EXCEPT !.aead_kind = kind] PROVE ~TagVerifies(e, dek)
      <4>1. e = [dek_id |-> s.key, pii_code |-> s.code, aead_kind |-> kind,
                 nonce |-> nonce, ciphertext |-> text]
        BY <3>1, <3>6
      <4>2. kind # s.kind
        BY <3>1, <3>2, <4>1
      <4> QED
        BY <3>3, <4>1, <4>2
    <3>7. ASSUME NEW shape, e = [stored EXCEPT !.nonce.shape = shape]
          PROVE  ~TagVerifies(e, dek)
      <4>1. e = [dek_id |-> s.key, pii_code |-> s.code, aead_kind |-> s.kind,
                 nonce |-> [shape |-> shape, drawn |-> TRUE], ciphertext |-> text]
        BY <3>1, <3>7
      <4>2. shape # Shape(s.kind)
        BY <3>1, <3>2, <4>1
      <4> QED
        BY <3>3, <4>1, <4>2
    <3>8. ASSUME e = [stored EXCEPT !.nonce.drawn = FALSE] PROVE ~TagVerifies(e, dek)
      <4>1. e = [dek_id |-> s.key, pii_code |-> s.code, aead_kind |-> s.kind,
                 nonce |-> [shape |-> Shape(s.kind), drawn |-> FALSE], ciphertext |-> text]
        BY <3>1, <3>8
      <4>2. e.nonce.drawn = FALSE
        BY <4>1
      <4> QED
        BY <3>3, <4>2
    <3>9. ASSUME e = [stored EXCEPT !.ciphertext.intact = FALSE] PROVE ~TagVerifies(e, dek)
      <4>1. e = [dek_id |-> s.key, pii_code |-> s.code, aead_kind |-> s.kind,
                 nonce |-> nonce,
                 ciphertext |-> [key |-> s.key, kind |-> s.kind,
                                 aad |-> <<s.key, s.code, s.kind>>, intact |-> FALSE]]
        BY <3>1, <3>9
      <4>2. e.ciphertext.intact = FALSE
        BY <4>1
      <4> QED
        BY <3>3, <4>2
    <3> QED
      BY <2>5, <3>4, <3>5, <3>6, <3>7, <3>8, <3>9 DEF Damaged
  <2>6. e \in Damaged(stored) => e # stored
    BY DEF Damaged
  <2> QED
    BY <2>1, <2>3, <2>4, <2>5, <2>6
<1>2. CustodyInv => OpensAsSealed
  BY <1>1 DEF CustodyInv
<1> QED
  BY CustodyInvariant, <1>2, PTL

(***************************************************************************)
(* Crypto-erasure: no call of either backend, no restart and no lost       *)
(* answer of schedule_key_deletion brings back a key that is in nobody's   *)
(* memory and that no live KEK unwraps; only register_kek of the mock does.*)
(***************************************************************************)
THEOREM LostKeysStayLost == Spec => LostStaysLost
<1>1. ASSUME KmsInv, [Next]_vars, NEW key \in made, Lost(key),
             ~(backend = "mock" /\ ~(Alive' \subseteq Alive))
      PROVE  Lost(key)'
  <2>1. key.n \in 1 .. Cardinality(made) /\ Cardinality(made) \in Nat
    BY <1>1, FS_CardinalityType DEF KmsInv
  <2>2. ASSUME held' \subseteq held, wraps' = wraps, Alive' \subseteq Alive
        PROVE  Lost(key)'
    BY <1>1, <2>2 DEF Lost
  <2>3. ASSUME UNCHANGED status PROVE Alive' = Alive
    BY <2>3 DEF Alive
  <2>4. ASSUME NEW k \in Keks, RegisterKek(k) PROVE Lost(key)'
    <3>1. k \in Alive' /\ k \notin Alive
      BY <1>1, <2>4 DEF RegisterKek, Alive, KmsInv
    <3>2. backend = "aws" /\ status[k] = "Unknown"
      BY <1>1, <2>4, <3>1 DEF RegisterKek, KmsInv
    <3>3. \A w \in wraps : w.kek # k
      BY <1>1, <3>2 DEF KmsInv
    <3>4. Alive' = Alive \cup {k}
      BY <1>1, <2>4 DEF RegisterKek, Alive, KmsInv
    <3> QED
      BY <1>1, <2>4, <3>3, <3>4 DEF RegisterKek, Lost
  <2>5. ASSUME NEW k \in Keks, GenerateDek(k) PROVE Lost(key)'
    <3>1. key # [kek |-> k, n |-> Cardinality(made) + 1]
      BY <2>1
    <3>2. Alive' = Alive
      BY <2>3, <2>5 DEF GenerateDek
    <3> QED
      BY <1>1, <2>5, <3>1, <3>2 DEF GenerateDek, Lost
  <2>6. ASSUME NEW k \in Keks, NEW dek \in held, WrapDek(dek, k) PROVE Lost(key)'
    <3>1. Alive' = Alive /\ dek.key # key
      BY <1>1, <2>3, <2>6 DEF WrapDek, kms, Lost
    <3> QED
      BY <1>1, <2>6, <3>1 DEF WrapDek, Lost
  <2>7. ASSUME NEW k \in Keks, NEW w \in wraps, UnwrapDek(w, k) PROVE Lost(key)'
    <3>1. Alive' = Alive /\ w.key # key
      BY <1>1, <2>3, <2>7 DEF UnwrapDek, kms, Lost
    <3> QED
      BY <1>1, <2>7, <3>1 DEF UnwrapDek, Lost
  <2>8. CASE Stop
    <3>1. Alive' \subseteq Alive /\ held' = {} /\ wraps' = wraps
      BY <2>8 DEF Stop, Alive
    <3> QED
      BY <2>2, <3>1
  <2>9. ASSUME NEW k \in Keks,
               DeleteCached(k) \/ DeleteFresh(k) \/ DeleteScheduled(k) \/ DeleteAnswerLost(k)
        PROVE  Lost(key)'
    <3>1. Alive' \subseteq Alive /\ held' = held /\ wraps' = wraps
      BY <1>1, <2>9 DEF DeleteCached, DeleteFresh, DeleteScheduled, DeleteAnswerLost,
                        Alive, KmsInv, kms
    <3> QED
      BY <2>2, <3>1
  <2>10. ASSUME \/ \E start \in Starts : Boot(start) \/ BootRefused(start)
                \/ RotateKek \/ Refused
                \/ \E dek \in held : DropDek(dek) \/ \E code \in Codes : Encrypt(dek, code)
                \/ UNCHANGED vars
         PROVE  Lost(key)'
    <3>1. UNCHANGED status /\ held' \subseteq held /\ wraps' = wraps
      BY <2>10 DEF Boot, BootRefused, RotateKek, Refused, DropDek, Encrypt, vars, kms
    <3> QED
      BY <2>2, <2>3, <3>1
  <2> QED
    BY <1>1, <2>4, <2>5, <2>6, <2>7, <2>8, <2>9, <2>10 DEF Next
<1>2. CustodyInv /\ [Next]_vars =>
        [\A key \in made : Lost(key) =>
           \/ Lost(key)'
           \/ (backend = "mock" /\ ~(Alive' \subseteq Alive))]_vars
  BY <1>1 DEF CustodyInv
<1> QED
  BY CustodyInvariant, <1>2, PTL DEF Spec, LostStaysLost

(***************************************************************************)
(* A process numbers the deletions it answers from 0 without a gap until   *)
(* the index wraps at AWS or saturates in the mock, and gives no two KEKs  *)
(* one number: destruction_log_index of delete_key.                        *)
(***************************************************************************)
THEOREM DeletionsAreNumbered == Spec => []AttestationsNumbered
<1>1. CustodyInv => AttestationsNumbered
  <2> SUFFICES ASSUME CustodyInv PROVE AttestationsNumbered
    OBVIOUS
  <2> USE CustodyAssumption
  <2> DEFINE mine == {i \in DOMAIN answers : answers[i].life = lives}
             used == {answers[i].index : i \in mine}
  <2>1. PICK b \in 0 .. Len(answers) :
          /\ \A i \in 1 .. b : answers[i].life < lives
          /\ \A i \in Mine(b) : answers[i].life = lives
          /\ backend = "aws" => AwsLog(b)
          /\ backend = "mock" => MockLog(b)
    BY DEF CustodyInv, LogInv
  <2>2. answers \in Seq(AnswerRecords) /\ lives \in Nat /\ Len(answers) \in Nat
    BY DEF CustodyInv, LogInv
  <2>3. DOMAIN answers = 1 .. Len(answers)
    BY <2>2
  <2>4. mine = Mine(b)
    BY <2>1, <2>2, <2>3 DEF Mine
  <2>5. used = Used(b)
    BY <2>4 DEF Used
  <2>6. Cardinality(mine) = Len(answers) - b
    <3>1. b + 1 \in Int /\ Len(answers) \in Int
      BY <2>2
    <3>2. Cardinality(b + 1 .. Len(answers)) =
            IF b + 1 > Len(answers) THEN 0 ELSE Len(answers) - (b + 1) + 1
      BY <3>1, FS_Interval
    <3>3. Cardinality(b + 1 .. Len(answers)) = Len(answers) - b
      BY <2>2, <3>2
    <3> HIDE DEF mine
    <3> QED
      BY <2>4, <3>3 DEF Mine
  <2> HIDE DEF mine, used
  <2>7. ASSUME Cardinality(mine) <= MaxIndex + 1
        PROVE  /\ used = 0 .. Cardinality(used) - 1
               /\ \A i, j \in mine :
                    answers[i].index = answers[j].index <=>
                      i = j \/ (backend = "mock" /\ answers[i].kek = answers[j].kek)
    <3>1. Len(answers) - b <= MaxIndex + 1
      BY <2>6, <2>7
    <3>2. ASSUME NEW m \in Nat, used = 0 .. m - 1
          PROVE  used = 0 .. Cardinality(used) - 1
      <4>1. Cardinality(used) = m
        BY <3>2, FS_Interval
      <4> QED
        BY <3>2, <4>1
    <3>3. CASE backend = "aws"
      <4>1. \A i \in Mine(b) : answers[i].index = i - b - 1
        BY <2>1, <3>1, <3>3 DEF AwsLog
      <4>2. Used(b) = {i - b - 1 : i \in b + 1 .. Len(answers)}
        BY <4>1 DEF Used, Mine
      <4>3. Used(b) = 0 .. (Len(answers) - b) - 1
        <5>1. ASSUME NEW x \in 0 .. (Len(answers) - b) - 1 PROVE x \in Used(b)
          <6>1. x + b + 1 \in b + 1 .. Len(answers) /\ x = (x + b + 1) - b - 1
            BY <2>2
          <6> QED
            BY <4>2, <6>1
        <5>2. ASSUME NEW x \in Used(b) PROVE x \in 0 .. (Len(answers) - b) - 1
          BY <2>2, <4>2
        <5> QED
          BY <5>1, <5>2
      <4>4. Len(answers) - b \in Nat
        BY <2>2
      <4>5. \A i, j \in Mine(b) : answers[i].index = answers[j].index <=> i = j
        BY <2>2, <4>1 DEF Mine
      <4> QED
        BY <2>4, <2>5, <3>2, <3>3, <4>3, <4>4, <4>5
    <3>4. CASE backend = "mock"
      <4>1. /\ \E m \in Nat : Used(b) = 0 .. m - 1
            /\ \A i, j \in Mine(b) :
                 answers[i].index = answers[j].index <=> answers[i].kek = answers[j].kek
        BY <2>1, <3>1, <3>4 DEF MockLog
      <4> QED
        BY <2>4, <2>5, <3>2, <3>4, <4>1
    <3> QED
      BY <3>3, <3>4 DEF CustodyInv, KmsInv
  <2> QED
    BY <2>7 DEF AttestationsNumbered, mine, used
<1> QED
  BY CustodyInvariant, <1>1, PTL

-----------------------------------------------------------------------------
(***************************************************************************)
(* Receipts.  A byte string of at most two blocks is as long as they are.  *)
(***************************************************************************)

LEMMA LengthOfNone ==
  ASSUME NEW width
  PROVE  Length(width, <<>>) = 0
<1> DEFINE Is(f) == f = [k \in 0 .. Len(<<>>) |->
                           IF k = 0 THEN 0 ELSE f[k - 1] + width[<<>>[k].alg]]
           f == CHOOSE h : Is(h)
<1>1. Is([k \in 0 .. 0 |-> 0])
  OBVIOUS
<1>2. Is(f)
  <2> HIDE DEF Is
  <2> QED
    BY <1>1
<1>3. Length(width, <<>>) = f[Len(<<>>)]
  BY Zenon DEF Length
<1> HIDE DEF f
<1> QED
  BY <1>2, <1>3

(* One block.                                                              *)
LEMMA LengthOfOne ==
  ASSUME NEW width, NEW x, width[x.alg] \in Nat
  PROVE  Length(width, <<x>>) = width[x.alg]
<1> DEFINE s == <<x>>
           Is(f) == f = [k \in 0 .. Len(s) |-> IF k = 0 THEN 0 ELSE f[k - 1] + width[s[k].alg]]
           f == CHOOSE h : Is(h)
           g == [k \in 0 .. 1 |-> IF k = 0 THEN 0 ELSE width[x.alg]]
<1>1. Len(s) = 1 /\ s[1] = x
  OBVIOUS
<1>2. Is(g)
  <2>1. \A k \in 0 .. 1 : g[k] = IF k = 0 THEN 0 ELSE g[k - 1] + width[s[k].alg]
    BY <1>1
  <2>2. g = [k \in 0 .. 1 |-> g[k]]
    OBVIOUS
  <2> HIDE DEF g, s
  <2> QED
    BY <1>1, <2>1, <2>2
<1>3. Is(f)
  <2> HIDE DEF Is
  <2> QED
    BY <1>2
<1>4. Length(width, s) = f[Len(s)]
  <2> HIDE DEF s
  <2> QED
    BY Zenon DEF Length
<1> HIDE DEF f
<1>5. f[0] = 0
  <2> HIDE DEF s
  <2> QED
    BY <1>1, <1>3
<1>6. f[1] = f[0] + width[s[1].alg]
  <2> HIDE DEF s
  <2> QED
    BY <1>1, <1>3
<1> QED
  BY <1>1, <1>4, <1>5, <1>6

(* Two blocks.                                                             *)
LEMMA LengthOfTwo ==
  ASSUME NEW width, NEW x, NEW y, width[x.alg] \in Nat, width[y.alg] \in Nat
  PROVE  Length(width, <<x, y>>) = width[x.alg] + width[y.alg]
<1> DEFINE s == <<x, y>>
           Is(f) == f = [k \in 0 .. Len(s) |-> IF k = 0 THEN 0 ELSE f[k - 1] + width[s[k].alg]]
           f == CHOOSE h : Is(h)
           g == [k \in 0 .. 2 |-> IF k = 0 THEN 0 ELSE IF k = 1 THEN width[x.alg]
                                  ELSE width[x.alg] + width[y.alg]]
<1>1. Len(s) = 2 /\ s[1] = x /\ s[2] = y
  OBVIOUS
<1>2. Is(g)
  <2>1. \A k \in 0 .. 2 : g[k] = IF k = 0 THEN 0 ELSE g[k - 1] + width[s[k].alg]
    <3>1. g[0] = 0 /\ g[1] = width[x.alg] /\ g[2] = width[x.alg] + width[y.alg]
      OBVIOUS
    <3> HIDE DEF g, s
    <3>2. \A k \in 0 .. 2 : k = 0 \/ k = 1 \/ k = 2
      OBVIOUS
    <3> QED
      BY <1>1, <3>1, <3>2
  <2>2. g = [k \in 0 .. 2 |-> g[k]]
    OBVIOUS
  <2> HIDE DEF g, s
  <2> QED
    BY <1>1, <2>1, <2>2
<1>3. Is(f)
  <2> HIDE DEF Is
  <2> QED
    BY <1>2
<1>4. Length(width, s) = f[Len(s)]
  <2> HIDE DEF s
  <2> QED
    BY Zenon DEF Length
<1> HIDE DEF f
<1>5. f[0] = 0 /\ f[1] = f[0] + width[s[1].alg] /\ f[2] = f[1] + width[s[2].alg]
  <2> HIDE DEF s
  <2> QED
    BY <1>1, <1>3
<1> QED
  BY <1>1, <1>4, <1>5

(* Blocks put together.                                                    *)
LEMMA TwoBlocks ==
  ASSUME NEW x, NEW y
  PROVE  <<x>> \o <<y>> = <<x, y>> /\ <<x>> \o <<>> = <<x>>
<1> DEFINE S == {x, y}
           a == <<x>>
           b == <<y>>
           c == <<x, y>>
<1>1. a \in Seq(S) /\ b \in Seq(S) /\ c \in Seq(S)
  OBVIOUS
<1>2. /\ Len(a) = 1 /\ Len(b) = 1 /\ Len(c) = 2
      /\ a[1] = x /\ b[1] = y /\ c[1] = x /\ c[2] = y
  OBVIOUS
<1> HIDE DEF a, b, c, S
<1>3. /\ a \o b \in Seq(S) /\ Len(a \o b) = 2
      /\ (a \o b)[1] = x /\ (a \o b)[2] = y
  <2>1. /\ a \o b \in Seq(S) /\ Len(a \o b) = Len(a) + Len(b)
        /\ \A i \in 1 .. Len(a) + Len(b) :
             (a \o b)[i] = IF i <= Len(a) THEN a[i] ELSE b[i - Len(a)]
    BY <1>1, ConcatProperties
  <2> QED
    BY <1>2, <2>1
<1>4. \A i \in 1 .. 2 : (a \o b)[i] = c[i]
  <2>1. \A i \in 1 .. 2 : i = 1 \/ i = 2
    OBVIOUS
  <2> QED
    BY <1>2, <1>3, <2>1
<1>5. a \o b = c
  BY <1>1, <1>2, <1>3, <1>4, SeqEqual
<1>6. a \o <<>> = a
  BY <1>1
<1> QED
  BY <1>5, <1>6 DEF a, b, c

-----------------------------------------------------------------------------
(* The lengths of the keys and of the pieces an auditor may be handed.     *)
EdKey == PublicKey("Ed25519")
PqKey == PublicKey("MlDsa65")

(* The four keys are told apart by length, save the two joined ones.       *)
LEMMA KeyLengths ==
  /\ KeyLength(EdKey) = 32 /\ KeyLength(PqKey) = 1952
  /\ EdKey \o PqKey = <<EdKey[1], PqKey[1]>> /\ PqKey \o EdKey = <<PqKey[1], EdKey[1]>>
  /\ KeyLength(EdKey \o PqKey) = 1984 /\ KeyLength(PqKey \o EdKey) = 1984
<1> DEFINE e == [alg |-> "Ed25519", by |-> "auditee"]
           p == [alg |-> "MlDsa65", by |-> "auditee"]
<1>1. EdKey = <<e>> /\ PqKey = <<p>>
  BY DEF EdKey, PqKey, PublicKey
<1>2. KeyWidth[e.alg] = 32 /\ KeyWidth[p.alg] = 1952
  BY DEF KeyWidth
<1> HIDE DEF e, p
<1>3. EdKey \o PqKey = <<e, p>> /\ PqKey \o EdKey = <<p, e>> /\ EdKey[1] = e /\ PqKey[1] = p
  BY <1>1, TwoBlocks
<1>4. Length(KeyWidth, <<e>>) = 32 /\ Length(KeyWidth, <<p>>) = 1952
  BY <1>2, LengthOfOne
<1>5. Length(KeyWidth, <<e, p>>) = 32 + 1952 /\ Length(KeyWidth, <<p, e>>) = 1952 + 32
  BY <1>2, LengthOfTwo
<1>6. KeyLength(EdKey) = 32 /\ KeyLength(PqKey) = 1952
  BY <1>1, <1>4 DEF KeyLength
<1>7. KeyLength(EdKey \o PqKey) = 1984 /\ KeyLength(PqKey \o EdKey) = 1984
  BY <1>3, <1>5 DEF KeyLength
<1> HIDE DEF EdKey, PqKey
<1> QED
  BY <1>3, <1>6, <1>7

(* A piece is nothing or one block of one of the schemes.                  *)
IsPiece(s) == s = <<>> \/ \E x : s = <<x>> /\ x.alg \in {"Ed25519", "MlDsa65"}

(* Whatever Pieces holds is one.                                           *)
LEMMA PiecesArePieces ==
  ASSUME NEW msg, NEW s \in Pieces(msg)
  PROVE  IsPiece(s)
<1> DEFINE Block(alg, by, m) == [alg |-> alg, by |-> by, msg |-> m]
<1>1. s = <<>> \/ \E alg \in {"Ed25519", "MlDsa65"} : \E by, m : s = <<Block(alg, by, m)>>
  BY Zenon DEF Pieces, SignedBy
<1> QED
  BY <1>1 DEF IsPiece

(* How long pieces are, and a classical one with a piece after it.         *)
LEMMA PieceLengths ==
  /\ SigLength(<<>>) = 0
  /\ \A x : x.alg = "Ed25519" => SigLength(<<x>>) = 64
  /\ \A x : x.alg = "MlDsa65" => SigLength(<<x>>) = 3309
  /\ \A x, y : x.alg = "Ed25519" /\ y.alg = "Ed25519" => SigLength(<<x, y>>) = 128
  /\ \A x, y : x.alg = "Ed25519" /\ y.alg = "MlDsa65" => SigLength(<<x, y>>) = 3373
<1>1. SigWidth["Ed25519"] = 64 /\ SigWidth["MlDsa65"] = 3309
  BY DEF SigWidth
<1> QED
  BY <1>1, LengthOfNone, LengthOfOne, LengthOfTwo DEF SigLength

-----------------------------------------------------------------------------
Receipt(alg, msg) == SignedBy(alg, "auditee", msg)

(* One scheme accepts under its own key exactly what its owner signed.     *)
LEMMA ChecksReceipt ==
  ASSUME NEW alg, NEW msg, NEW sig
  PROVE  Checks(alg, PublicKey(alg), DomainSeparated(msg), sig) <=> sig = Receipt(alg, msg)
<1>1. PublicKey(alg)[1] = [alg |-> alg, by |-> "auditee"]
  BY DEF PublicKey
<1>2. PublicKey(alg)[1].alg = alg /\ PublicKey(alg)[1].by = "auditee"
  BY <1>1
<1> QED
  BY <1>2, Zenon DEF Checks, Receipt, SignedBy, Garbled

(* What the auditee signs is as long as its scheme makes it.               *)
LEMMA ReceiptLengths ==
  ASSUME NEW msg
  PROVE  SigLength(Receipt("Ed25519", msg)) = 64 /\ SigLength(Receipt("MlDsa65", msg)) = 3309
<1> DEFINE e == [alg |-> "Ed25519", by |-> "auditee", msg |-> DomainSeparated(msg)]
           p == [alg |-> "MlDsa65", by |-> "auditee", msg |-> DomainSeparated(msg)]
<1>1. Receipt("Ed25519", msg) = <<e>> /\ Receipt("MlDsa65", msg) = <<p>>
  BY DEF Receipt, SignedBy
<1>2. e.alg = "Ed25519" /\ p.alg = "MlDsa65"
  OBVIOUS
<1> HIDE DEF e, p
<1> QED
  BY <1>1, <1>2, PieceLengths

(* verify_ed25519 under the auditee's key of that scheme.                  *)
LEMMA Ed25519Ok ==
  ASSUME NEW msg, NEW sig
  PROVE  VerifyEd25519(EdKey, DomainSeparated(msg), sig) = "Ok"
           <=> sig = Receipt("Ed25519", msg)
<1>1. VerifyEd25519(EdKey, DomainSeparated(msg), sig) = "Ok"
        <=> SigLength(sig) = 64 /\ Checks("Ed25519", EdKey, DomainSeparated(msg), sig)
  BY KeyLengths DEF VerifyEd25519, KeyWidth, SigWidth
<1> QED
  BY <1>1, ChecksReceipt, ReceiptLengths DEF EdKey

(* verify_ml_dsa65 under the auditee's key of that scheme.                 *)
LEMMA MlDsa65Ok ==
  ASSUME NEW features, NEW msg, NEW sig
  PROVE  VerifyMlDsa65(features, PqKey, DomainSeparated(msg), sig) = "Ok"
           <=> "tier-2-pqc-receipts" \in features /\ sig = Receipt("MlDsa65", msg)
<1>1. VerifyMlDsa65(features, PqKey, DomainSeparated(msg), sig) = "Ok"
        <=> /\ "tier-2-pqc-receipts" \in features
            /\ SigLength(sig) = 3309 /\ Checks("MlDsa65", PqKey, DomainSeparated(msg), sig)
  BY KeyLengths DEF VerifyMlDsa65, KeyWidth, SigWidth
<1> QED
  BY <1>1, ChecksReceipt, ReceiptLengths DEF PqKey

(* Neither accepts under a key of another length.                          *)
LEMMA WrongKeys ==
  ASSUME NEW features, NEW m, NEW key, NEW sig
  PROVE  /\ VerifyEd25519(key, m, sig) = "Ok" => KeyLength(key) = 32
         /\ VerifyMlDsa65(features, key, m, sig) = "Ok" => KeyLength(key) = 1952
BY DEF VerifyEd25519, VerifyMlDsa65, KeyWidth

(* What the Hybrid arm is to accept.                                       *)
BothHalves(features, key, msg, classical, slot) ==
  /\ "tier-2-pqc-receipts" \in features
  /\ key = EdKey \o PqKey
  /\ classical = Receipt("Ed25519", msg) /\ slot = Receipt("MlDsa65", msg)

(* The Hybrid arm, whose classical half is known to be one block of that   *)
(* scheme: each half must be what it should be, and in its place.          *)
LEMMA HybridOk ==
  ASSUME NEW features, NEW msg, NEW key \in PublicKeys, NEW x, x.alg = "Ed25519",
         NEW slot, IsPiece(slot)
  PROVE  VerifyHybrid(features, key, DomainSeparated(msg), <<x>> \o slot) = "Ok" <=>
           BothHalves(features, key, msg, <<x>>, slot)
<1> DEFINE m == DomainSeparated(msg)
           sig == <<x>> \o slot
           genuine == /\ "tier-2-pqc-receipts" \in features
                      /\ key = EdKey \o PqKey
                      /\ <<x>> = Receipt("Ed25519", msg) /\ slot = Receipt("MlDsa65", msg)
<1> SUFFICES VerifyHybrid(features, key, m, sig) = "Ok" <=> genuine
  BY DEF BothHalves
<1>1. VerifyHybrid(features, key, m, sig) = "Ok" <=>
        /\ KeyLength(key) = 1984 /\ SigLength(sig) = 3373
        /\ VerifyEd25519(First(key), m, First(sig)) = "Ok"
        /\ VerifyMlDsa65(features, Rest(key), m, Rest(sig)) = "Ok"
  BY DEF VerifyHybrid, KeyWidth, SigWidth
<1> HIDE DEF sig
<1>2. CASE slot = <<>>
  <2>1. sig = <<x>>
    BY <1>2, TwoBlocks DEF sig
  <2>2. SigLength(sig) = 64
    BY <2>1, PieceLengths
  <2>3. slot # Receipt("MlDsa65", msg)
    BY <1>2, PieceLengths, ReceiptLengths
  <2> QED
    BY <1>1, <2>2, <2>3 DEF sig
<1>3. ASSUME NEW y, slot = <<y>>, y.alg \in {"Ed25519", "MlDsa65"}
      PROVE  VerifyHybrid(features, key, m, sig) = "Ok" <=> genuine
  <2>1. sig = <<x, y>>
    BY <1>3, TwoBlocks DEF sig
  <2>2. First(sig) = <<x>> /\ Rest(sig) = <<y>>
    BY <2>1 DEF First, Rest
  <2>3. CASE y.alg = "Ed25519"
    <3>1. SigLength(sig) = 128
      BY <2>1, <2>3, PieceLengths
    <3>2. SigLength(slot) = 64
      BY <1>3, <2>3, PieceLengths
    <3> QED
      BY <1>1, <3>1, <3>2, ReceiptLengths
  <2>4. CASE y.alg = "MlDsa65"
    <3>1. SigLength(sig) = 3373
      BY <2>1, <2>4, PieceLengths
    <3>2. CASE key = EdKey \o PqKey
      <4>1. First(key) = EdKey /\ Rest(key) = PqKey
        <5>1. key = <<EdKey[1], PqKey[1]>>
          BY <3>2, KeyLengths
        <5>2. EdKey = <<EdKey[1]>> /\ PqKey = <<PqKey[1]>> /\ EdKey[1].alg = "Ed25519"
          BY DEF EdKey, PqKey, PublicKey
        <5> HIDE DEF EdKey, PqKey
        <5> QED
          BY <5>1, <5>2 DEF First, Rest
      <4> QED
        BY <1>1, <1>3, <2>2, <3>1, <3>2, <4>1, KeyLengths, Ed25519Ok, MlDsa65Ok
    <3>3. CASE key = PqKey \o EdKey
      <4>1. key = <<PqKey[1], EdKey[1]>> /\ PqKey[1].alg = "MlDsa65"
        BY <3>3, KeyLengths DEF PqKey, PublicKey
      <4>2. First(key) = <<[EdKey[1] EXCEPT !.by = Garbled]>>
        BY <4>1 DEF First
      <4>3. First(key)[1].by = Garbled
        BY <4>2 DEF EdKey, PublicKey
      <4>4. VerifyEd25519(First(key), m, First(sig)) # "Ok"
        BY <4>3 DEF VerifyEd25519, Checks
      <4>5. EdKey \o PqKey # PqKey \o EdKey
        <5>1. (EdKey \o PqKey)[1].alg = "Ed25519" /\ (PqKey \o EdKey)[1].alg = "MlDsa65"
          BY KeyLengths DEF EdKey, PqKey, PublicKey
        <5> QED
          BY <5>1
      <4>6. ~genuine
        BY <3>3, <4>5
      <4> HIDE DEF genuine, m
      <4> QED
        BY <1>1, <4>4, <4>6
    <3>4. CASE key \in {EdKey, PqKey}
      <4>1. KeyLength(key) # 1984
        BY <3>4, KeyLengths
      <4> QED
        BY <1>1, <4>1, KeyLengths
    <3> QED
      BY <3>2, <3>3, <3>4 DEF PublicKeys, EdKey, PqKey
  <2> QED
    BY <1>3, <2>3, <2>4
<1> QED
  BY <1>2, <1>3 DEF IsPiece, sig

-----------------------------------------------------------------------------
(* What a receipt consists of under each class.                            *)
LEMMA GenuineIs ==
  ASSUME NEW class \in Classes, NEW key, NEW msg, NEW classical, NEW pqc
  PROVE  Genuine(class, key, msg, classical, pqc) <=>
           \/ /\ class = "Ed25519" /\ key = EdKey
              /\ classical = Receipt("Ed25519", msg) /\ pqc = {}
           \/ /\ class = "MlDsa65" /\ key = PqKey
              /\ classical = <<>> /\ pqc = {Receipt("MlDsa65", msg)}
           \/ /\ class = "Hybrid" /\ key = EdKey \o PqKey
              /\ classical = Receipt("Ed25519", msg) /\ pqc = {Receipt("MlDsa65", msg)}
<1>1. EdKey \o <<>> = EdKey
  BY TwoBlocks DEF EdKey, PublicKey
<1>2. <<>> \o PqKey = PqKey
  <2> DEFINE p == [alg |-> "MlDsa65", by |-> "auditee"]
  <2>1. PqKey \in Seq({p})
    BY DEF PqKey, PublicKey
  <2> HIDE DEF p
  <2> QED
    BY <2>1, ConcatEmptySeq
<1>3. CASE class = "None"
  BY <1>3 DEF Genuine
<1>4. CASE class = "Ed25519"
  BY <1>1, <1>4 DEF Genuine, EdKey, Receipt
<1>5. CASE class = "MlDsa65"
  BY <1>2, <1>5 DEF Genuine, PqKey, Receipt
<1>6. CASE class = "Hybrid"
  BY <1>6 DEF Genuine, EdKey, PqKey, Receipt
<1> QED
  BY <1>3, <1>4, <1>5, <1>6 DEF Classes

(* A key of the length of one scheme is the key of that scheme.            *)
LEMMA KeyOfLength ==
  ASSUME NEW key \in PublicKeys
  PROVE  (KeyLength(key) = 32 => key = EdKey) /\ (KeyLength(key) = 1952 => key = PqKey)
<1>1. key \in {EdKey, PqKey, EdKey \o PqKey, PqKey \o EdKey}
  BY DEF PublicKeys, EdKey, PqKey
<1> QED
  BY <1>1, KeyLengths

(* A piece of the length of an Ed25519 signature is one block of it.       *)
LEMMA PieceOfLength ==
  ASSUME NEW s, IsPiece(s)
  PROVE  /\ SigLength(s) = 0 <=> s = <<>>
         /\ SigLength(s) = 64 <=> \E x : s = <<x>> /\ x.alg = "Ed25519"
<1>1. CASE s = <<>>
  <2>1. SigLength(s) = 0 /\ \A x : s # <<x>>
    BY <1>1, PieceLengths
  <2> QED
    BY <1>1, <2>1
<1>2. ASSUME NEW x, s = <<x>>, x.alg \in {"Ed25519", "MlDsa65"}
      PROVE  /\ SigLength(s) = 0 <=> s = <<>>
             /\ SigLength(s) = 64 <=> \E y : s = <<y>> /\ y.alg = "Ed25519"
  <2>1. \A y : s = <<y>> => y = x
    BY <1>2
  <2>2. s # <<>>
    BY <1>2
  <2>3. SigLength(s) = IF x.alg = "Ed25519" THEN 64 ELSE 3309
    BY <1>2, PieceLengths
  <2> QED
    BY <1>2, <2>1, <2>2, <2>3
<1> QED
  BY <1>1, <1>2 DEF IsPiece

(* verify_ed25519 and verify_ml_dsa65 under whatever key of an auditor.    *)
LEMMA SchemesOk ==
  ASSUME NEW features, NEW key \in PublicKeys, NEW msg, NEW sig
  PROVE  /\ VerifyEd25519(key, DomainSeparated(msg), sig) = "Ok" <=>
              key = EdKey /\ sig = Receipt("Ed25519", msg)
         /\ VerifyMlDsa65(features, key, DomainSeparated(msg), sig) = "Ok" <=>
              /\ "tier-2-pqc-receipts" \in features
              /\ key = PqKey /\ sig = Receipt("MlDsa65", msg)
<1> DEFINE m == DomainSeparated(msg)
<1>1. VerifyEd25519(key, m, sig) = "Ok" <=> key = EdKey /\ sig = Receipt("Ed25519", msg)
  <2>1. CASE key = EdKey
    BY <2>1, Ed25519Ok
  <2>2. CASE key # EdKey
    <3>1. VerifyEd25519(key, m, sig) # "Ok"
      <4> HIDE DEF m
      <4> QED
        BY <2>2, WrongKeys, KeyOfLength
    <3> QED
      BY <2>2, <3>1
  <2> QED
    BY <2>1, <2>2
<1>2. VerifyMlDsa65(features, key, m, sig) = "Ok" <=>
        "tier-2-pqc-receipts" \in features /\ key = PqKey /\ sig = Receipt("MlDsa65", msg)
  <2>1. CASE key = PqKey
    BY <2>1, MlDsa65Ok
  <2>2. CASE key # PqKey
    <3>1. VerifyMlDsa65(features, key, m, sig) # "Ok"
      <4> HIDE DEF m
      <4> QED
        BY <2>2, WrongKeys, KeyOfLength
    <3> QED
      BY <2>2, <3>1
  <2> QED
    BY <2>1, <2>2
<1> QED
  BY <1>1, <1>2

(* The Hybrid arm on two pieces, the first as long as an Ed25519 block.    *)
LEMMA HybridPieces ==
  ASSUME NEW features, NEW msg, NEW key \in PublicKeys,
         NEW classical, IsPiece(classical), SigLength(classical) = 64,
         NEW slot, IsPiece(slot)
  PROVE  VerifyHybrid(features, key, DomainSeparated(msg), classical \o slot) = "Ok" <=>
           BothHalves(features, key, msg, classical, slot)
<1>1. PICK x : classical = <<x>> /\ x.alg = "Ed25519"
  BY PieceOfLength
<1>2. x.alg = "Ed25519"
  BY <1>1
<1>3. VerifyHybrid(features, key, DomainSeparated(msg), <<x>> \o slot) = "Ok" <=>
        BothHalves(features, key, msg, <<x>>, slot)
  BY <1>2, HybridOk
<1> QED
  BY <1>1, <1>3

(* verify_receipt_envelope accepts a genuine receipt and nothing else.     *)
LEMMA EnvelopeOk ==
  ASSUME NEW features, NEW class \in Classes, NEW key \in PublicKeys, NEW msg,
         NEW classical, IsPiece(classical),
         NEW pqc, pqc = {} \/ \E p : pqc = {p} /\ IsPiece(p)
  PROVE  VerifyReceiptEnvelope(features, class, key, msg, classical, pqc) = "Ok" <=>
           /\ Genuine(class, key, msg, classical, pqc)
           /\ class # "Ed25519" => "tier-2-pqc-receipts" \in features
<1> DEFINE m == DomainSeparated(msg)
           slot == CHOOSE sig \in pqc : TRUE
           verified == VerifyReceiptEnvelope(features, class, key, msg, classical, pqc)
           genuine == Genuine(class, key, msg, classical, pqc)
           carries == "tier-2-pqc-receipts" \in features
           ed == Receipt("Ed25519", msg)
           pq == Receipt("MlDsa65", msg)
<1> SUFFICES verified = "Ok" <=> genuine /\ (class # "Ed25519" => carries)
  OBVIOUS
<1>a. /\ VerifyEd25519(key, m, classical) = "Ok" <=> key = EdKey /\ classical = ed
      /\ VerifyMlDsa65(features, key, m, slot) = "Ok" <=>
           carries /\ key = PqKey /\ slot = pq
  <2> HIDE DEF slot
  <2> QED
    BY SchemesOk
<1>b. pqc # {} => (slot = pq <=> pqc = {pq})
  <2> HIDE DEF pq
  <2>1. ASSUME NEW p, pqc = {p} PROVE slot = p
    BY <2>1
  <2> HIDE DEF slot
  <2> QED
    BY <2>1
<1>c. pqc # {} => IsPiece(slot)
  <2>1. ASSUME NEW p, pqc = {p} PROVE slot = p
    BY <2>1
  <2> HIDE DEF slot
  <2> QED
    BY <2>1
<1>1. CASE class = "None"
  <2>1. verified # "Ok"
    BY <1>1 DEF VerifyReceiptEnvelope, VerifyAttestation
  <2>2. ~genuine
    BY <1>1, GenuineIs
  <2> HIDE DEF verified, genuine, carries
  <2> QED
    BY <1>1, <2>1, <2>2
<1>2. CASE class = "Ed25519"
  <2>1. verified = "Ok" <=> pqc = {} /\ VerifyEd25519(key, m, classical) = "Ok"
    BY <1>2 DEF VerifyReceiptEnvelope, VerifyAttestation
  <2>2. genuine <=> key = EdKey /\ classical = ed /\ pqc = {}
    BY <1>2, GenuineIs
  <2> HIDE DEF verified, genuine, m, slot, carries, ed, pq
  <2> QED
    BY <1>2, <1>a, <2>1, <2>2
<1>3. CASE class = "MlDsa65"
  <2>1. verified = "Ok" <=> /\ pqc # {} /\ SigLength(classical) = 0
                            /\ VerifyMlDsa65(features, key, m, slot) = "Ok"
    BY <1>3 DEF VerifyReceiptEnvelope, VerifyAttestation
  <2>2. genuine <=> key = PqKey /\ classical = <<>> /\ pqc = {pq}
    BY <1>3, GenuineIs
  <2>3. SigLength(classical) = 0 <=> classical = <<>>
    BY PieceOfLength
  <2> HIDE DEF verified, genuine, m, slot, carries, ed, pq
  <2> QED
    BY <1>3, <1>a, <1>b, <2>1, <2>2, <2>3
<1>4. CASE class = "Hybrid"
  <2>1. verified = "Ok" <=> /\ pqc # {} /\ SigLength(classical) = 64
                            /\ VerifyHybrid(features, key, m, classical \o slot) = "Ok"
    BY <1>4 DEF VerifyReceiptEnvelope, VerifyAttestation, SigWidth
  <2>2. genuine <=> key = EdKey \o PqKey /\ classical = ed /\ pqc = {pq}
    BY <1>4, GenuineIs
  <2>3. ASSUME pqc # {}, SigLength(classical) = 64
        PROVE  VerifyHybrid(features, key, m, classical \o slot) = "Ok" <=>
                 BothHalves(features, key, msg, classical, slot)
    <3>1. IsPiece(slot)
      BY <1>c, <2>3
    <3> HIDE DEF slot
    <3> QED
      BY <2>3, <3>1, HybridPieces
  <2>4. classical = ed => SigLength(classical) = 64
    BY ReceiptLengths
  <2>5. BothHalves(features, key, msg, classical, slot) <=>
          carries /\ key = EdKey \o PqKey /\ classical = ed /\ slot = pq
    BY Zenon DEF BothHalves
  <2> HIDE DEF verified, genuine, m, slot, carries, ed, pq
  <2> QED
    BY <1>4, <1>b, <2>1, <2>2, <2>3, <2>4, <2>5
<1> HIDE DEF verified, genuine, carries
<1> QED
  BY <1>1, <1>2, <1>3, <1>4 DEF Classes

(* A process runs under a class that validate lets through.                *)
ClassInv == \A p \in process : p.manifest.signature_class \in Classes

(* Boot alone sets it, and Stop clears it.                                 *)
LEMMA ClassInvHolds == Spec => []ClassInv
<1>1. Init => ClassInv
  BY DEF Init, ClassInv
<1>2. ClassInv /\ [Next]_vars => ClassInv'
  <2> SUFFICES ASSUME ClassInv, [Next]_vars PROVE ClassInv'
    OBVIOUS
  <2>1. ASSUME NEW start \in Starts, Boot(start) PROVE ClassInv'
    BY <2>1 DEF Boot, Validates, ClassInv
  <2>2. CASE Stop
    BY <2>2 DEF Stop, ClassInv
  <2>3. ASSUME UNCHANGED process PROVE ClassInv'
    BY <2>3 DEF ClassInv
  <2>4. \/ \E start \in Starts : Boot(start)
        \/ Stop
        \/ UNCHANGED process
    BY DEF Next, BootRefused, RotateKek, Refused, RegisterKek, GenerateDek, DeleteCached,
       DeleteFresh, DeleteScheduled, DeleteAnswerLost, WrapDek, UnwrapDek, DropDek,
       Encrypt, vars
  <2> QED
    BY <2>1, <2>2, <2>3, <2>4
<1> QED
  BY <1>1, <1>2, PTL DEF Spec

(***************************************************************************)
(* verify_receipt_envelope accepts a receipt exactly when every half that  *)
(* the class of the running manifest requires signs this deletion, under   *)
(* the right key and in its own slot: for any KEKs and deletions, classes, *)
(* builds, and whatever of the pieces of two deletions is put where.       *)
(***************************************************************************)
THEOREM ReceiptsBind == Spec => []ReceiptsBindOneDeletion
<1>1. ClassInv => ReceiptsBindOneDeletion
  <2> SUFFICES ASSUME ClassInv, Up,
                      NEW msg, NEW key \in PublicKeys, NEW classical \in Pieces(msg),
                      NEW pqc \in {{}} \cup {{p} : p \in Pieces(msg)}
               PROVE  VerifyReceiptEnvelope(Features, Running.manifest.signature_class,
                                            key, msg, classical, pqc) = "Ok" <=>
                        /\ Genuine(Running.manifest.signature_class, key, msg, classical, pqc)
                        /\ Running.manifest.signature_class # "Ed25519"
                             => "tier-2-pqc-receipts" \in Features
    BY DEF ReceiptsBindOneDeletion
  <2>1. Running.manifest.signature_class \in Classes
    BY DEF ClassInv, Running, Up
  <2>2. IsPiece(classical) /\ (pqc = {} \/ \E p : pqc = {p} /\ IsPiece(p))
    BY PiecesArePieces
  <2> DEFINE class == Running.manifest.signature_class
  <2> HIDE DEF class
  <2>3. VerifyReceiptEnvelope(Features, class, key, msg, classical, pqc) = "Ok" <=>
          /\ Genuine(class, key, msg, classical, pqc)
          /\ class # "Ed25519" => "tier-2-pqc-receipts" \in Features
    <3>1. class \in Classes
      BY <2>1 DEF class
    <3> QED
      BY <2>2, <3>1, EnvelopeOk
  <2> QED
    BY <2>3 DEF class
<1> QED
  BY <1>1, ClassInvHolds, PTL
=============================================================================
