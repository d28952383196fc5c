------------------------ MODULE ErasureCascadeProofs ------------------------
(***************************************************************************)
(* What holds of ErasureCascade for every set of users and keys, every     *)
(* length of the event stream, every last log index and any number of      *)
(* failures and crashes.                                                   *)
(***************************************************************************)
EXTENDS ErasureCascade, TLAPS

(* UserErasureCompleted, before it is stamped.                             *)
Completion == [user : Users, attestation : Attestations, regions : {0, 1}]

(* What is queued or has been handed out.                                  *)
Completed == receipts \cup Range(completions)

TypeOK ==
  /\ live \subseteq Deks
  /\ DOMAIN shredded \subseteq Deks
  /\ nextLogIndex \in 0 .. MaxLogIndex
  /\ rows = [u \in DOMAIN rows |-> DekOf[u]]
  /\ DOMAIN rows \subseteq Users
  /\ tombstoned \subseteq Users
  /\ stream \in Seq(Users)
  /\ cursor \in 0 .. Len(stream)
  /\ completions \in Seq(Completion)
  /\ receipts \subseteq Completion
  /\ crashes \in Nat

(* The class of every attestation the configured shredder issues.          *)
Class == IF Signing THEN "MlDsa65" ELSE "None"

(***************************************************************************)
(* The shredder: a key is never both live and shredded, its attestation    *)
(* names it, and the log indices handed out so far are behind the counter  *)
(* and differ from key to key.                                             *)
(***************************************************************************)
ShredderInv ==
  /\ live \cap DOMAIN shredded = {}
  /\ \A d \in DOMAIN shredded :
       shredded[d] \in [dek : {d}, class : {Class}, log : 0 .. nextLogIndex - 1]
  /\ \A d, e \in DOMAIN shredded : shredded[d].log = shredded[e].log => d = e

(***************************************************************************)
(* The observer: what it reports is about users whose rows are tombstoned, *)
(* under the attestation the shredder keeps for their key or none.         *)
(***************************************************************************)
CompletedInv ==
  /\ tombstoned \cap DOMAIN rows = {}
  /\ \A c \in Completed :
       /\ c.user \in tombstoned
       /\ c.attestation # Synthetic =>
            /\ DekOf[c.user] \in DOMAIN shredded
            /\ c.attestation = shredded[DekOf[c.user]]

CascadeInv == TypeOK /\ ShredderInv /\ CompletedInv

-----------------------------------------------------------------------------
(***************************************************************************)
(* No step of the shredder takes back an attestation.                      *)
(***************************************************************************)
AttestationsKept ==
  /\ DOMAIN shredded \subseteq DOMAIN shredded'
  /\ \A d \in DOMAIN shredded : shredded'[d] = shredded[d]

ShredderTypeOK ==
  /\ live \subseteq Deks
  /\ DOMAIN shredded \subseteq Deks
  /\ nextLogIndex \in 0 .. MaxLogIndex

(***************************************************************************)
(* A shred that succeeds, fresh or from the cache, leaves the key          *)
(* destroyed with the attestation it returned cached, and is no            *)
(* placeholder.                                                            *)
(***************************************************************************)
LEMMA ShredOkDestroys ==
  ASSUME ShredderTypeOK, ShredderInv, NEW d \in Deks, NEW att, ShredOk(d, att)
  PROVE  /\ ShredderTypeOK' /\ ShredderInv' /\ AttestationsKept
         /\ live' \subseteq live /\ d \notin live'
         /\ live \ live' \subseteq DOMAIN shredded'
         /\ d \in DOMAIN shredded' /\ shredded'[d] = att
<1> USE CascadeAssumption DEF ShredderTypeOK, ShredderInv, AttestationsKept, shredder
<1>1. CASE ShredCached(d, att)
  BY <1>1 DEF ShredCached
<1>2. CASE ShredFresh(d, att)
  <2>1. /\ att \in [dek : {d}, class : {Class}, log : 0 .. nextLogIndex' - 1]
        /\ att.log = nextLogIndex
        /\ nextLogIndex' = nextLogIndex + 1
        /\ nextLogIndex' \in 0 .. MaxLogIndex
    BY <1>2 DEF ShredFresh, IssueAttestation, Class
  <2>2. /\ DOMAIN shredded' = DOMAIN shredded \cup {d}
        /\ shredded'[d] = att
        /\ \A e \in DOMAIN shredded : e # d /\ shredded'[e] = shredded[e]
    BY <1>2 DEF ShredFresh
  <2>3. live' = live \ {d}
    BY <1>2 DEF ShredFresh
  <2>4. \A e \in DOMAIN shredded :
          /\ shredded'[e] \in [dek : {e}, class : {Class}, log : 0 .. nextLogIndex' - 1]
          /\ shredded'[e].log # att.log
    BY <2>1, <2>2
  <2> QED
    BY <2>1, <2>2, <2>3, <2>4
<1> QED
  BY <1>1, <1>2 DEF ShredOk

(***************************************************************************)
(* A shred that fails may cost the key its liveness, never an attestation. *)
(***************************************************************************)
LEMMA ShredFailsKeeps ==
  ASSUME ShredderTypeOK, ShredderInv, NEW d, ShredFails(d)
  PROVE  /\ ShredderTypeOK' /\ ShredderInv' /\ AttestationsKept
         /\ nextLogIndex < MaxLogIndex => live' = live
BY CascadeAssumption
   DEF ShredFails, ShredRefused, ShredOverflows, ShredderTypeOK, ShredderInv,
       AttestationsKept, shredder

(* What the shredder does not touch stays as it is.                        *)
LEMMA ShredderUnchanged ==
  ASSUME ShredderTypeOK, ShredderInv, UNCHANGED shredder
  PROVE  ShredderTypeOK' /\ ShredderInv' /\ AttestationsKept /\ live' = live
BY DEF ShredderTypeOK, ShredderInv, AttestationsKept, shredder

(***************************************************************************)
(* What every step of the system does to the shredder.  A key stops being  *)
(* live without an attestation only at the last log index.                 *)
(***************************************************************************)
LEMMA ShredderStep ==
  ASSUME TypeOK, ShredderInv, [Next]_vars
  PROVE  /\ ShredderTypeOK' /\ ShredderInv' /\ AttestationsKept
         /\ nextLogIndex < MaxLogIndex =>
              live \ live' \subseteq DOMAIN shredded'
<1>0. ShredderTypeOK
  BY DEF TypeOK, ShredderTypeOK
<1>1. ASSUME NEW d \in Deks, RegisterDek(d)
      PROVE  ShredderTypeOK' /\ ShredderInv' /\ AttestationsKept /\ live \subseteq live'
  BY <1>0, <1>1 DEF RegisterDek, ShredderTypeOK, ShredderInv, AttestationsKept
<1>2. HasRows(Incoming) /\ cursor < Len(stream) => rows[Incoming] \in Deks
  BY CascadeAssumption DEF HasRows, TypeOK
<1>3. CASE CascadeWithKey
  BY <1>0, <1>2, <1>3, ShredOkDestroys DEF CascadeWithKey
<1>4. CASE CascadeStopsAtTombstone
  BY <1>0, <1>2, <1>4, ShredOkDestroys, ShredderUnchanged DEF CascadeStopsAtTombstone
<1>5. CASE CascadeStopsAtShred
  BY <1>0, <1>5, ShredFailsKeeps DEF CascadeStopsAtShred
<1>6. CASE UNCHANGED shredder
  BY <1>0, <1>6, ShredderUnchanged
<1> QED
  BY <1>1, <1>3, <1>4, <1>5, <1>6
     DEF Next, Cascade, UpsertRows, ScheduleErasure, CascadeWithoutKey, Drain,
         Crash, vars

-----------------------------------------------------------------------------
(***************************************************************************)
(* Completing an erasure: the rows are gone and the queue has grown by one *)
(* completion, under the placeholder or the attestation of the key.        *)
(***************************************************************************)
LEMMA CompleteKeeps ==
  ASSUME TypeOK, CompletedInv, AttestationsKept,
         NEW u \in Users, NEW att \in Attestations, NEW n \in {0, 1},
         cursor < Len(stream), UNCHANGED <<stream, receipts>>,
         TombstoneRows(u), Complete(u, att, n),
         att # Synthetic => DekOf[u] \in DOMAIN shredded' /\ shredded'[DekOf[u]] = att
  PROVE  /\ CompletedInv'
         /\ completions' \in Seq(Completion)
         /\ cursor' \in 0 .. Len(stream)
<1> DEFINE c == [user |-> u, attestation |-> att, regions |-> n]
<1>1. c \in Completion /\ completions' = Append(completions, c)
  BY DEF Complete, Completion
<1>2. completions \in Seq(Completion)
  BY DEF TypeOK
<1>3. Range(completions') = Range(completions) \cup {c}
  <2> HIDE DEF c
  <2>1. /\ DOMAIN completions' = 1 .. Len(completions) + 1
        /\ DOMAIN completions = 1 .. Len(completions)
        /\ Len(completions) \in Nat
        /\ \A i \in 1 .. Len(completions) : completions'[i] = completions[i]
        /\ completions'[Len(completions) + 1] = c
    BY <1>1, <1>2
  <2> QED
    BY <2>1 DEF Range
<1>4. Completed' = Completed \cup {c}
  BY <1>3 DEF Completed
<1>5. tombstoned' = tombstoned \cup {u} /\ DOMAIN rows' = DOMAIN rows \ {u}
  BY DEF TombstoneRows, Restrict
<1>6. CompletedInv'
  BY <1>4, <1>5 DEF CompletedInv, AttestationsKept, Synthetic
<1>7. cursor' \in 0 .. Len(stream)
  BY DEF TypeOK, Complete
<1> QED
  BY <1>1, <1>2, <1>6, <1>7

(* The invariant holds before the first step.                              *)
LEMMA InitCascadeInv == Init => CascadeInv
BY CascadeAssumption
   DEF Init, CascadeInv, TypeOK, ShredderInv, CompletedInv, Completed, Range

(***************************************************************************)
(* The observer and the store, step by step.                               *)
(***************************************************************************)
LEMMA CascadeInvStep ==
  ASSUME CascadeInv, [Next]_vars
  PROVE  CascadeInv'
<1> USE DEF CascadeInv
<1>0. /\ ShredderTypeOK' /\ ShredderInv' /\ AttestationsKept
      /\ ShredderTypeOK
  BY ShredderStep DEF TypeOK, ShredderTypeOK
<1> SUFFICES TypeOK' /\ CompletedInv'
  BY <1>0
<1>1. ASSUME UNCHANGED <<store, observer, stream, receipts, crashes>>
      PROVE  TypeOK' /\ CompletedInv'
  BY <1>0, <1>1
     DEF TypeOK, ShredderTypeOK, CompletedInv, Completed, AttestationsKept,
         store, observer
<1>2. ASSUME NEW u \in Users, UpsertRows(u)
      PROVE  TypeOK' /\ CompletedInv'
  BY <1>0, <1>2, CascadeAssumption
     DEF UpsertRows, TypeOK, ShredderTypeOK, CompletedInv, Completed,
         AttestationsKept, HasRows, observer
<1>3. ASSUME NEW u \in Users, ScheduleErasure(u)
      PROVE  TypeOK' /\ CompletedInv'
  BY <1>0, <1>3
     DEF ScheduleErasure, TypeOK, ShredderTypeOK, CompletedInv, Completed,
         AttestationsKept, store, observer
<1>4. cursor < Len(stream) => Incoming \in Users
  BY DEF Incoming, TypeOK
<1>5. CASE CascadeWithKey
  <2>1. PICK att \in Attestations : /\ ShredOk(rows[Incoming], att)
                                    /\ Complete(Incoming, att, 1)
    BY <1>5 DEF CascadeWithKey
  <2>2. rows[Incoming] = DekOf[Incoming] /\ DekOf[Incoming] \in Deks
    BY <1>5, CascadeAssumption DEF CascadeWithKey, HasRows, TypeOK
  <2>3. DekOf[Incoming] \in DOMAIN shredded' /\ shredded'[DekOf[Incoming]] = att
    BY <1>0, <2>1, <2>2, ShredOkDestroys
  <2>4. /\ CompletedInv'
        /\ completions' \in Seq(Completion)
        /\ cursor' \in 0 .. Len(stream)
    BY <1>0, <1>4, <1>5, <2>1, <2>3, CompleteKeeps DEF CascadeWithKey
  <2>5. TypeOK'
    BY <1>0, <1>4, <1>5, <2>4
       DEF CascadeWithKey, TypeOK, ShredderTypeOK, TombstoneRows, Restrict
  <2> QED
    BY <2>4, <2>5
<1>6. CASE CascadeWithoutKey
  <2>1. Synthetic \in Attestations
    BY CascadeAssumption DEF Synthetic, Attestations, NoLogIndex
  <2>2. /\ CompletedInv'
        /\ completions' \in Seq(Completion)
        /\ cursor' \in 0 .. Len(stream)
    BY <1>0, <1>4, <1>6, <2>1, CompleteKeeps DEF CascadeWithoutKey
  <2>3. TypeOK'
    BY <1>0, <1>4, <1>6, <2>2
       DEF CascadeWithoutKey, TypeOK, ShredderTypeOK, TombstoneRows, Restrict
  <2> QED
    BY <2>2, <2>3
<1>7. CASE Drain
  <2>1. completions' = <<>> /\ Range(completions') = {}
    BY <1>7 DEF Drain, Range
  <2>2. Completed' = Completed
    BY <1>7, <2>1 DEF Drain, Completed
  <2>3. Range(completions) \subseteq Completion
    BY DEF TypeOK, Range
  <2> QED
    BY <1>0, <1>7, <2>1, <2>2, <2>3
       DEF Drain, TypeOK, ShredderTypeOK, CompletedInv, AttestationsKept, store
<1>8. CASE Crash
  <2>1. completions' = <<>> /\ Range(completions') = {}
    BY <1>8 DEF Crash, Range
  <2>2. Completed' \subseteq Completed
    BY <1>8, <2>1 DEF Crash, Completed
  <2> QED
    BY <1>0, <1>8, <2>1, <2>2
       DEF Crash, TypeOK, ShredderTypeOK, CompletedInv, AttestationsKept, store
<1> QED
  BY <1>1, <1>2, <1>3, <1>5, <1>6, <1>7, <1>8
     DEF Next, Cascade, RegisterDek, CascadeStopsAtShred,
         CascadeStopsAtTombstone, vars

-----------------------------------------------------------------------------
(***************************************************************************)
(* Shredder, row store, queue and receipts agree at every moment about     *)
(* whose key is destroyed and whose rows are gone: on_event with every     *)
(* failure, drain_completions, a crash and the replay after it.            *)
(***************************************************************************)
THEOREM CascadeInvariant == Spec => []CascadeInv
<1>1. CascadeInv /\ [Next]_vars => CascadeInv'
  BY CascadeInvStep
<1> QED
  BY <1>1, InitCascadeInv, PTL DEF Spec

(***************************************************************************)
(* A receipt proves the destruction of its user's key and rows, for any    *)
(* users and keys, and whichever calls failed or were replayed.            *)
(***************************************************************************)
THEOREM ReceiptsAreProofs == Spec => []ReceiptsProveDestruction
<1>1. CascadeInv => ReceiptsProveDestruction
  <2> SUFFICES ASSUME CascadeInv, NEW c \in Completed
               PROVE  /\ c.user \in tombstoned /\ ~HasRows(c.user)
                      /\ c.attestation # Synthetic =>
                           /\ c.attestation.dek = DekOf[c.user]
                           /\ c.attestation.dek \notin live
                           /\ c.attestation.dek \in DOMAIN shredded
                           /\ shredded[c.attestation.dek] = c.attestation
    BY DEF ReceiptsProveDestruction, Completed
  <2> QED
    BY DEF CascadeInv, ShredderInv, CompletedInv, HasRows
<1> QED
  BY <1>1, CascadeInvariant, PTL

(***************************************************************************)
(* However often an erasure is retried or replayed, a key has one          *)
(* attestation, of the configured class and at a log index of its own.     *)
(***************************************************************************)
THEOREM OneAttestationEach == Spec => []OneAttestationPerKey
<1>1. CascadeInv => OneAttestationPerKey
  <2> SUFFICES ASSUME CascadeInv PROVE OneAttestationPerKey
    OBVIOUS
  <2> DEFINE issued == {c.attestation : c \in Completed} \ {Synthetic}
  <2>1. \A a \in issued : /\ a.dek \in DOMAIN shredded
                          /\ a = shredded[a.dek]
                          /\ a.class = Class
    BY DEF CascadeInv, ShredderInv, CompletedInv
  <2>2. \A a, b \in issued : a.dek = b.dek \/ a.log = b.log => a = b
    BY <2>1 DEF CascadeInv, ShredderInv
  <2> QED
    BY <2>1, <2>2 DEF OneAttestationPerKey, Completed, Class
<1> QED
  BY <1>1, CascadeInvariant, PTL

(***************************************************************************)
(* Rows leave the store only after their key was destroyed and attested;   *)
(* and while the log has an index left, a key stops being live only by     *)
(* being attested.                                                         *)
(***************************************************************************)
THEOREM KeysDieFirst == Spec => RowsDieAfterTheirKey
<1> DEFINE Step == /\ \A u \in DOMAIN rows \ DOMAIN rows' :
                        rows[u] \notin live' /\ rows[u] \in DOMAIN shredded'
                   /\ nextLogIndex < MaxLogIndex =>
                        live \ live' \subseteq DOMAIN shredded'
<1>1. CascadeInv /\ [Next]_vars => [Step]_vars
  <2> SUFFICES ASSUME CascadeInv, Next PROVE Step
    OBVIOUS
  <2>1. nextLogIndex < MaxLogIndex => live \ live' \subseteq DOMAIN shredded'
    BY ShredderStep DEF CascadeInv
  <2>2. CASE CascadeWithKey
    <3>1. PICK att \in Attestations : ShredOk(rows[Incoming], att)
      BY <2>2 DEF CascadeWithKey
    <3>2. rows[Incoming] \in Deks
      BY <2>2, CascadeAssumption DEF CascadeWithKey, HasRows, CascadeInv, TypeOK
    <3>3. rows[Incoming] \notin live' /\ rows[Incoming] \in DOMAIN shredded'
      BY <3>1, <3>2, ShredOkDestroys DEF CascadeInv, TypeOK, ShredderTypeOK
    <3>4. DOMAIN rows \ DOMAIN rows' \subseteq {Incoming}
      BY <2>2 DEF CascadeWithKey, TombstoneRows, Restrict
    <3> QED
      BY <2>1, <3>3, <3>4
  <2>3. CASE CascadeWithoutKey
    BY <2>1, <2>3 DEF CascadeWithoutKey, TombstoneRows, Restrict, HasRows
  <2>4. ASSUME NEW u \in Users, UpsertRows(u)
        PROVE  Step
    BY <2>1, <2>4 DEF UpsertRows
  <2>5. CASE UNCHANGED rows
    BY <2>1, <2>5
  <2> QED
    BY <2>2, <2>3, <2>4, <2>5
       DEF Next, Cascade, RegisterDek, ScheduleErasure, CascadeStopsAtShred,
           CascadeStopsAtTombstone, Drain, Crash, store
<1> QED
  BY <1>1, CascadeInvariant, PTL DEF Spec, RowsDieAfterTheirKey
=============================================================================
