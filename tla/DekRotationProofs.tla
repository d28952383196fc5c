-------------------------- MODULE DekRotationProofs --------------------------
(***************************************************************************)
(* What holds of DekRotation for every set of keys, every length of the    *)
(* slice, every width of the message counter, and whether or not callers   *)
(* keep to one Dek per key.                                                *)
(***************************************************************************)
EXTENDS DekRotation, TLAPS

(***************************************************************************)
(* Encrypting m times under a Dek that admits the last of them: its        *)
(* counter advances over exactly the nonces used, none of which is at      *)
(* u64::MAX or beyond.                                                     *)
(***************************************************************************)
LEMMA SealType ==
  ASSUME TypeOK, NEW d \in Held, NEW cipher \in AeadKind, NEW m \in Nat,
         \A i \in 1 .. m : Admits(d, cipher, counter[d] + i - 1),
         Seal(d, cipher, m)
  PROVE  /\ DOMAIN counter' = Held
         /\ \A e \in Held : counter'[e] \in 0 .. MaxCounter
         /\ sealed' \subseteq Keys \X AeadKind \X (0 .. MaxCounter - 1)
         /\ reused' \subseteq sealed'
<1> USE RotationAssumption DEF UsesCounter
<1>1. d.key \in Keys /\ counter[d] \in 0 .. MaxCounter
  BY DEF TypeOK, Deks
<1>2. DOMAIN counter' = Held
  BY DEF Seal, Held
<1>3. cipher # "XChaCha20Poly1305" => counter[d] + m \in 0 .. MaxCounter
  <2>1. CASE m = 0
    BY <1>1, <2>1
  <2>2. CASE m # 0 /\ cipher # "XChaCha20Poly1305"
    <3>1. m \in 1 .. m
      BY <2>2
    <3>2. counter[d] + m - 1 < MaxCounter
      BY <2>2, <3>1 DEF Admits
    <3> QED
      BY <1>1, <3>2
  <2> QED
    BY <2>1, <2>2
<1>4. \A e \in Held : counter'[e] \in 0 .. MaxCounter
  BY <1>1, <1>3 DEF Seal, Held, TypeOK
<1>5. NextNonces(d, cipher, m) \subseteq Keys \X AeadKind \X (0 .. MaxCounter - 1)
  <2>1. CASE cipher = "XChaCha20Poly1305"
    BY <2>1 DEF NextNonces
  <2>2. CASE cipher # "XChaCha20Poly1305"
    <3>1. ASSUME NEW i \in 1 .. m
          PROVE  counter[d] + i - 1 \in 0 .. MaxCounter - 1
      BY <1>1, <2>2, <3>1 DEF Admits
    <3> QED
      BY <1>1, <2>2, <3>1 DEF NextNonces
  <2> QED
    BY <2>1, <2>2
<1> QED
  BY <1>2, <1>4, <1>5 DEF Seal, TypeOK

(***************************************************************************)
(* A Dek is taken into memory with its counter at 0.                       *)
(***************************************************************************)
LEMMA HoldType ==
  ASSUME TypeOK, NEW d \in Deks, Hold(d)
  PROVE  /\ DOMAIN counter' = Held \cup {d}
         /\ \A e \in Held \cup {d} : counter'[e] \in 0 .. MaxCounter
BY RotationAssumption DEF Hold, Held, TypeOK

(* The types hold before the first step.                                   *)
LEMMA InitTypeOK == Init => TypeOK
BY DEF Init, TypeOK, Held

(* Every step keeps the types.                                             *)
LEMMA TypeOKStep ==
  ASSUME TypeOK, [Next]_vars
  PROVE  TypeOK'
<1> USE RotationAssumption
<1>1. ASSUME NEW k \in Keys, Generate(k) PROVE TypeOK'
  <2> DEFINE d == [key |-> k, lifecycle |-> "Ephemeral"]
  <2>1. d \in Deks /\ d.key = k
    BY DEF Deks, DekLifecycle
  <2>2. Held' = Held \cup {d} /\ \A e \in Held' : counter'[e] \in 0 .. MaxCounter
    BY <1>1, <2>1, HoldType DEF Generate, Held
  <2>3. Held' \subseteq Deks /\ \A e \in Held' : e.key \in known'
    BY <1>1, <2>1, <2>2 DEF Generate, TypeOK
  <2>4. /\ backend' \in KmsBackend
        /\ wrapped' \cup handed' \cup regenerated' \subseteq known'
        /\ known' \subseteq Keys
    BY <1>1 DEF Generate, TypeOK
  <2> QED
    BY <1>1, <2>2, <2>3, <2>4 DEF Generate, TypeOK, slice, nonces
<1>2. ASSUME NEW k \in Keys, Wrap(k) PROVE TypeOK'
  BY <1>2 DEF Wrap, TypeOK, Held, kms, slice, nonces
<1>3. ASSUME NEW k \in Keys, Unwrap(k) PROVE TypeOK'
  <2> DEFINE d == [key |-> k, lifecycle |-> "LongLived"]
  <2>1. d \in Deks /\ d.key = k
    BY DEF Deks, DekLifecycle
  <2>2. Held' = Held \cup {d} /\ \A e \in Held' : counter'[e] \in 0 .. MaxCounter
    BY <1>3, <2>1, HoldType DEF Unwrap, Held
  <2>3. Held' \subseteq Deks /\ \A e \in Held' : e.key \in known'
    BY <1>3, <2>1, <2>2 DEF Unwrap, TypeOK, kms
  <2>4. /\ backend' \in KmsBackend
        /\ wrapped' \cup handed' \cup regenerated' \subseteq known'
        /\ known' \subseteq Keys
    BY <1>3 DEF Unwrap, TypeOK, kms
  <2> QED
    BY <1>3, <2>2, <2>3, <2>4 DEF Unwrap, TypeOK, kms, slice, nonces
<1>4. ASSUME NEW k \in Keys, Adopt(k) PROVE TypeOK'
  BY <1>4 DEF Adopt, TypeOK, Held, keyring, kms, nonces
<1>5. CASE Restart
  BY <1>5 DEF Restart, TypeOK, Held, slice, nonces
<1>6. ASSUME NEW i \in 1 .. MaxRows, Corrupt(i) PROVE TypeOK'
  <2>1. rows' \in Seq([key : Keys, intact : BOOLEAN])
    <3> DEFINE Envelopes == [key : Keys, intact : BOOLEAN]
    <3>0. rows \in Seq(Envelopes) /\ i \in 1 .. Len(rows)
      BY <1>6 DEF Corrupt, TypeOK
    <3>1. rows[i] \in Envelopes
      <4> HIDE DEF Envelopes
      <4> QED
        BY <3>0
    <3>2. [rows[i] EXCEPT !.intact = FALSE] \in Envelopes
      BY <3>1
    <3>3. rows' = [rows EXCEPT ![i] = [rows[i] EXCEPT !.intact = FALSE]]
      BY <1>6 DEF Corrupt
    <3> HIDE DEF Envelopes
    <3>4. rows' \in Seq(Envelopes)
      BY <3>0, <3>2, <3>3
    <3> QED
      BY <3>4 DEF Envelopes
  <2> QED
    BY <1>6, <2>1 DEF Corrupt, TypeOK, Held, keyring, kms, nonces
<1>7. ASSUME NEW d \in Deks, NEW cipher \in AeadKind, Encrypt(d, cipher)
      PROVE  TypeOK'
  <2>1. \A i \in 1 .. 1 : Admits(d, cipher, counter[d] + i - 1)
    BY <1>7 DEF Encrypt, TypeOK
  <2>2. rows' \in Seq([key : Keys, intact : BOOLEAN])
    BY <1>7 DEF Encrypt, TypeOK, Envelope, Deks
  <2>3. metric' \in [Keys -> Nat]
    BY <1>7 DEF Encrypt, TypeOK, Deks
  <2> QED
    BY <1>7, <2>1, <2>2, <2>3, SealType DEF Encrypt, TypeOK, Held, kms
<1>8. ASSUME NEW d \in Deks, NEW cipher \in AeadKind, EncryptRefused(d, cipher)
      PROVE  TypeOK'
  BY <1>8 DEF EncryptRefused, TypeOK, Held, vars, keyring, kms, slice, nonces
<1>9. ASSUME NEW old \in Deks, NEW new \in Deks, NEW cipher \in AeadKind,
             Rotate(old, new, cipher)
      PROVE  TypeOK'
  <2>1. Len(rows) \in Nat /\ current \in Keys
    BY <1>9 DEF Rotate, Rotatable, TypeOK, Deks
  <2>2. \A i \in 1 .. Len(rows) : Admits(new, cipher, counter[new] + i - 1)
    BY <1>9 DEF Rotate, Passes
  <2>3. rows' \in Seq([key : Keys, intact : BOOLEAN])
    BY <1>9, <2>1 DEF Rotate, Envelope, Deks
  <2>4. metric' \in [Keys -> Nat]
    BY <1>9, <2>1 DEF Rotate, TypeOK, Deks
  <2> QED
    BY <1>9, <2>1, <2>2, <2>3, <2>4, SealType
       DEF Rotate, Rotatable, TypeOK, Held, Deks, kms
<1>10. ASSUME NEW old \in Deks, NEW new \in Deks, NEW cipher \in AeadKind,
              NEW m \in 0 .. MaxRows, RotateFails(old, new, cipher, m)
       PROVE  TypeOK'
  <2>1. \A i \in 1 .. m : Admits(new, cipher, counter[new] + i - 1)
    BY <1>10 DEF RotateFails, Passes
  <2>2. /\ DOMAIN counter' = Held
        /\ \A e \in Held : counter'[e] \in 0 .. MaxCounter
        /\ sealed' \subseteq Keys \X AeadKind \X (0 .. MaxCounter - 1)
        /\ reused' \subseteq sealed'
    BY <1>10, <2>1, SealType DEF RotateFails, Rotatable
  <2> QED
    BY <2>2, <1>10 DEF RotateFails, TypeOK, Held, kms, slice
<1>11. CASE UNCHANGED vars
  BY <1>11 DEF TypeOK, Held, vars, keyring, kms, slice, nonces
<1> QED
  BY <1>1, <1>2, <1>3, <1>4, <1>5, <1>6, <1>7, <1>8, <1>9, <1>10, <1>11 DEF Next

(***************************************************************************)
(* The variables keep the values the Rust types allow: in particular no    *)
(* nonce is made of a counter at u64::MAX, so the counter never wraps.     *)
(***************************************************************************)
THEOREM TypeCorrect == Spec => []TypeOK
BY InitTypeOK, TypeOKStep, PTL DEF Spec

-----------------------------------------------------------------------------
Ephemeral(k) == [key |-> k, lifecycle |-> "Ephemeral"]

(***************************************************************************)
(* Why AES-GCM nonces do not repeat: whatever a key was encrypted under is *)
(* behind the counter of its ephemeral Dek, unless the key was generated a *)
(* second time.                                                            *)
(***************************************************************************)
NoncesBehindCounter ==
  \A x \in sealed : x[2] = "Aes256Gcm" /\ x[1] \notin regenerated =>
    /\ x[1] \in known
    /\ Ephemeral(x[1]) \in Held => x[3] < counter[Ephemeral(x[1])]

(* Only the mock derives a key again.                                      *)
OnlyTheMockRepeats == regenerated # {} => backend = "Mock"

NonceInv == NoncesBehindCounter /\ OnlyTheMockRepeats /\ GcmNoncesUnique

(***************************************************************************)
(* Encryptions keep NonceInv.                                              *)
(***************************************************************************)
LEMMA SealKeepsNonceInv ==
  ASSUME TypeOK, NonceInv,
         NEW d \in Held, NEW cipher \in AeadKind, NEW m \in Nat,
         \A i \in 1 .. m : Admits(d, cipher, counter[d] + i - 1),
         Seal(d, cipher, m), UNCHANGED kms
  PROVE  NonceInv'
<1> USE DEF UsesCounter, kms
<1>1. d \in Deks /\ d.key \in known /\ counter[d] \in Nat
  BY RotationAssumption DEF TypeOK
<1>2. DOMAIN counter' = Held
  BY DEF Seal, Held
<1>3. CASE cipher # "Aes256Gcm"
  <2>1. \A x \in NextNonces(d, cipher, m) : x[2] # "Aes256Gcm"
    BY <1>3 DEF NextNonces
  <2>2. \A e \in Held : counter'[e] \in Nat /\ counter'[e] >= counter[e]
    BY <1>1, RotationAssumption DEF Seal, Held, TypeOK
  <2>3. \A x \in sealed : x[3] \in Nat
    BY RotationAssumption DEF TypeOK
  <2>4. NoncesBehindCounter'
    <3> SUFFICES ASSUME NEW x \in sealed', x[2] = "Aes256Gcm", x[1] \notin regenerated
                 PROVE  /\ x[1] \in known'
                        /\ Ephemeral(x[1]) \in Held' =>
                             x[3] < counter'[Ephemeral(x[1])]
      BY DEF NoncesBehindCounter, Held, Ephemeral
    <3>1. x \in sealed
      BY <2>1 DEF Seal
    <3>2. ASSUME Ephemeral(x[1]) \in Held
          PROVE  counter[Ephemeral(x[1])] \in Nat
      BY <3>2, RotationAssumption DEF TypeOK
    <3> QED
      BY <1>2, <2>2, <2>3, <3>1, <3>2 DEF NonceInv, NoncesBehindCounter, Held
  <2> QED
    BY <2>1, <2>4 DEF NonceInv, GcmNoncesUnique, OnlyTheMockRepeats, Seal
<1>4. CASE cipher = "Aes256Gcm" /\ m = 0
  <2>1. NextNonces(d, cipher, m) = {}
    BY <1>4 DEF NextNonces
  <2>2. \A e \in Held : counter'[e] = counter[e]
    BY <1>1, <1>4 DEF Seal, Held
  <2> QED
    BY <1>2, <2>1, <2>2
       DEF Seal, NonceInv, NoncesBehindCounter, OnlyTheMockRepeats, GcmNoncesUnique,
           Held, Ephemeral
<1>5. CASE cipher = "Aes256Gcm" /\ m # 0
  <2>1. d = Ephemeral(d.key)
    <3>1. 1 \in 1 .. m
      BY <1>5
    <3>2. d.lifecycle = "Ephemeral"
      BY <1>5, <3>1 DEF Admits
    <3> QED
      BY <1>1, <3>2 DEF Deks, Ephemeral
  <2>2. /\ counter'[d] = counter[d] + m
        /\ \A e \in Held \ {d} : counter'[e] = counter[e]
    BY <1>5 DEF Seal, Held
  <2>3. \A x \in NextNonces(d, cipher, m) :
          x[1] = d.key /\ x[3] >= counter[d] /\ x[3] < counter'[d]
    BY <1>1, <1>5, <2>2 DEF NextNonces
  <2>4. \A x \in sealed : x[2] = "Aes256Gcm" /\ x[1] = d.key
                            /\ x[1] \notin regenerated => x[3] < counter[d]
    BY <2>1 DEF NonceInv, NoncesBehindCounter
  <2>5. \A x \in sealed \cap NextNonces(d, cipher, m) : x[1] \in regenerated
    <3> SUFFICES ASSUME NEW x \in sealed, x \in NextNonces(d, cipher, m),
                        x[1] \notin regenerated
                 PROVE  FALSE
      OBVIOUS
    <3>1. x[2] = "Aes256Gcm"
      BY <1>5 DEF NextNonces
    <3>2. x[3] \in Nat
      BY RotationAssumption DEF TypeOK
    <3> QED
      BY <1>1, <2>3, <2>4, <3>1, <3>2
  <2>6. NoncesBehindCounter'
    <3> SUFFICES ASSUME NEW x \in sealed', x[2] = "Aes256Gcm", x[1] \notin regenerated
                 PROVE  /\ x[1] \in known'
                        /\ Ephemeral(x[1]) \in Held' =>
                             x[3] < counter'[Ephemeral(x[1])]
      BY DEF NoncesBehindCounter, Held, Ephemeral
    <3>1. CASE x \in NextNonces(d, cipher, m)
      BY <1>1, <2>1, <2>3, <3>1
    <3>2. CASE x \in sealed /\ x[1] = d.key
      <4>1. x[3] \in Nat
        BY <3>2, RotationAssumption DEF TypeOK
      <4> QED
        BY <1>1, <1>5, <2>1, <2>2, <2>4, <3>2, <4>1
    <3>3. CASE x \in sealed /\ x[1] # d.key
      <4>1. Ephemeral(x[1]) # d
        BY <3>3 DEF Ephemeral
      <4> QED
        BY <1>2, <2>2, <3>3, <4>1 DEF NonceInv, NoncesBehindCounter, Held
    <3> QED
      BY <3>1, <3>2, <3>3 DEF Seal
  <2>7. GcmNoncesUnique'
    BY <2>5 DEF Seal, NonceInv, OnlyTheMockRepeats, GcmNoncesUnique
  <2> QED
    BY <2>6, <2>7 DEF NonceInv, OnlyTheMockRepeats
<1> QED
  BY <1>3, <1>4, <1>5

(* No nonce has been used before the first step.                           *)
LEMMA InitNonceInv == Init => NonceInv
BY DEF Init, NonceInv, NoncesBehindCounter, OnlyTheMockRepeats, GcmNoncesUnique

(* Every step keeps the used nonces below the counters that issue them.    *)
LEMMA NonceInvStep ==
  ASSUME TypeOK, NonceInv, [Next]_vars
  PROVE  NonceInv'
<1>1. ASSUME NEW k \in Keys, Generate(k) PROVE NonceInv'
  <2>0. regenerated \subseteq regenerated' /\ known \subseteq known'
    BY <1>1 DEF Generate
  <2>1. \A x \in sealed :
          x[2] = "Aes256Gcm" /\ x[1] \notin regenerated' => x[1] # k
    BY <1>1 DEF Generate, NonceInv, NoncesBehindCounter
  <2>2. \A j \in Keys : j # k => Ephemeral(j) # [key |-> k, lifecycle |-> "Ephemeral"]
    BY DEF Ephemeral
  <2>3. \A x \in sealed : x[1] \in Keys
    BY DEF TypeOK
  <2>4. NoncesBehindCounter'
    BY <1>1, <2>0, <2>1, <2>2, <2>3
       DEF Generate, Hold, NonceInv, NoncesBehindCounter, Held, nonces
  <2>5. OnlyTheMockRepeats'
    <3>1. CASE backend = "Aws"
      BY <1>1, <3>1 DEF Generate, Fresh, NonceInv, OnlyTheMockRepeats
    <3>2. CASE backend = "Mock"
      BY <1>1, <3>2 DEF Generate, OnlyTheMockRepeats
    <3> QED
      BY <3>1, <3>2 DEF TypeOK, KmsBackend
  <2>6. GcmNoncesUnique'
    BY <1>1, <2>0 DEF Generate, NonceInv, GcmNoncesUnique, nonces
  <2> QED
    BY <2>4, <2>5, <2>6 DEF NonceInv
<1>2. ASSUME NEW k \in Keys, Unwrap(k) PROVE NonceInv'
  <2>1. \A j : Ephemeral(j) # [key |-> k, lifecycle |-> "LongLived"]
    BY DEF Ephemeral
  <2> QED
    BY <1>2, <2>1
       DEF Unwrap, Hold, NonceInv, NoncesBehindCounter, OnlyTheMockRepeats,
           GcmNoncesUnique, Held, kms, nonces
<1>3. CASE Restart
  BY <1>3 DEF Restart, NonceInv, NoncesBehindCounter, OnlyTheMockRepeats,
              GcmNoncesUnique, Held, nonces
<1>4. ASSUME NEW d \in Deks, NEW cipher \in AeadKind, Encrypt(d, cipher)
      PROVE  NonceInv'
  <2>1. \A i \in 1 .. 1 : Admits(d, cipher, counter[d] + i - 1)
    BY <1>4, RotationAssumption DEF Encrypt, TypeOK
  <2> QED
    BY <1>4, <2>1, SealKeepsNonceInv DEF Encrypt
<1>5. ASSUME NEW old \in Deks, NEW new \in Deks, NEW cipher \in AeadKind,
             Rotate(old, new, cipher)
      PROVE  NonceInv'
  <2>1. Len(rows) \in Nat
    BY DEF TypeOK
  <2> QED
    BY <1>5, <2>1, SealKeepsNonceInv DEF Rotate, Rotatable, Passes
<1>6. ASSUME NEW old \in Deks, NEW new \in Deks, NEW cipher \in AeadKind,
             NEW m \in 0 .. MaxRows, RotateFails(old, new, cipher, m)
      PROVE  NonceInv'
  <2>1. m \in Nat
    BY RotationAssumption
  <2> QED
    BY <1>6, <2>1, SealKeepsNonceInv DEF RotateFails, Rotatable, Passes
<1>7. CASE UNCHANGED <<counter, kms, nonces>>
  BY <1>7 DEF NonceInv, NoncesBehindCounter, OnlyTheMockRepeats, GcmNoncesUnique,
              Held, kms, nonces
<1>8. ASSUME NEW k \in Keys, Wrap(k) \/ Adopt(k) PROVE NonceInv'
  BY <1>7, <1>8 DEF Wrap, Adopt, keyring
<1>9. ASSUME NEW i \in 1 .. MaxRows, Corrupt(i) PROVE NonceInv'
  BY <1>7, <1>9 DEF Corrupt, keyring
<1>10. ASSUME NEW d \in Deks, NEW cipher \in AeadKind, EncryptRefused(d, cipher)
       PROVE  NonceInv'
  BY <1>7, <1>10 DEF EncryptRefused, vars, keyring
<1>11. CASE UNCHANGED vars
  BY <1>7, <1>11 DEF vars, keyring
<1> QED
  BY <1>1, <1>2, <1>3, <1>4, <1>5, <1>6, <1>8, <1>9, <1>10, <1>11 DEF Next

(***************************************************************************)
(* No AES-GCM nonce is ever used twice under one key, across restarts,     *)
(* unwraps, failed rotations and their retries, but under a key that the   *)
(* mock backend derived again after a restart.                             *)
(***************************************************************************)
THEOREM GcmNoncesNeverRepeat == Spec => []GcmNoncesUnique
<1>1. TypeOK /\ NonceInv /\ [Next]_vars => (TypeOK /\ NonceInv)'
  BY TypeOKStep, NonceInvStep
<1>2. NonceInv => GcmNoncesUnique
  BY DEF NonceInv
<1> QED
  BY <1>1, <1>2, InitTypeOK, InitNonceInv, PTL DEF Spec

-----------------------------------------------------------------------------
(***************************************************************************)
(* What SliceUnderOneKey leaves out: the key in use is never one of the    *)
(* retired ones, and nothing is retired before a key is in use.            *)
(***************************************************************************)
SliceInv ==
  /\ SliceUnderOneKey
  /\ current \notin retired
  /\ current = NoKey => retired = {} /\ rows = <<>>

(* No slice has a key before the first step.                               *)
LEMMA InitSliceInv == Init => SliceInv
BY DEF Init, SliceInv, SliceUnderOneKey

(* Every step keeps a slice under the one key that opened it.              *)
LEMMA SliceInvStep ==
  ASSUME TypeOK, SliceInv, [Next]_vars
  PROVE  SliceInv'
<1> USE RotationAssumption
<1>1. ASSUME UNCHANGED slice PROVE SliceInv'
  BY <1>1 DEF slice, SliceInv, SliceUnderOneKey
<1>2. ASSUME NEW k \in Keys, Adopt(k) PROVE SliceInv'
  BY <1>2 DEF Adopt, SliceInv, SliceUnderOneKey
<1>3. ASSUME NEW i \in 1 .. MaxRows, Corrupt(i) PROVE SliceInv'
  <2>1. rows # <<>> /\ rows' # <<>> /\ Len(rows') = Len(rows)
    BY <1>3 DEF Corrupt, TypeOK
  <2>2. \A j \in 1 .. Len(rows) : rows'[j].key = rows[j].key
    BY <1>3 DEF Corrupt, TypeOK
  <2> QED
    BY <1>3, <2>1, <2>2 DEF Corrupt, SliceInv, SliceUnderOneKey
<1>4. ASSUME NEW d \in Deks, NEW cipher \in AeadKind, Encrypt(d, cipher)
      PROVE  SliceInv'
  <2>1. current \in Keys /\ d.key = current
    BY <1>4 DEF Encrypt, Deks
  <2>2. /\ Len(rows') = Len(rows) + 1
        /\ \A j \in 1 .. Len(rows') : rows'[j].key = current
    BY <1>4, <2>1 DEF Encrypt, Envelope, SliceInv, SliceUnderOneKey, TypeOK
  <2>3. /\ metric'[current] = metric[current] + 1
        /\ \A k \in Keys \ {current} : metric'[k] = metric[k]
    BY <1>4, <2>1 DEF Encrypt, TypeOK
  <2> QED
    BY <1>4, <2>1, <2>2, <2>3 DEF Encrypt, SliceInv, SliceUnderOneKey
<1>5. ASSUME NEW old \in Deks, NEW new \in Deks, NEW cipher \in AeadKind,
             Rotate(old, new, cipher)
      PROVE  SliceInv'
  <2>1. /\ current \in Keys /\ new.key \in Keys
        /\ new.key \notin retired \cup {current}
    BY <1>5 DEF Rotate, Rotatable, Deks
  <2>2. /\ Len(rows) \in Nat /\ Len(rows') = Len(rows)
        /\ \A j \in 1 .. Len(rows') : rows'[j].key = new.key
    BY <1>5 DEF Rotate, Envelope, TypeOK
  <2>3. /\ metric'[new.key] = metric[new.key] + Len(rows)
        /\ \A k \in Keys \ {new.key} : metric'[k] = metric[k]
        /\ metric[new.key] = 0
    BY <1>5, <2>1 DEF Rotate, TypeOK, SliceInv, SliceUnderOneKey
  <2> QED
    BY <1>5, <2>1, <2>2, <2>3 DEF Rotate, SliceInv, SliceUnderOneKey
<1> QED
  BY <1>1, <1>2, <1>3, <1>4, <1>5
     DEF Next, Generate, Wrap, Unwrap, Restart, EncryptRefused, RotateFails, vars

(***************************************************************************)
(* However its rotations fail, the slice is under the key its caller       *)
(* believes it is under, and only keys it was kept under are charged.      *)
(***************************************************************************)
THEOREM SliceStaysUnderOneKey == Spec => []SliceUnderOneKey
<1>1. TypeOK /\ SliceInv /\ [Next]_vars => SliceInv'
  BY SliceInvStep
<1>2. SliceInv => SliceUnderOneKey
  BY DEF SliceInv
<1> QED
  BY <1>1, <1>2, InitSliceInv, TypeCorrect, PTL DEF Spec
=============================================================================
