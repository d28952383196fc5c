----------------------------- MODULE DekRotation -----------------------------
(***************************************************************************)
(* Data-encryption keys: Dek, CryptoCoordinator and rotate_dek of          *)
(* arkhe-forge-platform/src/crypto.rs, in a build with all three ciphers.  *)
(*                                                                         *)
(* A Dek is a value in memory: key material, a lifecycle and the message   *)
(* counter that the AES nonces are made of.  A key is generated as an      *)
(* ephemeral Dek: AWS KMS never repeats one, while the mock backend        *)
(* derives its keys from the KEK and a number that starts over with the    *)
(* process, so that it may hand out the keys of an earlier process again.  *)
(* The wrapped form of a key is durable, and every unwrap makes a          *)
(* long-lived Dek of the same material with its counter at 0.  A caller    *)
(* keeps a slice of envelopes under one key, appends to it, and rotates it *)
(* to keys it has not used.  The process may restart, envelopes may be     *)
(* damaged, a cipher is chosen anew for every call, and a rotation fails   *)
(* wherever decryption or the counter makes it.                            *)
(***************************************************************************)
EXTENDS Integers, Sequences

CONSTANTS
  Keys,       (* key material, one per DEK id                              *)
  NoKey,      (* no key is in use yet                                      *)
  MaxCounter, (* u64::MAX of the message counter                           *)
  MaxRows     (* bound: the number of envelopes in the slice               *)

ASSUME RotationAssumption ==
  /\ NoKey \notin Keys
  /\ MaxCounter \in Nat /\ MaxRows \in Nat

VARIABLES
  counter,  (* the Deks in memory, each with its message counter           *)
  wrapped,  (* the keys whose wrapped form is stored                       *)
  backend,  (* the KmsBackend the keys come from                           *)
  known,    (* the keys it has generated                                   *)
  handed,   (* those it has generated since the process started            *)
  regenerated, (* those it has generated more than once                    *)
  current,  (* the key the slice is kept under                             *)
  retired,  (* the keys it was kept under before                           *)
  rows,     (* the slice of EncryptedPii                                   *)
  metric,   (* the DekMessageCounter of each key                           *)
  sealed,   (* the (key, cipher, counter) triples encrypted under          *)
  reused    (* those that were encrypted under again                       *)

kms     == <<backend, known, handed, regenerated>>
keyring == <<counter, wrapped, kms>>
slice   == <<current, retired, rows, metric>>
nonces  == <<sealed, reused>>

vars == <<keyring, slice, nonces>>

DekLifecycle == {"Ephemeral", "LongLived"}

KmsBackend == {"Aws", "Mock"}

AeadKind == {"XChaCha20Poly1305", "Aes256Gcm", "Aes256GcmSiv"}

Deks == [key : Keys, lifecycle : DekLifecycle]

Held == DOMAIN counter

-----------------------------------------------------------------------------
(* encrypt_xchacha draws a random nonce; the AES paths take the counter.   *)
UsesCounter(cipher) == cipher # "XChaCha20Poly1305"

(* Mutant: the last counter value is handed out as well.                   *)
AdmitsOneMore(d, cipher, n) ==
  /\ UsesCounter(cipher) => n <= MaxCounter
  /\ cipher = "Aes256Gcm" => d.lifecycle = "Ephemeral"

(* encrypt_aes_gcm, or the path of another cipher, under the Dek d with    *)
(* its counter at n.                                                       *)
Admits(d, cipher, n) ==
  /\ UsesCounter(cipher) => n < MaxCounter
  /\ cipher = "Aes256Gcm" => d.lifecycle = "Ephemeral"

(* decrypt_raw: the tag of an undamaged envelope verifies under its key.   *)
Opens(d, envelope) == envelope.intact /\ envelope.key = d.key

Envelope(d) == [key |-> d.key, intact |-> TRUE]

(* aes_gcm_nonce_from_counter for the m next encryptions under d.          *)
NextNonces(d, cipher, m) ==
  IF UsesCounter(cipher)
    THEN {<<d.key, cipher, counter[d] + i - 1>> : i \in 1 .. m} ELSE {}

(* m encryptions under d: advance_counter hands out each value once; the   *)
(* random nonces of XChaCha20 leave it alone.                              *)
Seal(d, cipher, m) ==
  /\ counter' = [counter EXCEPT
                   ![d] = IF UsesCounter(cipher) THEN @ + m ELSE @]
  /\ sealed' = sealed \cup NextNonces(d, cipher, m)
  /\ reused' = reused \cup (sealed \cap NextNonces(d, cipher, m))

-----------------------------------------------------------------------------
Init ==
  /\ counter = [d \in {} |-> 0]
  /\ backend \in KmsBackend
  /\ wrapped = {} /\ known = {} /\ handed = {} /\ regenerated = {}
  /\ current = NoKey /\ retired = {} /\ rows = <<>>
  /\ metric = [k \in Keys |-> 0]
  /\ sealed = {} /\ reused = {}

Hold(d) == counter' = [e \in Held \cup {d} |-> IF e = d THEN 0 ELSE counter[e]]

(* GenerateDataKey answers with random material.  The mock numbers its     *)
(* keys from 1 in every process; the KEK, and with it the key a number     *)
(* stands for, is the caller's choice.                                     *)
Fresh(k) == IF backend = "Aws" THEN k \notin known ELSE k \notin handed

(* generate_dek: the key comes as a process-bound Dek.                     *)
Generate(k) ==
  /\ Fresh(k)
  /\ known' = known \cup {k}
  /\ handed' = handed \cup {k}
  /\ regenerated' = regenerated \cup (known \cap {k})
  /\ Hold([key |-> k, lifecycle |-> "Ephemeral"])
  /\ UNCHANGED <<wrapped, backend, slice, nonces>>

(* wrap_dek, and the caller stores what it returns.                        *)
Wrap(k) ==
  /\ \E d \in Held : d.key = k
  /\ wrapped' = wrapped \cup {k}
  /\ UNCHANGED <<counter, kms, slice, nonces>>

(* unwrap_dek: from_unwrapped, whenever the caller likes.                  *)
Unwrap(k) ==
  /\ k \in wrapped
  /\ Hold([key |-> k, lifecycle |-> "LongLived"])
  /\ UNCHANGED <<wrapped, kms, slice, nonces>>

(* The process restarts: every Dek is dropped and zeroized, and the mock   *)
(* numbers its keys from 1 again.                                          *)
Restart ==
  /\ counter' = [d \in {} |-> 0]
  /\ handed' = {}
  /\ UNCHANGED <<wrapped, backend, known, regenerated, slice, nonces>>

(* The caller takes a key into use.                                        *)
Adopt(k) ==
  /\ current = NoKey /\ k \in known
  /\ current' = k
  /\ UNCHANGED <<keyring, retired, rows, metric, nonces>>

(* encrypt, recorded by its caller.                                        *)
Encrypt(d, cipher) ==
  /\ d \in Held /\ d.key = current
  /\ Len(rows) < MaxRows
  /\ Admits(d, cipher, counter[d])
  /\ Seal(d, cipher, 1)
  /\ rows' = Append(rows, Envelope(d))
  /\ metric' = [metric EXCEPT ![d.key] = @ + 1]
  /\ UNCHANGED <<wrapped, kms, current, retired>>

(* NonceReuseRisk and DekExhausted: no nonce is consumed.                  *)
EncryptRefused(d, cipher) ==
  /\ d \in Held /\ d.key = current
  /\ ~Admits(d, cipher, counter[d])
  /\ UNCHANGED vars

(* An envelope is damaged where it is stored.                              *)
Corrupt(i) ==
  /\ i \in 1 .. Len(rows)
  /\ rows' = [rows EXCEPT ![i].intact = FALSE]
  /\ UNCHANGED <<keyring, current, retired, metric, nonces>>

-----------------------------------------------------------------------------
(* The first m envelopes pass the loop of rotate_dek.                      *)
Passes(old, new, cipher, m) ==
  \A i \in 1 .. m : /\ Opens(old, rows[i])
                    /\ Admits(new, cipher, counter[new] + i - 1)

(* A rotation is asked for under the Dek of the current key, to the Dek of *)
(* a key that is not in use ("a fresh new_dek_id").                        *)
Rotatable(old, new) ==
  /\ old \in Held /\ old.key = current
  /\ new \in Held /\ new.key \notin retired \cup {current}

(* rotate_dek answers Ok and the caller turns to the new key.              *)
Rotate(old, new, cipher) ==
  /\ Rotatable(old, new)
  /\ Passes(old, new, cipher, Len(rows))
  /\ Seal(new, cipher, Len(rows))
  /\ rows' = [i \in 1 .. Len(rows) |-> Envelope(new)]
  /\ metric' = [metric EXCEPT ![new.key] = @ + Len(rows)]
  /\ current' = new.key
  /\ retired' = retired \cup {current}
  /\ UNCHANGED <<wrapped, kms>>

(* Mutant: the counter of the new key is rolled back with the slice.       *)
RotateFailsRewinding(old, new, cipher, m) ==
  /\ Rotatable(old, new)
  /\ m \in 0 .. Len(rows) - 1
  /\ Passes(old, new, cipher, m) /\ ~Passes(old, new, cipher, m + 1)
  /\ sealed' = sealed \cup NextNonces(new, cipher, m)
  /\ reused' = reused \cup (sealed \cap NextNonces(new, cipher, m))
  /\ UNCHANGED <<keyring, slice>>

(* Mutant: the metric is not rolled back.                                  *)
RotateFailsCounting(old, new, cipher, m) ==
  /\ Rotatable(old, new)
  /\ m \in 0 .. Len(rows) - 1
  /\ Passes(old, new, cipher, m) /\ ~Passes(old, new, cipher, m + 1)
  /\ Seal(new, cipher, m)
  /\ metric' = [metric EXCEPT ![new.key] = @ + m]
  /\ UNCHANGED <<wrapped, kms, current, retired, rows>>

(* The envelope after the first m cannot be rotated: slice and metric are  *)
(* rolled back, the counter of the new key is not.                         *)
RotateFails(old, new, cipher, m) ==
  /\ Rotatable(old, new)
  /\ m \in 0 .. Len(rows) - 1
  /\ Passes(old, new, cipher, m) /\ ~Passes(old, new, cipher, m + 1)
  /\ Seal(new, cipher, m)
  /\ UNCHANGED <<wrapped, kms, slice>>

Next ==
  \/ \E k \in Keys : Generate(k) \/ Wrap(k) \/ Unwrap(k) \/ Adopt(k)
  \/ Restart
  \/ \E i \in 1 .. MaxRows : Corrupt(i)
  \/ \E d \in Deks, cipher \in AeadKind :
       \/ Encrypt(d, cipher) \/ EncryptRefused(d, cipher)
       \/ \E new \in Deks : \/ Rotate(d, new, cipher)
                            \/ \E m \in 0 .. MaxRows : RotateFails(d, new, cipher, m)

Spec == Init /\ [][Next]_vars

-----------------------------------------------------------------------------
(***************************************************************************)
(* The variables hold the values the Rust types allow: the counter stops   *)
(* at u64::MAX, which is never part of a nonce.                            *)
(***************************************************************************)
TypeOK ==
  /\ Held \subseteq Deks
  /\ \A d \in Held : d.key \in known /\ counter[d] \in 0 .. MaxCounter
  /\ backend \in KmsBackend
  /\ wrapped \cup handed \cup regenerated \subseteq known /\ known \subseteq Keys
  /\ current \in Keys \cup {NoKey} /\ retired \subseteq Keys
  /\ rows \in Seq([key : Keys, intact : BOOLEAN])
  /\ metric \in [Keys -> Nat]
  /\ sealed \subseteq Keys \X AeadKind \X (0 .. MaxCounter - 1)
  /\ reused \subseteq sealed

(***************************************************************************)
(* "so the deterministic counter never repeats and plain AES-256-GCM is    *)
(* safe" (DekLifecycle): no key encrypts two messages under one AES-GCM    *)
(* nonce, through restarts, unwraps, changes of cipher, exhaustion of the  *)
(* counter, and rotations that fail midway and are tried again with the    *)
(* same new key.  The one exception is the mock backend after a restart: a *)
(* key it derives a second time is ephemeral again, with its counter at 0, *)
(* and repeats the nonces it was used with before.                         *)
(***************************************************************************)
GcmNoncesUnique ==
  \A x \in reused : x[2] = "Aes256Gcm" =>
    backend = "Mock" /\ x[1] \in regenerated

(***************************************************************************)
(* "atomic-per-call" and "the metric always matches the slice state":      *)
(* however a rotation fails, every envelope of the slice is under the key  *)
(* the caller believes it is under, so the failed rotation can be tried    *)
(* again and a retired key is needed by none; that key is charged for      *)
(* these envelopes, and a key that no rotation has completed to is not     *)
(* charged for the attempts.                                               *)
(***************************************************************************)
SliceUnderOneKey ==
  /\ \A i \in 1 .. Len(rows) : rows[i].key = current /\ current \notin retired
  /\ current # NoKey => metric[current] = Len(rows)
  /\ \A k \in Keys \ (retired \cup {current}) : metric[k] = 0
=============================================================================
