------------------------------ MODULE KeyCustody ------------------------------
(***************************************************************************)
(* Who can open what: the KMS backends (hf2_kms/kms_backend.rs and         *)
(* aws_kms.rs) with the keys they wrap and destroy, the envelopes sealed   *)
(* under those keys (PiiEnvelope), the manifest a process is started with  *)
(* (manifest.rs) and the receipts of deletions (ReceiptVerifier).          *)
(*                                                                         *)
(* A deployment has one backend.  The mock keeps its keys in the process,  *)
(* the keys of AWS outlive it; wrapped keys and envelopes are stored by    *)
(* the caller and are durable.  A process may be started again with        *)
(* another manifest and another build, AWS may carry a call out and its    *)
(* answer be lost, and the store may hand an envelope back damaged.        *)
(* Cancelling a deletion at AWS is no call of this code and is left out.   *)
(***************************************************************************)
EXTENDS ReceiptVerifier, PiiEnvelope, FiniteSets, SequencesExt

CONSTANTS
  Keks,        (* KekRefs                                                  *)
  Codes,       (* PII_CODEs of the PiiTypes                                *)
  Starts,      (* manifests and cargo feature sets a process is started    *)
               (* with                                                     *)
  MaxIndex,    (* u64::MAX of the destruction log index                    *)
  MaxMade,     (* bound: keys generated by a backend                       *)
  MaxAnswers,  (* bound: deletions answered                                *)
  MaxStored,   (* bound: wrapped keys stored, and Deks held                *)
  MaxLives     (* bound: processes                                         *)

ASSUME CustodyAssumption ==
  /\ MaxIndex \in Nat /\ MaxMade \in Nat /\ MaxAnswers \in Nat
  /\ MaxStored \in Nat /\ MaxLives \in Nat

VARIABLES
  backend,   (* "mock" or "aws"                                            *)
  process,   (* the running process: {} or one of Starts                   *)
  lives,     (* how many there have been                                   *)
  status,    (* what each KEK is to the backend                            *)
  destroyed, (* the mock's cached answers, KEK to index                    *)
  nextIndex, (* destruction_log_index                                      *)
  made,      (* the keys the backend has generated and knows of            *)
  held,      (* the Deks in memory                                         *)
  wraps,     (* the wrapped keys that are stored                           *)
  row,       (* the stored envelope, {} or one                             *)
  sealed,    (* as what it was sealed                                      *)
  answers    (* the deletions that were answered with an attestation       *)

kms  == <<status, destroyed, nextIndex, made>>
rows == <<row, sealed>>
vars == <<backend, process, lives, kms, held, wraps, rows, answers>>

Keys == [kek : Keks, n : 1 .. MaxMade]

Deks == [key : Keys, lifecycle : {"Ephemeral", "LongLived"}]

(* The KEKs that wrap and unwrap.                                          *)
Alive == {k \in Keks : status[k] = "Live"}

-----------------------------------------------------------------------------
(* ManifestLoader::validate                                                *)
Precedes(v, w) == \/ v[1] < w[1]
                  \/ v[1] = w[1] /\ v[2] < w[2]
                  \/ v[1] = w[1] /\ v[2] = w[2] /\ v[3] < w[3]

Validates(m) ==
  /\ m.shell_id_len <= 32
  /\ ~Precedes(m.runtime_max, m.runtime_current)
  /\ m.compliance_tier \in 0 .. 2
  /\ m.compliance_tier = 0 <=> m.dek_backend = "software-kek"
  /\ m.dek_backend = "software-kek" =>
       Precedes(m.runtime_current, <<0, 16, 0>>)
  /\ m.signature_class \in Classes

(* The integrator gives a software KEK to the mock, the rest to AWS.       *)
BackendOf(m) == IF m.dek_backend = "software-kek" THEN "mock" ELSE "aws"

Init ==
  /\ backend \in {"mock", "aws"}
  /\ process = {} /\ lives = 0
  /\ status = [k \in Keks |-> "Unknown"] /\ made = {}
  /\ destroyed = [k \in {} |-> 0] /\ nextIndex = 0
  /\ held = {} /\ wraps = {}
  /\ row = {} /\ sealed = {}
  /\ answers = <<>>

Boot(start) ==
  /\ process = {} /\ lives < MaxLives
  /\ Validates(start.manifest) /\ BackendOf(start.manifest) = backend
  /\ process' = {start}
  /\ lives' = lives + 1
  /\ UNCHANGED <<backend, kms, held, wraps, rows, answers>>

(* ManifestError: nothing is started.                                      *)
BootRefused(start) ==
  /\ process = {} /\ ~Validates(start.manifest)
  /\ UNCHANGED vars

(* The process ends.  Its Deks are dropped; so is the mock, and with AWS   *)
(* only the destruction index starts again.                                *)
Stop ==
  /\ process # {}
  /\ process' = {} /\ held' = {} /\ nextIndex' = 0
  /\ destroyed' = [k \in {} |-> 0]
  /\ IF backend = "mock" THEN status' = [k \in Keks |-> "Unknown"] /\ made' = {}
                         ELSE UNCHANGED <<status, made>>
  /\ UNCHANGED <<backend, lives, wraps, rows, answers>>

Up == process # {}
-----------------------------------------------------------------------------
(* register_kek, whose pad is that of the name; at AWS the key is created  *)
(* by its owner, once.                                                     *)
RegisterKek(k) ==
  /\ Up
  /\ status[k] \in IF backend = "mock" THEN {"Unknown", "Gone"} ELSE {"Unknown"}
  /\ status' = [status EXCEPT ![k] = "Live"]
  /\ UNCHANGED <<backend, process, lives, destroyed, nextIndex, made, held, wraps,
                 rows, answers>>

(* generate_dek: the mock counts the keys of its process.                  *)
GenerateDek(k) ==
  LET key == [kek |-> k, n |-> Cardinality(made) + 1]
  IN  /\ Up /\ k \in Alive
      /\ Cardinality(made) < MaxMade /\ Cardinality(held) < MaxStored
      /\ made' = made \cup {key}
      /\ held' = held \cup {[key |-> key, lifecycle |-> "Ephemeral"]}
      /\ UNCHANGED <<backend, process, lives, status, destroyed, nextIndex, wraps,
                     rows, answers>>

(* wrap_dek, under any KEK; the caller stores the result.                  *)
WrapDek(dek, k) ==
  /\ Up /\ dek \in held /\ k \in Alive
  /\ wraps' = wraps \cup {[key |-> dek.key, kek |-> k]}
  /\ Cardinality(wraps') <= MaxStored
  /\ UNCHANGED <<backend, process, lives, kms, held, rows, answers>>

(* Mutant: the marker is compared, and the KEK is not looked up.           *)
UnwrapByMarker(w, k) ==
  /\ Up /\ w \in wraps /\ w.kek = k
  /\ held' = held \cup {[key |-> w.key, lifecycle |-> "LongLived"]}
  /\ Cardinality(held') <= MaxStored
  /\ UNCHANGED <<backend, process, lives, kms, wraps, rows, answers>>

(* unwrap_dek; under another KEK or a deleted one it is refused.           *)
UnwrapDek(w, k) ==
  /\ Up /\ w \in wraps
  /\ k \in Alive /\ w.kek = k
  /\ held' = held \cup {[key |-> w.key, lifecycle |-> "LongLived"]}
  /\ Cardinality(held') <= MaxStored
  /\ UNCHANGED <<backend, process, lives, kms, wraps, rows, answers>>

(* The coordinator drops a Dek.                                            *)
DropDek(dek) ==
  /\ dek \in held
  /\ held' = held \ {dek}
  /\ UNCHANGED <<backend, process, lives, kms, wraps, rows, answers>>

(* rotate_kek finds both KEKs and leaves the re-wrapping to its caller,    *)
(* who unwraps and wraps: nothing changes that a later call reads.         *)
RotateKek ==
  /\ Up /\ Alive # {}
  /\ UNCHANGED vars

-----------------------------------------------------------------------------
Answer(k, index) ==
  /\ Len(answers) < MaxAnswers
  /\ answers' = Append(answers, [kek |-> k, index |-> index, life |-> lives])

(* The mock answers from its cache, whatever has been registered since.    *)
DeleteCached(k) ==
  /\ backend = "mock" /\ Up /\ k \in DOMAIN destroyed
  /\ Answer(k, destroyed[k])
  /\ UNCHANGED <<backend, process, lives, kms, held, wraps, rows>>

(* The index saturates.                                                    *)
DeleteFresh(k) ==
  /\ backend = "mock" /\ Up /\ k \notin DOMAIN destroyed /\ k \in Alive
  /\ Answer(k, nextIndex)
  /\ nextIndex' = IF nextIndex < MaxIndex THEN nextIndex + 1 ELSE MaxIndex
  /\ status' = [status EXCEPT ![k] = "Gone"]
  /\ destroyed' = [j \in DOMAIN destroyed \cup {k} |->
                     IF j = k THEN nextIndex ELSE destroyed[j]]
  /\ UNCHANGED <<backend, process, lives, made, held, wraps, rows>>

(* schedule_key_deletion was answered Ok; the index wraps.  Whether AWS    *)
(* schedules a key again that is scheduled is its affair.                  *)
DeleteScheduled(k) ==
  /\ backend = "aws" /\ Up /\ status[k] # "Unknown"
  /\ Answer(k, nextIndex)
  /\ nextIndex' = (nextIndex + 1) % (MaxIndex + 1)
  /\ status' = [status EXCEPT ![k] = "Gone"]
  /\ UNCHANGED <<backend, process, lives, destroyed, made, held, wraps, rows>>

(* Mutant: the index is taken before the call.                             *)
DeleteAnswerLostWithIndex(k) ==
  /\ backend = "aws" /\ Up /\ k \in Alive
  /\ status' = [status EXCEPT ![k] = "Gone"]
  /\ nextIndex' = (nextIndex + 1) % (MaxIndex + 1)
  /\ UNCHANGED <<backend, process, lives, destroyed, made, held, wraps, rows, answers>>

(* The deletion is scheduled and the caller is told of an error.           *)
DeleteAnswerLost(k) ==
  /\ backend = "aws" /\ Up /\ k \in Alive
  /\ status' = [status EXCEPT ![k] = "Gone"]
  /\ UNCHANGED <<backend, process, lives, destroyed, nextIndex, made, held, wraps,
                 rows, answers>>

-----------------------------------------------------------------------------
Running == CHOOSE p \in process : TRUE

Features == Running.features
Cipher   == Running.manifest.pii_cipher

(* encrypt, under the id the key was generated with; the caller stores it. *)
Encrypt(dek, code) ==
  /\ Up /\ dek \in held /\ row = {}
  /\ Encrypts(Features, Cipher, dek)
  /\ row' = {Seal(Cipher, dek, dek.key, code)}
  /\ sealed' = {[key |-> dek.key, code |-> code, kind |-> Cipher]}
  /\ UNCHANGED <<backend, process, lives, kms, held, wraps, answers>>

(* Calls that answer an error and change nothing: KekNotFound and          *)
(* UnwrapFailed, whatever AWS refuses, TierTooLow and NonceReuseRisk.      *)
Refused ==
  /\ Up
  /\ \/ Keks \ Alive # {}
     \/ {w \in wraps : w.kek \notin Alive} # {}
     \/ backend = "aws"
     \/ {dek \in held : ~Encrypts(Features, Cipher, dek)} # {}
  /\ UNCHANGED vars

(* What the store may hand back for an envelope with one field replaced.   *)
Damaged(e) ==
  ({[e EXCEPT !.pii_code = c] : c \in Codes}
     \cup {[e EXCEPT !.dek_id = id] : id \in Keys}
     \cup {[e EXCEPT !.aead_kind = kind] : kind \in AeadKinds}
     \cup {[e EXCEPT !.nonce.shape = shape] : shape \in {"X24", "Short12"}}
     \cup {[e EXCEPT !.nonce.drawn = FALSE], [e EXCEPT !.ciphertext.intact = FALSE]})
  \ {e}

Next ==
  \/ \E start \in Starts : Boot(start) \/ BootRefused(start)
  \/ Stop \/ RotateKek \/ Refused
  \/ \E k \in Keks :
       \/ RegisterKek(k) \/ GenerateDek(k)
       \/ DeleteCached(k) \/ DeleteFresh(k) \/ DeleteScheduled(k) \/ DeleteAnswerLost(k)
       \/ \E dek \in held : WrapDek(dek, k)
       \/ \E w \in wraps : UnwrapDek(w, k)
  \/ \E dek \in held : DropDek(dek) \/ \E code \in Codes : Encrypt(dek, code)

Spec == Init /\ [][Next]_vars

-----------------------------------------------------------------------------
(***************************************************************************)
(* An envelope opens under the key, for the type, under the cipher it was  *)
(* sealed with, in a build that has the cipher, and not otherwise: through *)
(* restarts with another manifest or another build, keys that were wrapped *)
(* again under another KEK, and whichever field is damaged in the store.   *)
(***************************************************************************)
OpensAsSealed ==
  \A stored \in row, s \in sealed, dek \in held, code \in Codes :
    \A e \in {stored} \cup Damaged(stored) :
      Decrypt(Features, Cipher, e, dek, code) = "Ok" <=>
        /\ e = stored /\ dek.key = s.key /\ code = s.code
        /\ Cipher = s.kind /\ Compiled(Features, Cipher)

(* No Dek of the key is in memory and no live KEK unwraps it.              *)
Lost(key) ==
  /\ \A dek \in held : dek.key # key
  /\ \A w \in wraps : w.key = key => w.kek \notin Alive

(***************************************************************************)
(* Crypto-erasure: a key that is in nobody's memory, and that no live KEK  *)
(* unwraps, never comes back, whether its KEK's deletion was answered or   *)
(* the answer was lost.  Only the mock brings one back, by registering a   *)
(* KEK under a name that was in use before, whose pad is the same.         *)
(***************************************************************************)
LostStaysLost ==
  [][\A key \in made : Lost(key) =>
       \/ Lost(key)'
       \/ (backend = "mock" /\ ~(Alive' \subseteq Alive))]_vars

(***************************************************************************)
(* "Monotonic destruction-log sequence — used by the transparency layer    *)
(* for gap detection": while it runs, a process numbers the deletions it   *)
(* answers from 0 without a gap, also where a call to AWS failed after it  *)
(* took effect, and gives no two KEKs one number.  The mock gives one KEK  *)
(* one number whenever it is asked again.                                  *)
(***************************************************************************)
AttestationsNumbered ==
  LET mine == {i \in DOMAIN answers : answers[i].life = lives}
      used == {answers[i].index : i \in mine}
  IN  Cardinality(mine) <= MaxIndex + 1 =>
        /\ used = 0 .. Cardinality(used) - 1
        /\ \A i, j \in mine :
             answers[i].index = answers[j].index <=>
               i = j \/ (backend = "mock" /\ answers[i].kek = answers[j].kek)

-----------------------------------------------------------------------------
(* What an auditor may be handed for the last deletion answered: pieces    *)
(* signed over it, over the one before it, in another protocol's domain,   *)
(* by somebody else, or nothing.                                           *)
MessageOf(a) == DekShredMessage(a.kek, a.index)

Pieces(msg) ==
  LET old == MessageOf(answers[1])
  IN  {<<>>, SignedBy("Ed25519", "auditee", msg), SignedBy("MlDsa65", "auditee", msg),
       SignedBy("Ed25519", "auditee", old), SignedBy("MlDsa65", "auditee", old),
       SignedBy("MlDsa65", "other", msg),
       <<[alg |-> "MlDsa65", by |-> "auditee", msg |-> <<"WAL record", msg>>]>>}

PublicKey(alg) == <<[alg |-> alg, by |-> "auditee"]>>

PublicKeys ==
  {PublicKey("Ed25519"), PublicKey("MlDsa65"),
   PublicKey("Ed25519") \o PublicKey("MlDsa65"),
   PublicKey("MlDsa65") \o PublicKey("Ed25519")}

(* What the class of the policy asks for, and nothing besides.             *)
Genuine(class, key, msg, classical, pqc) ==
  LET of(alg, x, none) == IF class \in {alg, "Hybrid"} THEN x ELSE none
  IN  /\ class # "None"
      /\ key = of("Ed25519", PublicKey("Ed25519"), <<>>)
                 \o of("MlDsa65", PublicKey("MlDsa65"), <<>>)
      /\ classical = of("Ed25519", SignedBy("Ed25519", "auditee", msg), <<>>)
      /\ pqc = of("MlDsa65", {SignedBy("MlDsa65", "auditee", msg)}, {})

(***************************************************************************)
(* A receipt of a deletion verifies exactly when each half that the policy *)
(* of the manifest requires signs this deletion, in this domain, under the *)
(* right key and in its own slot: no half stands in for the other, none is *)
(* carried along unchecked, and a receipt of another deletion, or of a KEK *)
(* at another index, does not pass.  (What the process holds plays no part *)
(* in it: it is evaluated where nothing is held.)                          *)
(***************************************************************************)
ReceiptsBindOneDeletion ==
  answers # <<>> /\ Up /\ held = {} =>
    LET msg == MessageOf(answers[Len(answers)])
        class == Running.manifest.signature_class
        pieces == Pieces(msg)
    IN  \A key \in PublicKeys, classical \in pieces,
           pqc \in {{}} \cup {{p} : p \in pieces} :
          VerifyReceiptEnvelope(Features, class, key, msg, classical, pqc) = "Ok" <=>
            /\ Genuine(class, key, msg, classical, pqc)
            /\ class # "Ed25519" => "tier-2-pqc-receipts" \in Features
=============================================================================
