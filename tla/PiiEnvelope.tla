----------------------------- MODULE PiiEnvelope -----------------------------
(***************************************************************************)
(* The sealed form of personal data: EncryptedPii, and the encrypt and     *)
(* decrypt of CryptoCoordinator (arkhe-forge-platform/src/crypto.rs) over  *)
(* the types and the associated data of arkhe-forge-core/src/pii.rs.       *)
(*                                                                         *)
(* A ciphertext is what it was sealed from: key material, cipher, nonce    *)
(* and associated data.  Its tag verifies when all four come back.  How    *)
(* nonces are drawn is in DekRotation; here a nonce has only the shape     *)
(* that its cipher requires, and is as it was drawn or not.                *)
(***************************************************************************)

AeadKinds == {"XChaCha20Poly1305", "Aes256Gcm", "Aes256GcmSiv"}

(* The cargo features that compile a cipher in; tier-2-multi-kms brings    *)
(* tier-1-kms with it.                                                     *)
Compiled(features, kind) ==
  IF kind = "XChaCha20Poly1305"
    THEN {"tier-1-kms", "tier-2-multi-kms"} \cap features # {}
    ELSE "tier-2-multi-kms" \in features

(* NonceBytes::expected_len, as the variant of NonceBytes.                 *)
Shape(kind) == IF kind = "XChaCha20Poly1305" THEN "X24" ELSE "Short12"

(* Mutant: the type of the data is not bound.                              *)
ComputeAadOfKey(dekId, code, kind) == <<dekId, kind>>

(* compute_aad                                                             *)
ComputeAad(dekId, code, kind) == <<dekId, code, kind>>

(* encrypt refuses: TierTooLow, and NonceReuseRisk for a long-lived Dek.   *)
Encrypts(features, cipher, dek) ==
  /\ Compiled(features, cipher)
  /\ cipher = "Aes256Gcm" => dek.lifecycle = "Ephemeral"

(* encrypt of a value of the type with this code.                          *)
Seal(cipher, dek, dekId, code) ==
  [dek_id |-> dekId, pii_code |-> code, aead_kind |-> cipher,
   nonce |-> [shape |-> Shape(cipher), drawn |-> TRUE],
   ciphertext |-> [key |-> dek.key, kind |-> cipher,
                   aad |-> ComputeAad(dekId, code, cipher), intact |-> TRUE]]

(* decrypt_xchacha, decrypt_aes_gcm, decrypt_aes_gcm_siv.                  *)
TagVerifies(e, dek) ==
  /\ e.nonce = [shape |-> Shape(e.aead_kind), drawn |-> TRUE]
  /\ e.ciphertext = [key |-> dek.key, kind |-> e.aead_kind,
                     aad |-> ComputeAad(e.dek_id, e.pii_code, e.aead_kind),
                     intact |-> TRUE]

(* decrypt of an envelope as a value of the type with this code.           *)
Decrypt(features, cipher, e, dek, code) ==
  IF e.pii_code # code THEN "TypeMismatch"
  ELSE IF e.aead_kind # cipher THEN "CipherDowngrade"
  ELSE IF ~Compiled(features, cipher) THEN "TierTooLow"
  ELSE IF TagVerifies(e, dek) THEN "Ok" ELSE "AadMismatch"
=============================================================================
