--------------------------- MODULE ReceiptVerifier ---------------------------
(***************************************************************************)
(* The check of erasure receipts under a policy-pinned signature class:    *)
(* arkhe-forge-platform/src/verifier.rs.                                   *)
(*                                                                         *)
(* Public keys and signatures are byte strings that are taken apart by     *)
(* their length.  Here they are sequences of blocks, one per scheme:       *)
(* [alg, by] for a key, [alg, by, msg] for a signature; a block is as wide *)
(* as its scheme makes it.  A signature verifies under its signer's key    *)
(* over its message.  Errors are the variants of VerifyError.              *)
(***************************************************************************)
EXTENDS Integers, Sequences

Classes == {"None", "Ed25519", "MlDsa65", "Hybrid"}

KeyWidth == [Ed25519 |-> 32, MlDsa65 |-> 1952]
SigWidth == [Ed25519 |-> 64, MlDsa65 |-> 3309]

(* The length of a byte string of blocks.                                  *)
Length(width, s) ==
  LET upto[k \in 0 .. Len(s)] ==
        IF k = 0 THEN 0 ELSE upto[k - 1] + width[s[k].alg]
  IN  upto[Len(s)]

KeyLength(key) == Length(KeyWidth, key)
SigLength(sig) == Length(SigWidth, sig)

(* domain_separated, on both sides.                                        *)
DomainSeparated(msg) == <<"audit receipt", msg>>

(* dek_shred_message                                                       *)
DekShredMessage(id, logIndex) == <<id, logIndex>>

(* ReceiptSigner::sign, and its like of the other scheme.                  *)
SignedBy(alg, by, msg) == <<[alg |-> alg, by |-> by, msg |-> DomainSeparated(msg)]>>

(* The schemes, on one block each: garbled blocks verify nothing.          *)
Garbled == "garbled"

Checks(alg, key, m, sig) ==
  /\ key[1].alg = alg /\ key[1].by # Garbled
  /\ sig = <<[alg |-> alg, by |-> key[1].by, msg |-> m]>>

(* verify_ed25519                                                          *)
VerifyEd25519(key, m, sig) ==
  IF KeyLength(key) # KeyWidth.Ed25519 THEN "WrongKeyLength"
  ELSE IF SigLength(sig) # SigWidth.Ed25519 THEN "WrongSignatureLength"
  ELSE IF Checks("Ed25519", key, m, sig) THEN "Ok" ELSE "Mismatch"

(* verify_ml_dsa65, and its stub in a build without the feature.           *)
VerifyMlDsa65(features, key, m, sig) ==
  IF "tier-2-pqc-receipts" \notin features THEN "PqcUnavailable"
  ELSE IF SigLength(sig) # SigWidth.MlDsa65 THEN "WrongSignatureLength"
  ELSE IF KeyLength(key) # KeyWidth.MlDsa65 THEN "WrongKeyLength"
  ELSE IF Checks("MlDsa65", key, m, sig) THEN "Ok" ELSE "Mismatch"

(* split_at: what lies before and after the boundary.  Blocks that come in *)
(* the other order are cut through, and both parts are garbled.            *)
First(s) == IF s[1].alg = "Ed25519" THEN <<s[1]>> ELSE <<[s[2] EXCEPT !.by = Garbled]>>
Rest(s)  == IF s[1].alg = "Ed25519" THEN <<s[2]>> ELSE <<[s[1] EXCEPT !.by = Garbled]>>

(* Mutant: the post-quantum half is asked only when the other one fails.   *)
VerifyEitherHalf(features, key, m, sig) ==
  IF KeyLength(key) # KeyWidth.Ed25519 + KeyWidth.MlDsa65 THEN "WrongKeyLength"
  ELSE IF SigLength(sig) # SigWidth.Ed25519 + SigWidth.MlDsa65
    THEN "WrongSignatureLength"
  ELSE IF VerifyEd25519(First(key), m, First(sig)) = "Ok" THEN "Ok"
  ELSE VerifyMlDsa65(features, Rest(key), m, Rest(sig))

(* The Hybrid arm of verify_attestation: both halves must pass.            *)
VerifyHybrid(features, key, m, sig) ==
  LET classical == VerifyEd25519(First(key), m, First(sig))
  IN  IF KeyLength(key) # KeyWidth.Ed25519 + KeyWidth.MlDsa65 THEN "WrongKeyLength"
      ELSE IF SigLength(sig) # SigWidth.Ed25519 + SigWidth.MlDsa65
        THEN "WrongSignatureLength"
      ELSE IF classical # "Ok" THEN classical
      ELSE VerifyMlDsa65(features, Rest(key), m, Rest(sig))

(* verify_attestation                                                      *)
VerifyAttestation(features, class, key, msg, sig) ==
  LET m == DomainSeparated(msg)
  IN  CASE class = "None"    -> "SignatureRequired"
        [] class = "Ed25519" -> VerifyEd25519(key, m, sig)
        [] class = "MlDsa65" -> VerifyMlDsa65(features, key, m, sig)
        [] class = "Hybrid"  -> VerifyHybrid(features, key, m, sig)

(* verify_receipt_envelope: the post-quantum slot is a set of at most one  *)
(* signature, the Option of the code.                                      *)
VerifyReceiptEnvelope(features, class, key, msg, classical, pqc) ==
  LET slot == CHOOSE sig \in pqc : TRUE
  IN  IF (pqc # {}) # (class \in {"MlDsa65", "Hybrid"}) THEN "EnvelopeIncoherent"
      ELSE IF class = "MlDsa65" /\ SigLength(classical) # 0 THEN "EnvelopeIncoherent"
      ELSE IF class = "Hybrid" /\ SigLength(classical) # SigWidth.Ed25519
        THEN "WrongSignatureLength"
      ELSE VerifyAttestation(features, class, key, msg,
             CASE class = "MlDsa65" -> slot
               [] class = "Hybrid"  -> classical \o slot
               [] OTHER             -> classical)
=============================================================================
