----------------------------- MODULE MCKeyCustody -----------------------------
(***************************************************************************)
(* KeyCustody on a small instance: manifests of a development and of a     *)
(* production shell, one of which must be refused, and builds with and     *)
(* without the ciphers and the post-quantum verifier.                      *)
(***************************************************************************)
EXTENDS KeyCustody, TLC

CONSTANTS k1, k2, c1, c2

Names == {p @@ q : p \in Permutations(Keks), q \in Permutations(Codes)}

Start(version, tier, store, cipher, class, features) ==
  [manifest |-> [shell_id_len |-> 32, runtime_current |-> version,
                 runtime_max |-> <<0, 16, 0>>, compliance_tier |-> tier,
                 dek_backend |-> store, pii_cipher |-> cipher, signature_class |-> class],
   features |-> features]

Tier1 == {"tier-1-kms"}
Tier2 == {"tier-2-multi-kms"}
Full  == {"tier-2-multi-kms", "tier-2-pqc-receipts"}

MCStarts ==
  {Start(<<0, 15, 1>>, 0, "software-kek", "XChaCha20Poly1305", "None", Tier1),
   Start(<<0, 15, 1>>, 0, "software-kek", "Aes256GcmSiv", "Ed25519", Full),
   Start(<<0, 16, 0>>, 0, "software-kek", "XChaCha20Poly1305", "None", Tier1),
   Start(<<0, 15, 1>>, 2, "aws-kms", "Aes256Gcm", "Hybrid", Full),
   Start(<<0, 16, 0>>, 2, "aws-kms", "Aes256Gcm", "MlDsa65", Tier1),
   Start(<<0, 16, 0>>, 2, "aws-kms", "Aes256GcmSiv", "MlDsa65", Tier2)}
===============================================================================
