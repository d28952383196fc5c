---------------------------- MODULE DoctorJournal ----------------------------
(***************************************************************************)
(* InMemoryJournal of arkhe-forge-platform/src/hf2_kms/journal.rs: the     *)
(* chain of consumed authorization tokens, each entry signed.              *)
(*                                                                         *)
(* The hash is collision-free and a signature names its key and what it    *)
(* signs.  A reader may be handed anything in place of the journal: the    *)
(* operators that verify a log take the log as an argument.                *)
(***************************************************************************)
EXTENDS Integers, Sequences

CONSTANTS
  TokenHashes,  (* identifiers of tokens                                   *)
  Ticks,        (* consumed_at_tick                                        *)
  Signers       (* JournalSigners, each standing for its public key        *)

VARIABLES
  entries,  (* the chain                                                   *)
  seen      (* the token hashes that append turns away                     *)

journal == <<entries, seen>>

Tokens == [token_hash : TokenHashes, tick : Ticks]

-----------------------------------------------------------------------------
GenesisPrevHash == <<>>

(* compute_entry_hash                                                      *)
EntryHash(prev, token) == <<prev, token>>

(* JournalSigner::sign                                                     *)
Signed(signer, hash) == <<signer, hash>>

TipHash(log) ==
  IF log = <<>> THEN GenesisPrevHash ELSE log[Len(log)].entry_hash

(* Mutant: every entry starts a chain of its own.                          *)
EntryUnchained(log, token, signer) ==
  LET hash == EntryHash(GenesisPrevHash, token)
  IN  [token |-> token, prev_hash |-> GenesisPrevHash, entry_hash |-> hash,
       signature |-> Signed(signer, hash), signer_pubkey |-> signer]

(* The entry that append puts after a log.                                 *)
Entry(log, token, signer) ==
  LET hash == EntryHash(TipHash(log), token)
  IN  [token |-> token, prev_hash |-> TipHash(log), entry_hash |-> hash,
       signature |-> Signed(signer, hash), signer_pubkey |-> signer]

(* Mutant: a token consumed at another tick is another token.              *)
IsDuplicateAtTick(token) == \E i \in DOMAIN entries : entries[i].token = token

IsDuplicate(token) == token.token_hash \in seen

(* append                                                                  *)
Consume(token, signer) ==
  /\ ~IsDuplicate(token)
  /\ entries' = Append(entries, Entry(entries, token, signer))
  /\ seen' = seen \cup {token.token_hash}

(* DuplicateToken                                                          *)
ConsumeRefused(token) == IsDuplicate(token) /\ UNCHANGED journal

-----------------------------------------------------------------------------
PrevHash(log, i) == TipHash(SubSeq(log, 1, i - 1))

(* Mutant: the signature is not checked.                                   *)
EntryVerifiesUnsigned(log, i) ==
  /\ log[i].prev_hash = PrevHash(log, i)
  /\ log[i].entry_hash = EntryHash(log[i].prev_hash, log[i].token)

(* The round of verify_chain for entry i.                                  *)
EntryVerifies(log, i) ==
  /\ log[i].prev_hash = PrevHash(log, i)
  /\ log[i].entry_hash = EntryHash(log[i].prev_hash, log[i].token)
  /\ log[i].signature = Signed(log[i].signer_pubkey, log[i].entry_hash)

VerifyChain(log) == \A i \in 1 .. Len(log) : EntryVerifies(log, i)

(* verify_chain_anchored                                                   *)
VerifyChainAnchored(log, trusted_pubkey, expected_tip, expected_len) ==
  /\ Len(log) = expected_len
  /\ VerifyChain(log)
  /\ \A i \in 1 .. Len(log) : log[i].signer_pubkey = trusted_pubkey
  /\ TipHash(log) = expected_tip

-----------------------------------------------------------------------------
JournalInit == entries = <<>> /\ seen = {}

JournalNext ==
  \E token \in Tokens :
    \/ \E signer \in Signers : Consume(token, signer)
    \/ ConsumeRefused(token)

JournalSpec == JournalInit /\ [][JournalNext]_journal

-----------------------------------------------------------------------------
(***************************************************************************)
(* "Same-token reuse detected": no token is on the record twice, whatever  *)
(* it was consumed at and whoever signed.                                  *)
(***************************************************************************)
TokenConsumedOnce ==
  \A i, j \in 1 .. Len(entries) :
    i # j => entries[i].token.token_hash # entries[j].token.token_hash

(***************************************************************************)
(* The chain that append builds, and every prefix of it that was published *)
(* on the way, passes verify_chain, through changes of the signer.         *)
(***************************************************************************)
HonestLogVerifies ==
  \A n \in 0 .. Len(entries) : VerifyChain(SubSeq(entries, 1, n))

-----------------------------------------------------------------------------
(* The log that appending these tokens builds.                             *)
Rebuilt(tokens, signer) ==
  LET log[n \in 0 .. Len(tokens)] ==
        IF n = 0 THEN <<>>
        ELSE Append(log[n - 1], Entry(log[n - 1], tokens[n], signer))
  IN  log[Len(tokens)]

(* What a field of an entry may be changed to; a signature, to another     *)
(* signature of any key under any hash of the log.                         *)
Changed(entry, hashes) ==
  {[entry EXCEPT !.token = t] : t \in Tokens}
    \cup {[entry EXCEPT !.prev_hash = h] : h \in hashes}
    \cup {[entry EXCEPT !.entry_hash = h] : h \in hashes}
    \cup {[entry EXCEPT !.signer_pubkey = s] : s \in Signers}
    \cup {[entry EXCEPT !.signature = Signed(s, h)] : s \in Signers, h \in hashes}

(* What a reader may be handed in place of the log: the log cut short,     *)
(* with a field changed, or written anew.                                  *)
Copies(log) ==
  LET n == Len(log)
      hashes == {log[i].entry_hash : i \in 1 .. n} \cup {GenesisPrevHash}
      lists == UNION {[1 .. m -> Tokens] : m \in 0 .. n}
  IN  {SubSeq(log, 1, m) : m \in 0 .. n}
      \cup (UNION {{[log EXCEPT ![i] = x] : x \in Changed(log[i], hashes)} : i \in 1 .. n})
      \cup (UNION {{Rebuilt(ts, s) : ts \in lists} : s \in Signers})

(***************************************************************************)
(* What verify_chain_anchored is for: with the key that signed the journal *)
(* and the tip and length published after some append it accepts the       *)
(* journal as it was then and no other log.                                *)
(***************************************************************************)
AnchoredMeansPublished ==
  LET copies == Copies(entries)
  IN  \A n \in 0 .. Len(entries), key \in Signers :
        LET then == SubSeq(entries, 1, n)
        IN  (\A i \in 1 .. n : then[i].signer_pubkey = key) =>
              \A copy \in copies :
                VerifyChainAnchored(copy, key, TipHash(then), n) <=> copy = then
=============================================================================
