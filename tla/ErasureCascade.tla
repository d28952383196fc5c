--------------------------- MODULE ErasureCascade ---------------------------
(***************************************************************************)
(* Crypto-erasure: ErasureCascadeObserver, the DEK shredder and the PII    *)
(* row store of arkhe-forge-platform/src/crypto_erasure.rs.                *)
(*                                                                         *)
(* The observer is the projection of UserErasureScheduled.  For each such  *)
(* event it shreds the key the user's rows are wrapped under, then         *)
(* tombstones the rows, then queues a completion, which its caller drains  *)
(* into a UserErasureCompleted receipt.  on_event runs to its end under    *)
(* &mut self, so it is one step; what is nondeterministic is which of its  *)
(* calls fails, and when the process dies.  The row store (a table) and    *)
(* the shredder (an HSM) sit behind traits and outlive the process; the    *)
(* observer's cursor and its queue of completions do not.                  *)
(***************************************************************************)
EXTENDS Integers, Sequences, FiniteSets, Functions

CONSTANTS
  Users,
  Deks,
  NoDek,        (* the None of Option<DekId>                               *)
  DekOf,        (* the key a user's PII is written under                   *)
  Signing,      (* TRUE for SigningDekShredder, FALSE for InMemory...      *)
  MaxLogIndex,  (* u64::MAX of next_log_index                              *)
  MaxEvents,    (* bound: the length of the event stream                   *)
  MaxCrashes    (* bound: how often the process dies                       *)

NoLogIndex == -1

ASSUME CascadeAssumption ==
  /\ NoDek \notin Deks
  /\ DekOf \in [Users -> Deks]
  /\ \A u, v \in Users : DekOf[u] = DekOf[v] => u = v
  /\ Signing \in BOOLEAN
  /\ MaxLogIndex \in Nat
  /\ MaxEvents \in Nat /\ MaxCrashes \in Nat

VARIABLES
  live,         (* shredder: the keys that can still decrypt               *)
  shredded,     (* shredder: the attestation cached for each shredded key  *)
  nextLogIndex, (* shredder: next_log_index                                *)
  rows,         (* store: the key of each user that has rows               *)
  tombstoned,   (* store: the users whose rows were tombstoned             *)
  stream,       (* the users named by the UserErasureScheduled events      *)
  cursor,       (* observer: how many events of stream it has applied      *)
  completions,  (* observer: the completions not drained yet               *)
  receipts,     (* the completions drained so far                          *)
  crashes

shredder == <<live, shredded, nextLogIndex>>
store    == <<rows, tombstoned>>
observer == <<cursor, completions>>

vars == <<shredder, store, observer, stream, receipts, crashes>>

Attestations == {a \in [dek   : Deks \cup {NoDek},
                         class : {"None", "MlDsa65"},
                         log   : NoLogIndex .. MaxLogIndex] :
                  a.dek = NoDek <=> a.log = NoLogIndex}

(* The placeholder of a cascade that found no key to shred.                *)
Synthetic == [dek |-> NoDek, class |-> "None", log |-> NoLogIndex]

HasRows(u) == u \in DOMAIN rows

-----------------------------------------------------------------------------
Init ==
  /\ live = {}
  /\ shredded = [d \in {} |-> Synthetic]
  /\ nextLogIndex = 0
  /\ rows = [u \in {} |-> NoDek]
  /\ tombstoned = {}
  /\ stream = <<>>
  /\ cursor = 0
  /\ completions = <<>>
  /\ receipts = {}
  /\ crashes = 0

(* register, of a key the shredder does not know.                          *)
RegisterDek(d) ==
  /\ d \notin live \cup DOMAIN shredded
  /\ live' = live \cup {d}
  /\ UNCHANGED <<shredded, nextLogIndex, store, observer, stream, receipts, crashes>>

(* upsert: PII is written for a user that has not been erased.             *)
UpsertRows(u) ==
  /\ u \notin tombstoned
  /\ ~HasRows(u)
  /\ rows' = [v \in DOMAIN rows \cup {u} |-> IF v = u THEN DekOf[u] ELSE rows[v]]
  /\ UNCHANGED <<shredder, tombstoned, observer, stream, receipts, crashes>>

(* GdprEraseUser was committed: its event is on the stream.  A user may    *)
(* ask again.                                                              *)
ScheduleErasure(u) ==
  /\ Len(stream) < MaxEvents
  /\ stream' = Append(stream, u)
  /\ UNCHANGED <<shredder, store, observer, receipts, crashes>>

-----------------------------------------------------------------------------
(* issue_attestation with its checked_add.                                 *)
IssueAttestation(d, att) ==
  /\ nextLogIndex < MaxLogIndex
  /\ att = [dek   |-> d,
            class |-> IF Signing THEN "MlDsa65" ELSE "None",
            log   |-> nextLogIndex]
  /\ nextLogIndex' = nextLogIndex + 1

(* shred of a key that was shredded before answers from the cache.         *)
ShredCached(d, att) ==
  /\ d \in DOMAIN shredded
  /\ att = shredded[d]
  /\ UNCHANGED shredder

(* Mutant: the cache keeps the unsigned placeholder.                       *)
ShredFreshStaleCache(d, att) ==
  /\ d \notin DOMAIN shredded
  /\ d \in live
  /\ live' = live \ {d}
  /\ IssueAttestation(d, att)
  /\ shredded' = [k \in DOMAIN shredded \cup {d} |->
                    IF k = d THEN [att EXCEPT !.class = "None"] ELSE shredded[k]]

ShredFresh(d, att) ==
  /\ d \notin DOMAIN shredded
  /\ d \in live
  /\ live' = live \ {d}
  /\ IssueAttestation(d, att)
  /\ shredded' = [k \in DOMAIN shredded \cup {d} |->
                    IF k = d THEN att ELSE shredded[k]]

ShredOk(d, att) == ShredCached(d, att) \/ ShredFresh(d, att)

(* UnknownDek, or a backend's own error: the shredder is as it was.        *)
ShredRefused(d) == UNCHANGED shredder

(* The index overflows after the key has been taken out of live.           *)
ShredOverflows(d) ==
  /\ d \notin DOMAIN shredded
  /\ d \in live
  /\ nextLogIndex = MaxLogIndex
  /\ live' = live \ {d}
  /\ UNCHANGED <<shredded, nextLogIndex>>

ShredFails(d) == ShredRefused(d) \/ ShredOverflows(d)

-----------------------------------------------------------------------------
(* The user of the event that on_event is handed next.                     *)
Incoming == stream[cursor + 1]

TombstoneRows(u) ==
  /\ rows' = Restrict(rows, DOMAIN rows \ {u})
  /\ tombstoned' = tombstoned \cup {u}

(* Mutant: a user whose rows were tombstoned before is not reported again. *)
CompleteOnce(u, att, regions) ==
  /\ completions' = IF u \in tombstoned THEN completions
                     ELSE Append(completions,
                            [user |-> u, attestation |-> att, regions |-> regions])
  /\ cursor' = cursor + 1

Complete(u, att, regions) ==
  /\ completions' = Append(completions,
                      [user |-> u, attestation |-> att, regions |-> regions])
  /\ cursor' = cursor + 1

(* Mutant: rows are tombstoned before the key is shredded.                 *)
CascadeStopsRowsFirst ==
  /\ cursor < Len(stream)
  /\ HasRows(Incoming)
  /\ ShredFails(rows[Incoming])
  /\ TombstoneRows(Incoming)
  /\ UNCHANGED <<observer, stream, receipts, crashes>>

(* on_event stops in the shredder.                                         *)
CascadeStopsAtShred ==
  /\ cursor < Len(stream)
  /\ HasRows(Incoming)
  /\ ShredFails(rows[Incoming])
  /\ UNCHANGED <<store, observer, stream, receipts, crashes>>

(* on_event stops in the store, with the key already shredded.             *)
CascadeStopsAtTombstone ==
  /\ cursor < Len(stream)
  /\ IF HasRows(Incoming) THEN \E att \in Attestations : ShredOk(rows[Incoming], att)
                          ELSE UNCHANGED shredder
  /\ UNCHANGED <<store, observer, stream, receipts, crashes>>

(* on_event for a user the store knows no key of.                          *)
CascadeWithoutKey ==
  /\ cursor < Len(stream)
  /\ ~HasRows(Incoming)
  /\ TombstoneRows(Incoming)
  /\ Complete(Incoming, Synthetic, 0)
  /\ UNCHANGED <<shredder, stream, receipts, crashes>>

(* Mutant: the rows of a user with a key are not tombstoned.               *)
CascadeWithKeyOnly ==
  /\ cursor < Len(stream)
  /\ HasRows(Incoming)
  /\ \E att \in Attestations : /\ ShredOk(rows[Incoming], att)
                               /\ Complete(Incoming, att, 1)
  /\ UNCHANGED <<store, stream, receipts, crashes>>

(* on_event for a user with rows: shred, tombstone, complete.              *)
CascadeWithKey ==
  /\ cursor < Len(stream)
  /\ HasRows(Incoming)
  /\ \E att \in Attestations : /\ ShredOk(rows[Incoming], att)
                               /\ Complete(Incoming, att, 1)
  /\ TombstoneRows(Incoming)
  /\ UNCHANGED <<stream, receipts, crashes>>

(* drain_completions; the caller emits a UserErasureCompleted for each.    *)
Drain ==
  /\ completions # <<>>
  /\ receipts' = receipts \cup Range(completions)
  /\ completions' = <<>>
  /\ UNCHANGED <<shredder, store, cursor, stream, crashes>>

(* The process dies and a new observer is replayed from the WAL.           *)
Crash ==
  /\ crashes < MaxCrashes
  /\ crashes' = crashes + 1
  /\ cursor' = 0
  /\ completions' = <<>>
  /\ UNCHANGED <<shredder, store, stream, receipts>>

Cascade == CascadeWithKey \/ CascadeWithoutKey

Next ==
  \/ \E d \in Deks : RegisterDek(d)
  \/ \E u \in Users : UpsertRows(u) \/ ScheduleErasure(u)
  \/ Cascade \/ CascadeStopsAtShred \/ CascadeStopsAtTombstone
  \/ Drain \/ Crash

Spec == Init /\ [][Next]_vars

(* The router retries a pinned event, on_event does not fail for ever, the *)
(* caller drains, and the deployment registers the keys it writes under.   *)
FairSpec == /\ Spec
            /\ WF_vars(Cascade) /\ WF_vars(Drain)
            /\ \A d \in Deks : WF_vars(RegisterDek(d))

-----------------------------------------------------------------------------
(***************************************************************************)
(* There is no "window where rows look dead while the DEK is still live"   *)
(* (on_event), and a failed cascade leaves "a clean retry state",          *)
(* whichever call fails and wherever the process dies: rows leave the      *)
(* store only when their key can no longer decrypt them and an attestation *)
(* of its destruction is cached; and as long as the log has an index left, *)
(* a key stops being live only by being shredded, its attestation kept.    *)
(* (At the last index the key is gone before the checked_add fails.)       *)
(* This is the order of on_event and its comment; the numbered list over   *)
(* ErasureCascadeObserver has it the other way round, tombstone (2) and    *)
(* then shred (3), which the property denies.                              *)
(***************************************************************************)
RowsDieAfterTheirKey ==
  [][/\ \A u \in DOMAIN rows \ DOMAIN rows' :
          rows[u] \notin live' /\ rows[u] \in DOMAIN shredded'
     /\ nextLogIndex < MaxLogIndex =>
          live \ live' \subseteq DOMAIN shredded']_vars

(***************************************************************************)
(* A receipt is a proof of destruction: its user's rows are tombstoned,    *)
(* and if it names a key it is that user's, the key is destroyed and the   *)
(* shredder would answer with the very same attestation again.             *)
(***************************************************************************)
ReceiptsProveDestruction ==
  \A c \in receipts \cup Range(completions) :
    /\ c.user \in tombstoned /\ ~HasRows(c.user)
    /\ c.attestation # Synthetic =>
         /\ c.attestation.dek = DekOf[c.user]
         /\ c.attestation.dek \notin live
         /\ c.attestation.dek \in DOMAIN shredded
         /\ shredded[c.attestation.dek] = c.attestation

(***************************************************************************)
(* "replay re-runs tombstone under the cached attestation": through every  *)
(* failure and replay one key has one attestation, of the configured       *)
(* class, at a log index of its own ("colliding log entries" would break   *)
(* the transparency layer's gap detection).                                *)
(***************************************************************************)
OneAttestationPerKey ==
  LET issued == {c.attestation : c \in receipts \cup Range(completions)}
                  \ {Synthetic}
  IN  /\ \A a \in issued : a.class = IF Signing THEN "MlDsa65" ELSE "None"
      /\ \A a, b \in issued : a.dek = b.dek \/ a.log = b.log => a = b

(***************************************************************************)
(* "the emit path must never synthesise a replacement attestation" (the    *)
(* idempotency contract of DekShredder): the receipt of a user whose key   *)
(* was shredded carries the shredder's attestation.                        *)
(***************************************************************************)
NoReplacementAttestation ==
  \A r \in receipts : DekOf[r.user] \in DOMAIN shredded =>
                        r.attestation # Synthetic

(* The log has no index left for the key of u.                             *)
LogIsFullFor(u) == nextLogIndex = MaxLogIndex /\ DekOf[u] \notin DOMAIN shredded

(***************************************************************************)
(* Every accepted erasure is carried through: the rows are tombstoned and  *)
(* a receipt is handed out, although each call may fail and the process    *)
(* may die with completions it has not drained.  Only a full log stops it. *)
(***************************************************************************)
EveryErasureCompletes ==
  \A u \in Users :
    u \in Range(stream) ~>
      \/ u \in tombstoned /\ \E r \in receipts : r.user = u
      \/ LogIsFullFor(u)
=============================================================================
