# ArkheForge in TLA+

ArkheForge is a Rust runtime on top of a deterministic kernel (`arkhe_kernel`,
a library outside this repository).  This directory holds TLA+ models of its
stateful parts, the TLC configurations that check them, and TLAPS proofs of the
properties that matter most.  Paths below are relative to `src/`.

## 1. The system

Layers: **L0** is the kernel: it logs every submitted action in a WAL, runs it
and applies the operations it produced.  **L1** (`arkhe-forge-core`) is the set
of actions, components and events.  **L2** (`arkhe-forge-platform`) is
everything around it: the dispatcher, projections, keys, erasure, WAL export.

One erasure crosses all of it: `RuntimeService::dispatch` takes a
`GdprEraseUser`, the kernel logs and runs it, its compute sets the user's
pointer to `ErasurePending` and emits `UserErasureScheduled`; a feeder hands
that event to the `ProjectionRouter`; the router hands it to the
`ErasureCascadeObserver`; that shreds the user's key, tombstones the rows and
queues a completion, which its caller turns into a `UserErasureCompleted`
receipt.  The WAL that recovery replays is exported through `BufferedWalSink`.

Other code reaches the same components without the dispatcher: a caller may
build an `ActionContext` of its own, with a view and indexes, and run actions on
it.  The keys that erasure destroys live in a KMS backend, chosen by the
manifest, which wraps and unwraps the data keys under which `CryptoCoordinator`
seals envelopes, and answers deletions with attestations that auditors verify.
The examples draw cards and dice from `arkhe-rand`.

| component | state | operations | what is hard | correct when |
|---|---|---|---|---|
| projection router (`arkhe-forge-platform/src/projection.rs`) | projections, cursor, last event, pinned event, worker state | `register`, `promote_to_active`, `demote_to_passive`, `begin_draining`, `dispatch` | redelivered, reordered and colliding events; a fan-out or a notification that fails half way; a rebuilt router in front of surviving projections | each projection applies its events once, in order, none lost; the pin is neither skipped nor stuck; no state is taken before all projections were told it; draining is final |
| erasure cascade (`crypto_erasure.rs`) | live and shredded keys, log index, rows, cursor, completions | `register`, `upsert`, `on_event`, `shred`, `tombstone`, `drain_completions` | a failure between shredding and tombstoning; a replay; a crash before the completions are drained | rows die after their key, one attestation per key, every request ends in a receipt |
| WAL export (`wal_export/`, `wal_to_sink` in `dispatcher.rs`) | buffer, header flag, last seq; the medium | `append_record`, `flush`, `next_record`, `wal_to_sink` | short writes, crashes that cut the stream anywhere, a full buffer in mid-stream, the end of the u64 sequence | a reader sees a prefix of what was appended and all of it after an Ok |
| runtime service (`dispatcher.rs`) | the kernel's WAL, components and events | `dispatch` of each action | the GDPR gate is checked before the submit and cannot be checked inside compute; computes fail silently; pointer and event are separate writes | nobody acts for a user whose erasure was requested; pointer and event agree; no user is reopened |
| action context and L1 actions (`context.rs`, `pipeline.rs`, `bridge.rs`, `user.rs`, `actor.rs`, `space.rs`, `activity.rs`) and idempotency (`dedup.rs`) | view, indexes, id counter, event counter, operations, events | `process_action`, `drain_events`, `drain_ops`, `insert`, `lookup` | ids derived from counters and retried, several actions on one context, reads that see the view or what was staged, indexes filled later | ids are fresh, records and operations agree, depths are the parents', an indexed key or handle is not taken again |
| DEK handling (`crypto.rs`) | keys in memory with a nonce counter, stored envelopes, the message metric | `encrypt`, `decrypt`, `rotate_dek` | counters that restart with the process, rotation that fails at an envelope, counter exhaustion | no nonce repeats under a key; slice and metric agree after any failure |
| KMS backends (`hf2_kms/kms_backend.rs`, `aws_kms.rs`) and manifest (`manifest.rs`) | KEKs, destroyed KEKs, destruction index | `generate_dek`, `wrap_dek`, `unwrap_dek`, `delete_key`, `rotate_kek`, `register_kek`; `validate` | repeated deletes, lost answers, registration after deletion, indices across restarts, restarts with another manifest | destroyed means destroyed; deletions are numbered without a gap |
| envelopes (`crypto.rs`, `pii.rs`) and receipts (`verifier.rs`) | none | `encrypt`, `decrypt`; `sign`, `verify_attestation` | one field changed, another type, cipher or build; halves of hybrid signatures | an envelope opens as sealed; a receipt proves one deletion |
| doctor journal (`hf2_kms/journal.rs`) | chain of signed entries, token set | `append`, `verify_chain`, `verify_chain_anchored` | logs rewritten, truncated, replaced | a token is consumed once; an anchored check accepts the pinned log only |
| threshold sharing (`hf2_kms/threshold.rs`) | none | `split_secret`, `combine_shares` | field arithmetic, index limits | any t of n shares give the secret |
| health and auto-promote (`hf2_kms/health.rs`, `projection.rs`) | channel statuses | `set_status`, `check`, `evaluate_auto_promote` | decisions on statuses of different ages, shares of mixed splits | each channel has one vote; no promotion without two healthy channels or the genuine shares of t holders |
| randomness (`arkhe-rand`) | seed, XOF position, prefetch cache | `fill_bytes`, `split`, `gen_range`, `shuffle` | requests that straddle the cache, ranges at the limits of the word | one stream whatever the request sizes; uniform draws |
| card table (`examples/card_primitives`) | deck, commitment | `shuffle`, `draw`, `evaluate_7`, `RecordHandShowdown` | a second shuffle, verification after draws, the rare hands | a verified deal is the committed one; the best hand is found |
| process protection, type codes, macros, lints, dice example, testkit, Kani harnesses | none that changes, or set once at start | | | |

`PROJECT.json` lists every component with its status, and every hazard with the
line where it bites and the properties that would catch it.

## 2. The modules

| module | models | abstract state |
|---|---|---|
| `ProjectionRouter` | `ProjectionRouter` fed by anybody | `registered`, `state`, `cursor`, `pending` are the fields of the struct (`cursor` and `last_event` are one value); `told` is what each projection last heard, `applied` what it has done |
| `ProjectionStream` | the same router under a feeder that keeps the stream-order contract written on `dispatch`; the feeder is the integrator's | `at`, the feeder's place in `Log` |
| `OrderedFanout` | the abstract promise: every consumer takes the events it wants from one stream, once, in order, in registration order | `view` |
| `ErasureCascade` | `ErasureCascadeObserver`, `InMemoryDekShredder`, `SigningDekShredder`, `InMemoryPiiRowStore` | fields of those structs, the event stream, the receipts handed out |
| `WalSink` | `BufferedWalSink`, `StreamingWalReader` | buffer, header flag, last seq, and a medium with a durable prefix |
| `WalExport` | `wal_to_sink` | the loop's place, on top of `WalSink` |
| `LogArchive` | the abstract promise of an export | log, archive, acknowledged prefix, report |
| `ActionContext` | `ActionContext`: id derivation, operations, events, staged reads, indexes, the eligibility check | none: a context is a record |
| `L1Actions` | the compute of each action, `process_action`, `kernel_compute` | none |
| `RuntimeService` | `RuntimeService::dispatch` and contexts opened by callers, over the two modules before | the kernel's WAL and store, the idempotency index, the open context |
| `DekRotation` | `Dek`, `CryptoCoordinator`, `rotate_dek`, and the KMS calls that hand out keys | keys in memory with their counters, the slice of envelopes, the metric, the nonces used |
| `DoctorJournal` | `InMemoryJournal`, and the checks a reader makes of a log | the chain and the set of tokens seen |
| `ThresholdSharing` | `split_secret`, `combine_shares` and their GF(2^8) arithmetic | none |
| `KmsHealth` | `MultiChannelHealth` and `ConsensusHealthChecker` on the same channels | the aggregator's entries, the checker's list and last verdict, what was last said of each channel |
| `KmsPromotion` | `evaluate_auto_promote` and the standby's state, on top of the three before | outage, splits, shares handed in, role |
| `PiiEnvelope` | `encrypt` and `decrypt`: associated data, cipher, build features | none |
| `ReceiptVerifier` | `verify_attestation` and its signers | none |
| `KeyCustody` | both KMS backends, `ManifestLoader::validate`, on top of the two before | KEKs, keys made, held and wrapped, one stored envelope, deletions answered |
| `KeyedStream` | `RngSource`, `gen_range`, `shuffle` | none |
| `HandEval` | cards and the evaluator | none |
| `CardTable` | a dealer's server, deck, commitment and receipt, on top of the two before | two streams, the deck, the receipts |
| `MC...` | the small instances | |
| `RuntimeServiceProofs`, `ProjectionStreamProofs`, `ErasureCascadeProofs`, `WalExportProofs`, `DekRotationProofs`, `PromotionProofs`, `KeyCustodyProofs`, `CardTableProofs` | theorems about the module of that name (`ProjectionStreamProofs` also about `ProjectionRouter`, `WalExportProofs` also about `WalSink` and the refinement of `LogArchive`, `PromotionProofs` about `KmsHealth` and `DoctorJournal`, `KeyCustodyProofs` also about `ReceiptVerifier`, `CardTableProofs` also about `KeyedStream`) | |

Each operation that takes `&mut self` and returns is one action; its error
paths are actions of their own when they change state and one stuttering action
(`...Refused`, `...Rejected`) when they do not.  Definitions named `...` with a
comment that begins `Mutant:` are plausible bugs; `PROJECT.json` names the
property each of them breaks.  Nothing but the property checks uses them.
A type invariant is stated where the state is worth a theorem or ranges matter
(`ProjectionRouter`, whose types are proved and not run, and `DekRotation`); elsewhere the properties fail on a value
out of type.

### ProjectionRouter
`dispatch` is the disjunction of `DispatchApplies`, `DispatchFails` (the
`on_event` of projection `q` fails: those before it have applied, `q` and the
later ones have not, the event is pinned) and `DispatchRefused`.  The answers
are named after the errors: `Redelivery`, `PositionConflict`,
`SequenceBackward`, `SequenceGap`; `Admissible` is what is left.  `Rebuild` is
a process that dies and builds a new router around projections that kept their
`last_applied`.  Events are arbitrary records: two may share a position.
`transition` is `Transition`, after which all projections were told the new
state, or `TransitionFails`, after which those before the failing one were and
the router is where it was: `DrainingIsFinal` says that the router is never
ahead of them, and that after draining nobody hears or applies anything more.

`ProjectionStream` assumes of the feeder what the documentation of `dispatch`
asks: all projections registered first, every event in emission order, ticks
advancing between computes, and a restart no later than the first event it has
not seen accepted.  The transport may deliver old events again.

### ErasureCascade
`on_event` is four actions: `CascadeWithKey`, `CascadeWithoutKey`,
`CascadeStopsAtShred`, `CascadeStopsAtTombstone`.  Store and shredder outlive
the process, observer and queue do not; a new observer is replayed from the
start of the stream.  Assumed of the environment: one key per user, no rows are
written for a tombstoned user, and no key is registered that the shredder
knows.

At the last log index `InMemoryDekShredder::shred` takes the key out of `live`
before `checked_add` fails, so the key is in neither map and every retry meets
`UnknownDek`, against the comment of `on_event` that a failed shred leaves "a
clean retry state".  `ShredOverflows` models it; `RowsDieAfterTheirKey` and
`EveryErasureCompletes` say how far the comment holds: while the log has an
index left.

### WalSink and WalExport
A cell stands for four bytes: the magic and a length prefix are two cells each,
a record of size n has n.  The writer takes any part of a buffer before it
fails; a crash keeps any part of what was not acknowledged.  The model's sizes
run from 0 to one more than the largest legal one, so every refusal happens.
`flush` has no memory of a failure, so callers may flush again and append
in between: `wal_to_sink` does not (it returns), a direct user of the sink may.
`torn` says that a failed write has left something on the medium, `spliced` that
something was written behind it, and `kept` how many records were flushed
before: `NeverMisread` claims the whole stream as long as nothing is spliced,
and the kept records always (section 6).

### ActionContext, L1Actions, RuntimeService
A context is a record and a compute an operator from context and action to
answer and context, in the order of the source's checks; an `Option` is a set of
at most one element.  An id is what `derive_entity_id` hashes, and
`ZeroDigests` says for which of these the digest starts with zeros, so that the
retry and its exhaustion happen.

A `Dispatch` is gate, submit and step at once: it takes `&mut self`.  The
computes then run without view or index (the bridge has none), which is why
`ensure_actor_eligible` passes inside them, nested spaces never get created and
a retry with the same key is computed again.  A compute that fails is logged
and has no effect.  On the direct path a caller opens a context on the store as
it is, runs several actions, and either drains the operations into the kernel
and records its keys (`Close`) or drops the context (`Abandon`); the context
borrows the kernel's view, so nothing else is applied meanwhile.
`DispatchMarkErased` is the integrator's write of the terminal state.  Ticks
advance with every dispatch and context, as the stream-order contract asks; a
user id named in a call is that of a registered user, of one staged on the open
context, or of a `GhostUser` that never registers.

### DekRotation
A build with all three ciphers and one KMS backend, AWS or the mock.  A key comes
out of it as an ephemeral `Dek` with its counter at 0.  AWS draws its keys at
random; the mock derives them from the KEK and a number that starts at 1 in each
process, so it never repeats a key in one process (`handed`) and may hand out
any key of an earlier one again (`regenerated`).  Which key a number stands for
depends on the KEK named, and is left open.  The wrapped form of a key survives
restarts and unwraps to a long-lived `Dek` with its counter at 0.
`GcmNoncesUnique` holds of both backends but for the keys in `regenerated`
(section 6).  `RotateFails` has a disjunct for each envelope at
which the loop may stop.  A caller rotates to a key it has not used ("a fresh
`new_dek_id`").  Encryption is symbolic: an undamaged envelope opens under its
own key and no other.

### KeyCustody, PiiEnvelope, ReceiptVerifier
One deployment has one backend; the integrator gives the mock to manifests with
a software KEK and AWS to the others.  A process starts with any manifest that
validates and any build, and may stop at any time: the mock's keys go with it,
those of AWS stay.  Wrapped keys and one envelope are stored by the caller.
`rotate_kek` re-wraps nothing; a caller does, by `UnwrapDek` and `WrapDek`.
`DeleteAnswerLost` is a deletion AWS carried out whose answer did not arrive.

A ciphertext is the record of what it was sealed from and a signature that of
algorithm, signer and message, so primitives are perfect and what is checked is
what the code binds.  `Damaged` is every envelope that differs from the stored
one in a field; `ReceiptsBindOneDeletion` asks of every combination of up to two
pieces, genuine, stale, foreign or from another protocol, whether it verifies.

### KeyedStream, HandEval, CardTable
The stream is an arbitrary function of seed and position; widths of 4, 8, 32 and
64 bytes become 1, 2, 2 and 4 digits of base 16 with their order kept.  Draws,
shuffle, deck and evaluator follow the source.  The Lemire loop has no bound in
the code; the model takes a draw when it accepts one of its first
`MaxRejects + 1` words (`settled`), and no step in which a draw does not.  A server's stream is read by
others, in any sizes, before and after a hand's seed is split off it, the use
that `RngSource::split` documents ("server / table / hand"); the demo in
`main.rs` has a fixed seed in its place.  The deck has four suits of the ranks given.  The evaluator is
compared with `Strength`, which reads a hand's rank off seven cards without
choosing five.

### DoctorJournal, ThresholdSharing, KmsHealth, KmsPromotion
Hashes are terms, so they never collide; a signature is the pair of key and
hash.  What a reader may be handed in place of the log is the set `Copies`: cut
short, one field changed (token, hashes, key or signature), or written anew
under any key.  The sharing is
computed on bytes, with the source's algorithms for product and inverse.
`KmsHealth` is a specification of its own: statuses set from outside in any
order (`SetChannel`) and probe rounds whose results are reported one after the
other (`Check`).  A step of `KmsPromotion` is one of its steps
(`HealthReported`) or leaves its variables unchanged, and starts as it does, so
what holds of it holds there.

The coordinator that calls these modules is not in the repository.  The model
takes from the documentation of `threshold.rs` and `journal.rs` that it
combines the shares, compares the result with the token, appends the token to
the journal and then promotes.  The promotion may still fail, with the token
spent: `PromoteByToken` has both outcomes.  The health loop runs under
`after_60min` only, where its result is used.

Two things a reader of the code may trip over.  The comments of `health.rs` say
that two *failing* channels satisfy the auto-promote trigger;
`evaluate_auto_promote` wants two *healthy* ones, so that it acts on a primary
that is down while the paths to the KMS are up.  And shares of two splits are
told apart by `ShareLengthMismatch` only when the tokens differ in length;
otherwise they combine to something that the caller has to compare, and
`ThresholdReady` counts shares without looking at them.  `PromotionIsEarned`
says that the comparison is enough: a token is consumed only when T different
holders have handed in its shares as they were issued.

## 3. Runs

| run | question | result |
|---|---|---|
| `router` | anything may arrive, fail, or be rebuilt: order, no double application, pins, notifications that fail half way, draining | holds |
| `stream` | with a contract-keeping feeder: refinement of `OrderedFanout`, nothing lost, the stream drains | holds |
| `cascade` | safety and completion with failing calls, a crash and a log that runs full | holds |
| `cascade_replay` | "the emit path must never synthesise a replacement attestation" | violated: a second event for a user finds no rows and completes with a synthetic attestation, though the real one is cached |
| `sink` | arbitrary appends, short writes, repeated flushes, a crash: reader, whole streams, numbering, capacity | holds |
| `export` | `wal_to_sink` refines `LogArchive`, fails only for a reason, ends | holds |
| `service` | both paths: the gate, pointer and event, fresh ids, event numbers, space depths, indexes, no reopening | holds |
| `service_erased` | `Erased` is called terminal | violated: `GdprEraseUser` writes `ErasurePending` over it |
| `dek` | nonces of AES-GCM, slice and metric through failed rotations, restarts and both backends | holds |
| `promote` | quorum counts, sharing, tokens consumed, the anchored check against forged logs, what a promotion takes | holds |
| `custody` | envelopes open as sealed, lost keys stay lost, deletions are numbered, receipts prove one deletion | holds |
| `table` | one stream, uniform draws, a verified deal is the committed one, the best of seven | holds |

The two violated statements are listed in `PROJECT.json` under `findings` with
the lines they quote.

**Bounds and why they are enough.**  `router`: two projections, one interested
in everything and one in part, are the least with a "before" and an "after" the
failing one; five events at three positions give a redelivery, a conflict at
the cursor and at the pin, a gap and a step backward.  Every state is reached,
no counter is bounded.  `stream`: three projections, so that a failure leaves
some before and some after; five events with a two-event batch, a skipped tick
and a code nobody observes; the feeder may lose its place once, rebuilds and
failures are unbounded.  `cascade`: three users and two log indices,
so that keys are shredded one after the other and the last finds the log full;
three events, so that a user is asked for twice; one crash.  `sink`:
three sequence numbers reach the end of the counter from any baseline; records
of 0 to 3 cells around a limit of 2, in a sink of the default capacity; two
failed flushes (`MaxFailures`), so that one is repeated behind another, and then
succeeds.
`export`: every WAL of up to three records of all sizes into a sink smaller
than the largest record, so that drains, retries and records that never fit all
occur; the export ends with its first failed flush.  `service`: three ticks, four logged actions and two actions per context
are enough for register user and actor together, erase, and an act on either
path; two users and two actors, one handle and one key to collide on, a depth
limit of 1 and an id counter that ends at 2.  `dek`: counters of three values and a slice of two
envelopes exhaust a key by a single retried rotation; two keys leave one to
rotate to; they are interchangeable, which `KeySymmetry` uses (the properties
are invariants).  Restarts are not bounded.  `promote`: three holders at 1, 97 and 255 of a two-of-255 sharing,
three tokens, two of one length and one longer, split twice in all, two hand-ins
per attempt, so that shares of one split, of two of equal and of different
length, of one holder twice and misread ones meet; two
ticks and two signers, so that a token is retried as another entry would be;
channel lists with and without a duplicate.
`custody`: two KEKs, two type codes, two processes, two keys, two stored wraps
and two answers with an index that ends at 1: a key wrapped under both KEKs, a
deletion answered after one that was lost, the mock's saturation, an AWS index
that wraps.  Six starts cover both backends, all three ciphers, four signature
classes and builds that lack a cipher or the verifier; one is refused.
`table`: eight ranks make all nine categories fall, the steel wheel, two trips
and three pairs; two shuffles at any of the cursors 0, 2, 11, 31 and 32; nine
digits of the server's stream are two blocks and one.  `MaxRejects` is 8: the
next states that a draw with nine rejected words would give are not taken.

**Fairness.**  `stream`: weak fairness of the feeder's step and of its answer
to a gap.  A step with a successful fan-out stays enabled as long as the router
is Active, so an `on_event` that fails for ever is excluded; that is the
retry contract, and the only thing that excludes a poison event.  Nothing is
assumed of promotion: `StreamDrains` is about runs in which the router stays
Active.  `cascade`: weak fairness of a successful cascade (the router retries
its pinned event), of `Drain` (the caller's loop) and of registering the keys.
`export`: weak fairness of the next statement of one sequential call.

**Deadlock.**  Disabled where the bound on a stream, on dispatches or on
records lets the system stop: `cascade*`, `service*`, `sink`, `export`, `promote`,
`custody`, `table`.

## 4. Proofs

Every theorem is about every value of the constants, under the named `ASSUME`s
of the modules, which TLC evaluates in the runs.  Each inductive invariant was
checked by TLC on the instance of its run first.

**Router** (`ProjectionStreamProofs`), for any number of projections, any
interests and any set of events:

* `TypeCorrect`: `Spec => []TypeOK`, which the others rest on.
* `PinIsLive`: `Spec => []PinGuardsUnapplied`.  It is inductive with `TypeOK`:
  the pinned event keeps an observer that has not reached it because only a
  retry of that very event is admitted, and its position stays contiguous with
  the cursor because the cursor moves only when the pin is cleared.
* `AppliesInOrder`: `Spec => []AppliedInOrder`.  An event is handed only to
  projections whose last event precedes it (`OrderedAppend`).
* `LeavesNoObserverBehind` and `DrainingIsForGood`: the action properties
  `NoObserverLeftBehind` and `DrainingIsFinal`, from the invariants.

**Router under a feeder** (`ProjectionStreamProofs`), for logs of any length
whose neighbours are contiguous:

* `NothingIsLost`: `SSpec => []NothingLost`.  The inductive `StreamInv` says
  that the cursor and the pin are events of the log, and that every projection
  has had what it wants of the events up to the cursor and of those before the
  pin, in the order of the log and nothing besides.  The order of the log, which
  is assumed of neighbours only, is extended to any two events by induction.
* `RouterIsOrderedFanout`: `SSpec => ImplementsOrderedFanout`.  An accepted
  event is one step of `OrderedFanout` for those observers that an earlier
  failure had not served, a failed one for those before the failing projection,
  and everything else stutters.

**Erasure cascade** (`ErasureCascadeProofs`), for any users, keys, rows and log
width.  `CascadeInvariant` is the inductive invariant: `ShredderInv` (live and
shredded keys are apart, each attestation is about its own key at an index below
the next one, no two share one) and `CompletedInv` (a completion or receipt is
about a tombstoned user, with the attestation the shredder has cached or with
the placeholder).  From it: `ReceiptsAreProofs`, `OneAttestationEach`, and the
action property `KeysDieFirst`.

**WAL sink and export** (`WalExportProofs`), for records of any
sizes and sinks of any capacity:

* `SinkInvariant` and `SinkAppendsOnly`: numbering and lengths.  The second
  assumes `HoldsLargestRecord`, which the default capacity satisfies and a sink
  made `with_capacity` need not.
* `ReaderNeverMisreads`: `Spec => []NeverMisread`, with flushes repeated at any
  time.  `StreamInv` says that, as long as nothing is spliced, medium and buffer
  are together the framing of the accepted records, up to what a failed write or
  a crash has cut.  `KeptInv` says that the medium begins with the framing of the
  kept records, whatever was written behind it: what is read of it only grows
  when cells are added (`ReadGrows`), and a crash takes none of it, since it is
  durable.  That the reader gets the records back from
  such a medium is an induction over the number of frames (`ReadFromFrame`,
  `ReadCut`), for whole streams and for those cut anywhere.
* `ExportErrorsAreEarned` and `ExportIsAnArchive`: `wal_to_sink` fails only for
  a reason, and implements `LogArchive` (the safety of it: `LogArchive` states
  no fairness).  The refinement mapping contains the reader, so the proof needs
  the lemmas about it: an `append` shows the reader nothing, a flush shows it
  whole records.

**Runtime service** (`RuntimeServiceProofs`), for any users, handles, keys,
digests, id counters, depths and numbers of calls, under `ServiceAssumption`
(`SystemActor` and `GhostUser` are not derived: their tick is 0, the first tick
is 1) and `ContextAssumption` (ranges, and at least one retry of a derivation).
`ServiceInvariant` is the inductive invariant:

* `World(store, log, dedup, now)`: every entity of the store has all the
  components its spawn wrote and refers to entities that exist (`Whole`), no
  component belongs to an unknown entity, ids carry ticks up to `now`, and a
  user's pointer has left `Active` exactly when its event was emitted
  (`GoodStore`); every logged actor, user and spawned entity is in the store
  (`GoodLog`); the gate held for each entry (`Gate`); each key and handle is
  indexed (`Indexed`).
* `Direct(c)` for the open context: it checks against a view and indexes that
  are those of the store, which nothing changes meanwhile (`Bound`); what it
  staged reads as what it will write (`Ahead`); and, the heart, `World` also
  holds of the store, log and index *that will be there when it is closed*.  The
  state alone is not inductive: `Close` applies a list of operations at once, and
  what makes that safe was checked one action at a time, each against view and
  staged writes.  With the future in the invariant, `Process` moves one entry
  there, by the same lemmas by which `Dispatch` moves one in the present
  (`WorldStep`), and `Close` makes it the present.

Each compute is shown to be a spawn of one fresh entity, an erasure, or nothing
(`RegisterUserFacts` to `GdprEraseUserFacts`), whatever it answers to a request
it refuses; the effect of its operations on a store follows from that alone
(`AcceptedEffect`), and `ApplyIs` and `RecordedIs` unroll the recursive
functions by induction.  From the invariant: `GateIsSound`,
`PointerAndEventAgree`, `IdsAreFresh`, `RecordsAreTheEvents`, `DepthsAreRight`,
`FirstIsIndexed`, and the action property `ErasureIsOneWay`, which also needs
that a step never rewrites a component other than the pointer (`Frame`).

**DEKs** (`DekRotationProofs`), for any counter width, key set and slice length:

* `TypeCorrect`: `Spec => []TypeOK`; in particular no nonce is made of
  `u64::MAX`.
* `GcmNoncesNeverRepeat`: `Spec => []GcmNoncesUnique`.  `GcmNoncesUnique` is
  not inductive: it says nothing of nonces to come.  `NoncesBehindCounter`
  strengthens it: whatever a key that was generated once has sealed with AES-GCM
  is below the counter of its ephemeral `Dek`; a second generation puts the key
  in `regenerated`, which only the mock does (`OnlyTheMockRepeats`).  A rotation that
  fails preserves it because the counter is not rolled back with the slice.
* `SliceStaysUnderOneKey`: `Spec => []SliceUnderOneKey`.  Inductive once the
  slice is empty as long as no key was adopted.

**Key custody** (`KeyCustodyProofs`), for any KEKs, types, manifests, builds and
index widths.  `CustodyInvariant` has three independent parts:

* `RowInv`, that the stored envelope is the sealed form of what it was sealed
  as, gives `EnvelopesOpenAsSealed`.
* `KmsInv`, that keys the backend makes are new and that at AWS nothing is
  wrapped under a KEK that never existed, gives `LostKeysStayLost`: without the
  second part, creating a KEK could make an old wrap unwrap.
* `LogInv` gives `DeletionsAreNumbered`.  The answers of the running process are
  the last of the log; at AWS the n-th has index n - 1 and the next index is
  their number, as long as it has not wrapped; the mock's cache holds exactly
  what it answered, and the indexes used are those below the next one, as long
  as it has not saturated.

`ReceiptsBind` proves `ReceiptsBindOneDeletion`, over `ClassInv`: a running
process has one of the four classes, because `Boot` validates its manifest.  A
byte string is taken apart by its length alone, so the proof goes by lengths:
no two of the four keys but the joined ones are of one length (`KeyLengths`), a
piece as long as an Ed25519 signature is a block of that scheme
(`PieceOfLength`), and a Hybrid receipt of
the right total length has its halves in the right order, since the first is
measured before they are joined (`HybridOk`).  Joined keys in the wrong order
have the right length too; the cut goes through both, and neither half verifies.

**Health** (`PromotionProofs`), of `HealthSpec`, for any channels, lists with
and without repetitions, and thresholds:

* `AgreeingQuorums`: `HealthSpec => []QuorumsAgree`.  `HealthInv` strengthens
  it: the first entry of a channel has its last status and the later ones are
  never written (`FirstEntryTells`), which makes the count of entries a count of
  channels; and a verdict is that of a round of outcomes after which nothing was
  said, so that the last report of each listed channel is its status
  (`VerdictOfARound`).  A channel listed twice has two votes in the verdict and
  one in the aggregator, which is why only one implication holds of it.

**Journal** (`PromotionProofs`), of `JournalSpec`, which every step of
`KmsPromotion` takes or leaves the journal alone, for any tokens and signers and
journals of any length:

* `ConsumedOnce`: `JournalSpec => []TokenConsumedOnce`.  `SeenIsRecorded`
  strengthens it: the set that `append` looks tokens up in holds the hash of
  every entry.
* `HonestChain`: `JournalSpec => []HonestLogVerifies`.  The inductive part is
  that the whole log verifies; an entry is checked against the entries before
  it (`PrevHashAgrees`), so appending disturbs none and a prefix verifies too.
* `AnchorsPinTheJournal`: `JournalSpec => []AnchoredMeansPublished`.  The heart
  is `TipPinsJournal`: two verified journals of one length, signer and tip are
  one journal, since each hash fixes the token and the hash before it; the
  induction goes from the tip backwards.

**Streams and the card table** (`CardTableProofs`), for any widths in the order
of the code's, any base, deck, requests and numbers of shuffles:

* `UniformDraws`: `Spec => []DrawsAreUniform`.  A word x is accepted for the
  outcome v exactly when `x * n` falls into the last `n * (space \div n)` of the
  `space` numbers from `v * space` on, which makes the accepted words an
  interval of `space \div n` (`AcceptedWords`).
* `MonotonicStreams`: `StreamIsMonotonic`.  `StreamInv` says that the cached
  block is the last one the XOF gave (`Streams`); a read is then the rest of
  that block followed by what comes next (`FillEmits`), and no draw or shuffle
  leaves the set (`LemireDraws`, `ShufflePermutes`).
* `VerifiedDeals`: `VerifiedDealIsTheCommittedOne`.  `DeckInv` says that the
  deck has every card and the drawn ones in front, in order; `ReceiptInv` that a
  hand shuffled once, before its first card, has the deck the commitment
  replays to, and that each receipt anchors it.  The heart is `ShufflePermutes`:
  a swap of two places after the cursor loses no card and moves none before it.

The last two assume `BytesAreDigits`, that a byte of the stream is below the
base.  It is a hypothesis of the theorems and not an `ASSUME` of the module only
because TLC cannot evaluate it for every seed and position; the `XofDigit` of
the run satisfies it.

**Induction.**  The library's induction theorems take an operator, which the
provers cannot instantiate.  `SetInduction` states induction for a *set* of
numbers instead, and follows from the well-foundedness of `<`; with it recursive
functions are shown to have their defining equation (`ReadFromDef`,
`WantedDef`, `RebuiltIsJournal`, `TraceExists`, `LoopRuns`) and properties of
them are proved for every length.

**Checked by TLC only.**  Liveness (`StreamDrains`, `EveryErasureCompletes`,
`ExportEnds`) is out of the prover's reach.  `AnyQuorumOpens` rests on GF(2^8)
computed bit by bit (`Bitwise` and RECURSIVE operators), and that interpolation
recovers the constant term is an induction over polynomials.  `BestOfSeven`
compares an evaluator over all choices of five of seven cards with a closed
form; TLC evaluates both on every hand the run reaches.

## 5. Not modelled

Cryptographic primitives, byte layouts and encodings (the wire tests of the
repository pin them), the kernel's scheduler, several instances in one service,
parsing of manifests and cards, operating system calls (process protection,
system entropy), compile-time tools, the event and component declarations, which
have no behaviour, and what section 1 lists without a module in section 2.  Two
computes at one tick are outside the contract of `dispatch` and of the models.

## 6. Known divergences

Two are runs that expect a violation (`cascade_replay`, `service_erased`).
Others met while modelling, which no run states:

* `ProjectionRouter::dispatch` says it rejects the collision of two computes at
  one tick loudly.  It does for equal positions; when the first batch is shorter
  the tail of the second continues it and is accepted.
* The numbered list over `ErasureCascadeObserver` (`crypto_erasure.rs:412-421`)
  tombstones the rows in step 2 and shreds the key in step 3.  `on_event` shreds
  first and says why; a failing store then leaves rows without a key, not a key
  without rows.  `RowsDieAfterTheirKey` states the order of the code.
* The documentation of `ObserverState` says that only an Active projection may
  write.  A demotion that fails at the second projection has told the first one
  that it is passive, and the router, still Active, goes on handing it events; a
  projection registered with an Active router is told nothing at all.
* It also says that `Draining` "flushes in-flight".  The router refuses whatever
  comes, a retry of the pinned event included, which has to wait for the next
  router.
* `BufferedWalSink::flush` keeps the whole buffer after a failed `write_all`; a
  caller that flushes again writes the part that went out a second time and is
  answered Ok.  A reader stops, or errs, behind the tear.
* `DekLifecycle` calls plain AES-256-GCM safe under an ephemeral `Dek`, whose
  counter "never repeats".  The mock, the backend of Tier 0 and the tests, derives
  the same keys in every process (its test
  `generate_dek_is_deterministic_under_fixed_kek_seed`), each time as an ephemeral
  `Dek` at counter 0: a key used before a restart repeats its nonces.  Such a key
  is also not the fresh one that `rotate_dek` asks for; the model leaves that
  check to the caller.
* `MockKmsBackend::register_kek` brings a deleted KEK back with the same pad,
  which unwraps the old keys, while `delete_key` goes on answering the
  attestation of the first deletion.
* The trait calls `delete_key` idempotent, with a cached attestation;
  `AwsKmsBackend` schedules again and takes a new destruction index, which
  restarts at 0 with the process.
* The trait promises "a signed attestation"; both backends return class `None`
  over a digest and say so where they build it.
* `combine_shares` tells shares of two splits apart only by length
  (`ShareLengthMismatch`); see section 2.
* An error of `compute` reaches the caller of `dispatch` as success.  The dice
  example (`examples/dice/src/main.rs`, `verify_mode`) says a record that does
  not verify "would already have tripped" in `dispatch`; only the comparison of
  the replayed stream with the file can tell.
* `examples/dice/src/history.rs` says corruption never silently degrades the
  history; `File::create` empties the file before the history is written anew,
  and a process that dies with whole frames written leaves a shorter history
  that loads without an error (`WalSink`: a stream cut between frames reads as a
  complete one).

## 7. Plan

1. Composition: service, router and cascade as one system, with the end-to-end
   promise that every accepted erasure ends in a receipt and nobody acts for
   the user in between.
2. Proofs: the end-to-end promise of that composition, from the invariants of its
   parts.
3. Models: the dice example as a user of `WalExport` over several launches, and
   `remove_component`.
