---------------------------- MODULE ActionContext ----------------------------
(***************************************************************************)
(* The compute context of arkhe-forge-core/src/context.rs.                 *)
(*                                                                         *)
(* A context is a record.  compute never touches the kernel's state: it    *)
(* reads through the view the context was given and leaves a sequence of   *)
(* operations behind.  An Option is a set of at most one element, so that  *)
(* a view or an index that is not bound is the empty one.                  *)
(***************************************************************************)
EXTENDS Integers, Sequences, SequencesExt

CONSTANTS
  MaxIdSeq,            (* the largest value of id_seq: u32::MAX            *)
  MaxIdDeriveRetries,  (* MAX_ID_DERIVE_RETRIES                            *)
  MaxSpaceDepth,       (* MAX_SPACE_DEPTH                                  *)
  ZeroDigests          (* <<tick, seq, bump>> whose digest starts with 0   *)

ASSUME ContextAssumption ==
  /\ MaxIdSeq \in Nat /\ MaxSpaceDepth \in Nat
  /\ MaxIdDeriveRetries \in Nat \ {0}
  /\ ZeroDigests \subseteq Nat \X Nat \X Nat

-----------------------------------------------------------------------------
(* Mutant: bump is added to seq, so the retries of one id are the next ids.*)
DeriveFolded(type, tick, seq) ==
  {<<type, tick, seq + b, 0>> :
     b \in {c \in 0 .. MaxIdDeriveRetries - 1 :
              /\ <<tick, seq + c, 0>> \notin ZeroDigests
              /\ \A d \in 0 .. c - 1 : <<tick, seq + d, 0>> \in ZeroDigests}}

(* Mutant: the tick is not part of the id.                                 *)
DeriveIgnoringTick(type, tick, seq) == {<<type, 0, seq, 0>>}

(***************************************************************************)
(* derive_entity_id: a digest without collisions over what it is given.    *)
(* The first bump whose digest is not zero, or None after the retries.     *)
(***************************************************************************)
DeriveEntityId(type, tick, seq) ==
  {<<type, tick, seq, b>> :
     b \in {c \in 0 .. MaxIdDeriveRetries - 1 :
              /\ <<tick, seq, c>> \notin ZeroDigests
              /\ \A d \in 0 .. c - 1 : <<tick, seq, d>> \in ZeroDigests}}

EmptyMap == [x \in {} |-> {}]

(* ActionContext::new.  caps: the mask is not empty.                       *)
NewContext(tick, caps) ==
  [tick |-> tick, caps |-> caps, actor |-> {}, idSeq |-> 0, eventSeq |-> 0,
   events |-> <<>>, ops |-> <<>>, view |-> EmptyMap, keys |-> EmptyMap,
   handles |-> EmptyMap]

(* Mutant: the idempotency index is forgotten.                             *)
WithoutKeys(ctx, view, keys, handles) ==
  [ctx EXCEPT !.view = view, !.handles = handles]

(* with_actor, and with_view, with_idempotency_index and                   *)
(* with_actor_handle_index together.                                       *)
WithActor(ctx, actor) == [ctx EXCEPT !.actor = actor]

WithIndexes(ctx, view, keys, handles) ==
  [ctx EXCEPT !.view = view, !.keys = keys, !.handles = handles]

LookUp(map, x) == IF x \in DOMAIN map THEN {map[x]} ELSE {}

Bind(map, x, value) ==
  [y \in DOMAIN map \cup {x} |-> IF y = x THEN value ELSE map[y]]

(* preview_next_id_for.                                                    *)
PreviewNextId(ctx, type) == DeriveEntityId(type, ctx.tick, ctx.idSeq)

(* next_id, the id: the successor of the sequence number is checked first. *)
NextId(ctx, type) ==
  IF ctx.idSeq = MaxIdSeq THEN {}
  ELSE DeriveEntityId(type, ctx.tick, ctx.idSeq)

(* next_id, what is left: the number is spent also when no id comes of it. *)
Advance(ctx) == [ctx EXCEPT !.idSeq = IF @ = MaxIdSeq THEN @ ELSE @ + 1]

(* The operations of the kernel that the compute bodies use.               *)
SpawnEntity(id) == [op |-> "SpawnEntity", entity |-> id]

SetComponent(id, type, value) ==
  [op |-> "SetComponent", entity |-> id, type |-> type, value |-> value]

EmitEvent(type, value) == [op |-> "EmitEvent", type |-> type, value |-> value]

PushOps(ctx, ops) == [ctx EXCEPT !.ops = @ \o ops]

(* emit_event: the numbered record, and the operation.                     *)
Emit(ctx, type, value) ==
  [ctx EXCEPT
     !.events = Append(@, [type |-> type, value |-> value,
                           sequence |-> ctx.eventSeq, tick |-> ctx.tick]),
     !.eventSeq = @ + 1,
     !.ops = Append(@, EmitEvent(type, value))]

(* Mutant: the numbering starts again with every drain.                    *)
DrainAndRestart(ctx) == [ctx EXCEPT !.events = <<>>, !.eventSeq = 0]

(* drain_events: what is left of the context.                              *)
DrainEvents(ctx) == [ctx EXCEPT !.events = <<>>]

(* read: through the view alone.                                           *)
Read(ctx, entity, type) == LookUp(ctx.view, <<entity, type>>)

(* staged_read: the last operation of this context on the component wins.  *)
StagedRead(ctx, entity, type) ==
  LET sets == {i \in DOMAIN ctx.ops : /\ ctx.ops[i].op = "SetComponent"
                                      /\ ctx.ops[i].entity = entity
                                      /\ ctx.ops[i].type = type}
      last == {i \in sets : \A j \in sets : j <= i}
  IN  IF sets = {} THEN Read(ctx, entity, type)
      ELSE {ctx.ops[i].value : i \in last}

(* Mutant: the status as the view has it.                                  *)
UserGdprStatusUnstaged(ctx, user) == Read(ctx, user, "UserGdprState")

AuthenticatedActorUser(ctx, actor) == StagedRead(ctx, actor, "UserBinding")
UserGdprStatus(ctx, user) == StagedRead(ctx, user, "UserGdprState")

(* idempotency_lookup and actor_by_handle.                                 *)
IdempotencyLookup(ctx, key) == LookUp(ctx.keys, key)
ActorByHandle(ctx, handle) == LookUp(ctx.handles, handle)

(* ensure_actor_eligible: an unbound actor passes, a bound one needs a     *)
(* user whose state is there and Active.                                   *)
EnsureActorEligible(ctx, actor) ==
  LET users  == AuthenticatedActorUser(ctx, actor)
      status == UNION {UserGdprStatus(ctx, u) : u \in users}
  IN  IF users = {} \/ status = {"Active"} THEN "Ok"
      ELSE IF status = {} THEN "UserLifecycleUnresolved"
      ELSE "UserErasurePending"

(* ensure_schema_version.                                                  *)
EnsureSchemaVersion(got) == IF got = 1 THEN "Ok" ELSE "SchemaMismatch"

(* AuthCredential::validate_kdf_params, the cost parameters in units of    *)
(* their minima; a scrypt N is a power of two besides.                     *)
ValidateKdfParams(kdf, p) ==
  /\ p.m >= 1 /\ p.t >= 1 /\ p.p >= 1
  /\ kdf = "Scrypt" => p.m \in {2 ^ i : i \in 0 .. p.m}

(* The first check that fails decides; a passing check answers "Ok".       *)
FirstError(checks) ==
  LET i == SelectInSeq(checks, LAMBDA c : c # "Ok")
  IN  IF i = 0 THEN "Ok" ELSE checks[i]

FailIf(test, error) == IF test THEN error ELSE "Ok"

(* What a compute returns, and the context it leaves.                      *)
Result(err, ctx) == [err |-> err, ctx |-> ctx]

(***************************************************************************)
(* spawn_entity_for, once the checks of the compute have passed, and a     *)
(* set_component for each <<type, value>> of components.                   *)
(***************************************************************************)
SpawnAfter(ctx, checks, type, components) ==
  LET err == FirstError(checks)
      ids == NextId(ctx, type)
  IN  IF err # "Ok" THEN Result(err, ctx)
      ELSE IF ids = {} THEN Result("IdExhaustion", Advance(ctx))
      ELSE LET id == CHOOSE x \in ids : TRUE
               set(c) == SetComponent(id, c[1], c[2])
           IN  Result("Ok", PushOps(Advance(ctx),
                 <<SpawnEntity(id)>> \o [i \in DOMAIN components |-> set(components[i])]))
=============================================================================
