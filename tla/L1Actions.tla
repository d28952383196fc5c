------------------------------ MODULE L1Actions ------------------------------
(***************************************************************************)
(* The actions of arkhe-forge-core and the two ways they are run: a call   *)
(* of process_action (pipeline.rs) on a context of the caller's, and       *)
(* kernel_compute (bridge.rs), which the kernel calls while it steps.      *)
(***************************************************************************)
EXTENDS ActionContext

-----------------------------------------------------------------------------
(* RegisterUser: profile, credential, and the lifecycle pointer.           *)
RegisterUser(ctx, a) ==
  LET components == << <<"UserProfile", "profile">>,
                       <<"AuthCredential", "credential">>,
                       <<"UserGdprState", "Active">> >>
  IN  SpawnAfter(ctx,
        << EnsureSchemaVersion(a.version),
           FailIf(~ValidateKdfParams(a.kdf, a.params), "InvalidInput") >>,
        "UserProfile", components)

(* Mutant: the event without the pointer.                                  *)
GdprEraseUserEventOnly(ctx, a) ==
  Result("Ok", Emit(ctx, "UserErasureScheduled", a.user))

(* GdprEraseUser: the pointer is written blindly, then the event.          *)
GdprEraseUser(ctx, a) ==
  IF EnsureSchemaVersion(a.version) # "Ok" THEN Result("SchemaMismatch", ctx)
  ELSE Result("Ok",
         Emit(PushOps(ctx, <<SetComponent(a.user, "UserGdprState",
                                          "ErasurePending")>>),
              "UserErasureScheduled", a.user))

(* RegisterActor: the user that is named is not looked up.                 *)
RegisterActor(ctx, a) ==
  LET components == << <<"ActorProfile", a.handle>>, <<"UserBinding", a.user>> >>
  IN  SpawnAfter(ctx,
        << EnsureSchemaVersion(a.version),
           FailIf(ActorByHandle(ctx, a.handle) # {}, "ActorHandleCollision") >>,
        "ActorProfile", components)

(* The acting actor of a user-scoped action: there must be one, eligible.  *)
EnsureActor(ctx) ==
  IF ctx.actor = {} THEN "AuthorizationFailed"
  ELSE EnsureActorEligible(ctx, CHOOSE x \in ctx.actor : TRUE)

(* SubmitActivity: the record is stamped with the acting actor.            *)
SubmitActivity(ctx, a) ==
  LET predicted == PreviewNextId(ctx, "ActivityRecord")
      components ==
        << <<"ActivityRecord", [actors |-> ctx.actor, target |-> a.target]>> >>
  IN  SpawnAfter(ctx,
        << EnsureSchemaVersion(a.version), EnsureActor(ctx),
           FailIf(\E k \in a.key : IdempotencyLookup(ctx, k) # {},
                  "IdempotencyConflict"),
           FailIf(predicted = {}, "IdExhaustion"),
           FailIf(a.target = predicted, "InvalidInput") >>,
        "ActivityRecord", components)

(* RetractActivity validates its version and writes nothing.               *)
RetractActivity(ctx, a) == Result(EnsureSchemaVersion(a.version), ctx)

(* Mutant: a parent that cannot be read counts as a root.                  *)
ChildDepthOrRoot(ctx, a) ==
  LET known == UNION {Read(ctx, p, "ParentChainDepth") : p \in a.parent}
  IN  IF known = {} THEN {0} ELSE {d + 1 : d \in known}

(* The depth of a space: 0 for a root, one more than what the view holds   *)
(* for its parent, none if it holds nothing.                               *)
ChildDepth(ctx, a) ==
  IF a.parent = {} THEN {0}
  ELSE {d + 1 : d \in UNION {Read(ctx, p, "ParentChainDepth") : p \in a.parent}}

CreateSpace(ctx, a) ==
  LET depth == ChildDepth(ctx, a)
      components ==
        << <<"SpaceConfig", [actors |-> ctx.actor, parent |-> a.parent]>>,
           <<"ParentChainDepth", CHOOSE d \in depth : TRUE>> >>
  IN  SpawnAfter(ctx,
        << EnsureSchemaVersion(a.version), EnsureActor(ctx),
           FailIf(depth = {}, "InvalidInput"),
           FailIf(\E d \in depth : d > MaxSpaceDepth, "InvalidInput") >>,
        "SpaceConfig", components)

Compute(ctx, a) ==
  CASE a.kind = "RegisterUser"    -> RegisterUser(ctx, a)
    [] a.kind = "RegisterActor"   -> RegisterActor(ctx, a)
    [] a.kind = "GdprEraseUser"   -> GdprEraseUser(ctx, a)
    [] a.kind = "SubmitActivity"  -> SubmitActivity(ctx, a)
    [] a.kind = "RetractActivity" -> RetractActivity(ctx, a)
    [] a.kind = "CreateSpace"     -> CreateSpace(ctx, a)

-----------------------------------------------------------------------------
(* process_action: ensure_caps, the compute, and the events it leaves are  *)
(* drained, but only when it succeeds.                                     *)
ProcessAction(ctx, a) ==
  LET run == IF ctx.caps THEN Compute(ctx, a)
             ELSE Result("CapabilityDenied", ctx)
  IN  [err    |-> run.err,
       events |-> IF run.err = "Ok" THEN run.ctx.events ELSE <<>>,
       ctx    |-> IF run.err = "Ok" THEN DrainEvents(run.ctx) ELSE run.ctx]

(* kernel_compute: a context of its own without view or index; an error    *)
(* becomes an empty list of operations.                                    *)
KernelCompute(a, tick, actor) ==
  LET run == Compute(WithActor(NewContext(tick, TRUE), actor), a)
  IN  IF run.err = "Ok" THEN run.ctx.ops ELSE <<>>
=============================================================================
