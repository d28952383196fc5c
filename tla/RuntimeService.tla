--------------------------- MODULE RuntimeService ---------------------------
(***************************************************************************)
(* The runtime service over one kernel instance: RuntimeService::dispatch  *)
(* of arkhe-forge-platform/src/dispatcher.rs, and next to it the direct    *)
(* path, a context built with a view and indexes on which a caller runs    *)
(* actions and whose operations the kernel then applies.                   *)
(*                                                                         *)
(* dispatch gates the authenticated actor on the GDPR state of its user,   *)
(* submits the action to the kernel, which logs it, and steps the kernel,  *)
(* which computes it without a view and applies the operations.  It takes  *)
(* &mut self: it is one step.  A direct context borrows the kernel's view, *)
(* so nothing is applied while it is open; each call on it is a step, and  *)
(* what its actions wrote is seen through the view only by later contexts. *)
(*                                                                         *)
(* The kernel is a library outside the repository.  What is assumed of it  *)
(* is what the source relies on: submit logs the action with its actor,    *)
(* step runs it, and a SetComponent on an unknown entity does nothing.     *)
(***************************************************************************)
EXTENDS L1Actions, FiniteSets

CONSTANTS
  SystemActor,    (* an actor that was never bound to a user               *)
  GhostUser,      (* a user id that no registration ever produces          *)
  Handles,        (* the handles of one shell                              *)
  Keys,           (* the idempotency keys                                  *)
  MaxTicks,       (* bound: dispatches and contexts, each at its own tick  *)
  MaxBatch,       (* bound: the actions accepted on one context            *)
  MaxLog,         (* bound: the actions logged                             *)
  MaxUsers,       (* bound: the number of users registered                 *)
  MaxActors       (* bound: the number of actors registered                *)

(* The first tick is 1: neither id is ever derived.                        *)
ASSUME ServiceAssumption ==
  /\ {MaxTicks, MaxBatch, MaxLog, MaxUsers, MaxActors} \subseteq Nat
  /\ SystemActor[2] = 0 /\ GhostUser[2] = 0

VARIABLES
  now,      (* the tick of the last dispatch or context                    *)
  log,      (* what was dispatched, or accepted on a context and applied   *)
  store,    (* the kernel's entities and components, the events it emitted *)
  dedup,    (* InMemoryIdempotencyIndex                                    *)
  open,     (* the direct context, if one is open                          *)
  batch,    (* what was accepted on it                                     *)
  drained   (* the event records process_action has returned from it       *)

vars == <<now, log, store, dedup, open, batch, drained>>

-----------------------------------------------------------------------------
(* The kernel.                                                             *)
EmptyStore == [live |-> {}, comps |-> EmptyMap, events |-> <<>>]

ApplyOp(st, op) ==
  CASE op.op = "SpawnEntity"  -> [st EXCEPT !.live = @ \cup {op.entity}]
    [] op.op = "SetComponent" ->
         IF op.entity \in st.live
           THEN [st EXCEPT !.comps = Bind(@, <<op.entity, op.type>>, op.value)]
           ELSE st
    [] op.op = "EmitEvent"    -> [st EXCEPT !.events = Append(@, op.value)]

Apply(st, ops) ==
  LET after[n \in 0 .. Len(ops)] ==
        IF n = 0 THEN st ELSE ApplyOp(after[n - 1], ops[n])
  IN  after[Len(ops)]

OfType(type) == {e \in store.live : e[1] = type}
Users  == OfType("UserProfile")
Actors == OfType("ActorProfile")
Spaces == OfType("SpaceConfig")
Activities == OfType("ActivityRecord")

Component(e, type) == store.comps[<<e, type>>]
Status(u) == Component(u, "UserGdprState")

(* InMemoryIdempotencyIndex::insert: a key that is bound keeps its binding,*)
(* and another one is a Conflict.                                          *)
Insert(index, key, binding) ==
  IF key \in DOMAIN index THEN index ELSE Bind(index, key, binding)

(* The handles in use, as an ActorHandleIndex over the store finds them.   *)
HandleIndex ==
  [h \in {Component(x, "ActorProfile") : x \in Actors} |->
     CHOOSE x \in Actors : Component(x, "ActorProfile") = h]

-----------------------------------------------------------------------------
(* The entities that the operations of the open context spawn.             *)
SpawnsIn(ops) == {i \in DOMAIN ops : ops[i].op = "SpawnEntity"}

Spawned(ops) == {ops[i].entity : i \in SpawnsIn(ops)}

Staged == UNION {Spawned(c.ops) : c \in open}

NamedUsers == {e \in store.live \cup Staged : e[1] = "UserProfile"}
              \cup {GhostUser}

(***************************************************************************)
(* The actions that callers ask for at a tick: a credential may be weak, a *)
(* version stale, a user one that was never registered, a target an id     *)
(* that the very same context is going to derive.                          *)
(***************************************************************************)
RegisterUsers ==
  IF Cardinality(NamedUsers) > MaxUsers THEN {}
  ELSE {[kind |-> "RegisterUser", version |-> 1,
         kdf |-> k, params |-> [m |-> m, t |-> 1, p |-> 1]] :
          k \in {"Argon2id", "Scrypt"}, m \in {0, 3}}

RegisterActors ==
  IF Cardinality({e \in store.live \cup Staged : e[1] = "ActorProfile"}) >= MaxActors
  THEN {}
  ELSE [kind : {"RegisterActor"}, version : {1}, handle : Handles, user : NamedUsers]

GdprEraseUsers ==
  [kind : {"GdprEraseUser"}, version : {1, 2}, user : NamedUsers]

SubmitActivities(tick) ==
  [kind : {"SubmitActivity"}, version : {1},
   key : {{}} \cup {{k} : k \in Keys},
   target : {{}} \cup {DeriveEntityId("ActivityRecord", tick, n) : n \in 0 .. 1}]

RetractActivities == [kind : {"RetractActivity"}, version : {1}]

CreateSpaces ==
  [kind : {"CreateSpace"}, version : {1},
   parent : {{}} \cup {{s} : s \in Spaces \cup {e \in Staged : e[1] = "SpaceConfig"}}]

Requests(tick) ==
  RegisterUsers \cup RegisterActors \cup GdprEraseUsers
  \cup SubmitActivities(tick) \cup RetractActivities \cup CreateSpaces

Entry(path, a, actor, tick, ops) ==
  [path |-> path, kind |-> a.kind, actor |-> actor, tick |-> tick,
   user |-> IF a.kind = "GdprEraseUser" /\ ops # <<>> THEN {a.user} ELSE {},
   key  |-> IF a.kind = "SubmitActivity" THEN a.key ELSE {},
   spawned |-> Spawned(ops)]

-----------------------------------------------------------------------------
Init ==
  /\ now = 0 /\ log = <<>> /\ store = EmptyStore /\ dedup = EmptyMap
  /\ open = {} /\ batch = <<>> /\ drained = <<>>

Callers == {{}, {SystemActor}} \cup {{x} : x \in Actors}

(* The gate of dispatch: ensure_actor_eligible on a probe with the view.   *)
Admitted(actor) ==
  \A x \in actor :
    EnsureActorEligible([NewContext(now, TRUE) EXCEPT !.view = store.comps], x) = "Ok"

(* Ticks advance between computes, as the stream-order contract asks.      *)
Dispatch(actor, a, ops) ==
  /\ now < MaxTicks /\ Len(log) < MaxLog /\ open = {}
  /\ Admitted(actor)
  /\ now' = now + 1
  /\ log' = Append(log, Entry("dispatch", a, actor, now', ops))
  /\ store' = Apply(store, ops)
  /\ UNCHANGED <<dedup, open, batch, drained>>

DispatchAction ==
  \E actor \in Callers : \E a \in Requests(now + 1) :
    Dispatch(actor, a, KernelCompute(a, now + 1, actor))

(* ErasurePending and UnboundUserLifecycle: nothing is submitted.          *)
DispatchRejected == \E actor \in Callers : ~Admitted(actor) /\ UNCHANGED vars

(* The write of the terminal state that is left to the integrator, "once   *)
(* the cascade reports completion", as an action of the shell.             *)
DispatchMarkErased ==
  \E u \in Users :
    /\ Status(u) = "ErasurePending"
    /\ Dispatch({}, [kind |-> "MarkErased"],
                <<SetComponent(u, "UserGdprState", "Erased")>>)

(* new, with_actor, with_view, with_idempotency_index, ...                 *)
OpenContext(actor, caps) ==
  /\ now < MaxTicks /\ open = {}
  /\ now' = now + 1
  /\ open' = {WithIndexes(WithActor(NewContext(now + 1, caps), actor),
                          store.comps, dedup, HandleIndex)}
  /\ UNCHANGED <<log, store, dedup, batch, drained>>

(* process_action on the open context.                                     *)
ProcessOn(c, a) ==
  LET r == ProcessAction(c, a)
  IN  /\ open' = {r.ctx}
      /\ drained' = drained \o r.events
      /\ batch' = IF r.err # "Ok" THEN batch
                  ELSE Append(batch,
                         Entry("direct", a, c.actor, c.tick,
                               SubSeq(r.ctx.ops, Len(c.ops) + 1, Len(r.ctx.ops))))
      /\ UNCHANGED <<now, log, store, dedup>>

Process ==
  \E c \in open : \E a \in Requests(c.tick) :
    /\ Len(batch) < MaxBatch /\ Len(log) + Len(batch) < MaxLog
    /\ ProcessOn(c, a)

(* drain_ops; the kernel applies them and the caller records the keys.     *)
InsertEntry(index, e) ==
  IF e.key = {} THEN index
  ELSE Insert(index, CHOOSE k \in e.key : TRUE, [entity |-> e.spawned, tick |-> e.tick])

Recorded(index, entries) ==
  LET after[n \in 0 .. Len(entries)] ==
        IF n = 0 THEN index ELSE InsertEntry(after[n - 1], entries[n])
  IN  after[Len(entries)]

Close ==
  \E c \in open :
    /\ store' = Apply(store, c.ops)
    /\ dedup' = Recorded(dedup, batch)
    /\ log' = log \o batch
    /\ open' = {} /\ batch' = <<>> /\ drained' = <<>>
    /\ UNCHANGED now

(* The context is dropped: nothing that ran on it has happened.            *)
Abandon ==
  /\ open # {} /\ open' = {} /\ batch' = <<>> /\ drained' = <<>>
  /\ UNCHANGED <<now, log, store, dedup>>

Next ==
  \/ DispatchAction \/ DispatchRejected \/ DispatchMarkErased
  \/ \E actor \in Callers : OpenContext(actor, TRUE)
  \/ OpenContext({}, FALSE)
  \/ Process \/ Close \/ Abandon

Spec == Init /\ [][Next]_vars
-----------------------------------------------------------------------------
UserScoped(e) == e.kind \in {"SubmitActivity", "CreateSpace"}

(***************************************************************************)
(* "from the instant erasure is requested, the gate rejects any further    *)
(* action by an actor whose UserBinding names this user": nothing such an  *)
(* actor dispatches is logged after the user's erasure request, and no     *)
(* user-scoped record of his is accepted on a context either, not even on  *)
(* the very context that asked for the erasure; whatever happened between, *)
(* registrations of new actors for the user and Erased included.  An actor *)
(* bound to a user without a lifecycle does neither, and no user-scoped    *)
(* record is without its one author, whichever path wrote it.              *)
(***************************************************************************)
GateHolds ==
  /\ \A j \in 1 .. Len(log) : \A x \in log[j].actor \cap Actors :
       LET user == Component(x, "UserBinding")
       IN  log[j].path = "dispatch" \/ UserScoped(log[j]) =>
             /\ user # GhostUser
             /\ \A i \in 1 .. j - 1 : user \notin log[i].user
  /\ \A r \in Activities : Cardinality(Component(r, "ActivityRecord").actors) = 1
  /\ \A s \in Spaces : Cardinality(Component(s, "SpaceConfig").actors) = 1

(***************************************************************************)
(* The pointer the gate reads and the event the cascade reads agree: a     *)
(* registered user is out of Active exactly when the cascade was told to   *)
(* erase it.                                                               *)
(***************************************************************************)
PendingIffScheduled ==
  \A u \in Users : Status(u) # "Active" <=> u \in Range(store.events)

(***************************************************************************)
(* A user that left Active never comes back, by no sequence of calls: in   *)
(* particular no registration ever hits an existing user entity.           *)
(***************************************************************************)
NeverReopened ==
  [][\A u \in Users : /\ u \in store'.live
                      /\ Status(u) # "Active" =>
                           store'.comps[<<u, "UserGdprState">>] # "Active"]_vars

(***************************************************************************)
(* "repeated calls within the same tick produce distinct entities": the    *)
(* ids a context spawns are distinct, none of them is that of an entity of *)
(* the store, also where a zero digest made derive_entity_id try again,    *)
(* and no activity targets itself, though whoever knows the tick can       *)
(* compute beforehand the id it will get.                                  *)
(***************************************************************************)
SpawnsAreFresh ==
  /\ \A c \in open :
       /\ \A i, j \in SpawnsIn(c.ops) :
            c.ops[i].entity = c.ops[j].entity => i = j
       /\ Spawned(c.ops) \cap store.live = {}
  /\ \A r \in Activities : Component(r, "ActivityRecord").target # {r}

(***************************************************************************)
(* The two outlets of emit_event agree: the records process_action has     *)
(* returned from a context, one call after the other, are the events a     *)
(* kernel emits when it applies the operations its caller will drain, in   *)
(* their order, numbered from 0 without a gap; the projections place the   *)
(* events by these numbers.                                                *)
(***************************************************************************)
EventsMirrorOps ==
  \A c \in open :
    LET records == drained \o c.events
    IN  /\ Apply(EmptyStore, c.ops).events =
             [i \in DOMAIN records |-> records[i].value]
        /\ \A i \in DOMAIN records :
             records[i].sequence = i - 1 /\ records[i].tick = c.tick

(***************************************************************************)
(* A nested space lies one below its parent, a space like itself, and no   *)
(* space lies below MaxSpaceDepth: on both paths, though dispatch cannot   *)
(* read the parent's depth and a context only sees the parents of earlier  *)
(* ones.                                                                   *)
(***************************************************************************)
DepthIsParents ==
  \A s \in Spaces :
    LET parent == Component(s, "SpaceConfig").parent
        depth  == Component(s, "ParentChainDepth")
    IN  /\ depth <= MaxSpaceDepth
        /\ \A p \in parent : /\ p \in Spaces
                             /\ depth = Component(p, "ParentChainDepth") + 1
        /\ parent = {} => depth = 0

(***************************************************************************)
(* What a context checked against an index holds against every earlier     *)
(* tick: the record accepted under an idempotency key is the first of that *)
(* key, which the index names, or of the same context; and an actor takes  *)
(* a handle that no actor of an earlier tick has.  Two on the same context *)
(* pass, and dispatch binds no index at all: there a retry is computed     *)
(* again.                                                                  *)
(***************************************************************************)
IndexedOnce ==
  \A j \in 1 .. Len(log) : log[j].path = "direct" =>
    /\ \A k \in log[j].key :
         /\ k \in DOMAIN dedup /\ dedup[k].tick = log[j].tick
         /\ \E i \in 1 .. j :
              /\ log[i].key = {k} /\ log[i].path = "direct"
              /\ dedup[k].entity = log[i].spawned
              /\ \A h \in 1 .. i - 1 :
                   log[h].path = "direct" => log[h].key # {k}
    /\ \A x \in log[j].spawned \cap Actors : \A y \in Actors :
         Component(y, "ActorProfile") = Component(x, "ActorProfile") =>
           y[2] >= log[j].tick

(***************************************************************************)
(* "the terminal Erased transition": a user that is Erased stays Erased.   *)
(***************************************************************************)
ErasedIsTerminal ==
  [][\A u \in Users : Status(u) = "Erased" =>
       store'.comps[<<u, "UserGdprState">>] = "Erased"]_vars
=============================================================================
