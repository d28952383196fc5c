-------------------------- MODULE ProjectionRouter --------------------------
(***************************************************************************)
(* The L2 event dispatcher: ProjectionRouter of                            *)
(* arkhe-forge-platform/src/projection.rs.                                 *)
(*                                                                         *)
(* One router fans the events of the L1 stream out to the projections      *)
(* registered with it.  It keeps a cursor (the last event it accepted), a  *)
(* pin (the event a failed fan-out left unapplied) and a worker state.     *)
(* dispatch takes &mut self, so a whole fan-out is one step; what is       *)
(* nondeterministic is which event arrives, which projection's on_event or *)
(* on_state_change fails, and when the process dies and the router is      *)
(* rebuilt around projections that kept their own state.                   *)
(*                                                                         *)
(* Nothing is assumed here of whoever feeds the router: any event of       *)
(* Events may arrive at any time, any number of times.  ProjectionStream   *)
(* adds a feeder that keeps the documented contract.                       *)
(***************************************************************************)
EXTENDS Integers, Sequences

CONSTANTS
  N,         (* the number of projections; p is the p-th one registered    *)
  Observes,  (* Observes[p]: the type codes projection p observes          *)
  Events,    (* the events that may arrive                                 *)
  NoEvent    (* the None of an Option holding an event                     *)

Projections == 1 .. N

(* An EventRecord; which compute emitted it is not part of it.             *)
IsEventRecord(e) ==
  /\ DOMAIN e = {"tick", "sequence", "type_code", "payload"}
  /\ e.tick \in Nat
  /\ e.sequence \in Nat

ASSUME RouterAssumption ==
  /\ N \in Nat
  /\ DOMAIN Observes = Projections
  /\ NoEvent \notin Events
  /\ \A e \in Events : IsEventRecord(e)

VARIABLES
  registered, (* how many projections have been registered                 *)
  state,      (* the router's ObserverState                                *)
  told,       (* the state each projection last took in on_state_change    *)
  cursor,     (* the last accepted event: cursor and last_event            *)
  pending,    (* the event a failed fan-out left unapplied: pending_retry  *)
  applied     (* the events each projection has applied, in order          *)

vars == <<registered, state, told, cursor, pending, applied>>

ObserverState == {"Passive", "Active", "Draining"}

-----------------------------------------------------------------------------
(***************************************************************************)
(* Stream positions: the (tick, sequence) pair, ordered tick-major.        *)
(***************************************************************************)
SamePosition(e, f) == e.tick = f.tick /\ e.sequence = f.sequence

Precedes(e, f) == \/ e.tick < f.tick
                  \/ e.tick = f.tick /\ e.sequence < f.sequence

SameIdentity(e, f) == e.type_code = f.type_code /\ e.payload = f.payload

(* e may follow c: the next sequence of c's tick, or the head of a later   *)
(* tick's batch.                                                           *)
Contiguous(c, e) == \/ e.tick = c.tick /\ e.sequence = c.sequence + 1
                    \/ e.tick > c.tick /\ e.sequence = 0

-----------------------------------------------------------------------------
(***************************************************************************)
(* The answers dispatch gives to an event before any projection sees it.   *)
(* They are exclusive, and an Active router that gives none of them fans   *)
(* the event out.                                                          *)
(***************************************************************************)
AtCursor(e) == cursor # NoEvent /\ SamePosition(e, cursor)

Redelivery(e) == AtCursor(e) /\ SameIdentity(e, cursor)

PositionConflict(e) ==
  \/ AtCursor(e) /\ ~SameIdentity(e, cursor)
  \/ /\ ~AtCursor(e)
     /\ pending # NoEvent
     /\ SamePosition(e, pending) /\ ~SameIdentity(e, pending)

(* What the incoming event is ordered against.                             *)
StreamHead == IF pending # NoEvent THEN pending ELSE cursor

SequenceBackward(e) == ~AtCursor(e) /\ StreamHead # NoEvent /\ Precedes(e, StreamHead)

(* Mutant: the pin is forgotten when a later event arrives.                *)
SequenceGapIgnoringPin(e) ==
  /\ ~AtCursor(e)
  /\ cursor # NoEvent
  /\ Precedes(cursor, e) /\ ~Contiguous(cursor, e)

SequenceGap(e) ==
  /\ ~AtCursor(e)
  /\ \/ pending # NoEvent /\ Precedes(pending, e)
     \/ /\ pending = NoEvent /\ cursor # NoEvent
        /\ Precedes(cursor, e) /\ ~Contiguous(cursor, e)

Admissible(e) ==
  /\ state = "Active"
  /\ ~Redelivery(e) /\ ~PositionConflict(e)
  /\ ~SequenceBackward(e) /\ ~SequenceGap(e)

-----------------------------------------------------------------------------
(* last_applied of a projection that applied the events of s is at or      *)
(* after e's position.                                                     *)
Covers(s, e) == s # <<>> /\ ~Precedes(s[Len(s)], e)

Reached(p, e) == Covers(applied[p], e)

Observers(e) == {p \in 1 .. registered : e.type_code \in Observes[p]}

(* Mutant: a retried event goes to every observer again.                   *)
FanOutToAll(e) == Observers(e)

(* The observers dispatch still has to hand e to.                          *)
FanOut(e) == {p \in Observers(e) : ~Reached(p, e)}

HandTo(e, done) ==
  applied' = [p \in Projections |->
                IF p \in done THEN Append(applied[p], e) ELSE applied[p]]

Init ==
  /\ registered = 0
  /\ state = "Passive"
  /\ told = [p \in Projections |-> "Passive"]
  /\ cursor = NoEvent
  /\ pending = NoEvent
  /\ applied = [p \in Projections |-> <<>>]

(* register: allowed in every state; the newcomer is told nothing.         *)
Register ==
  /\ registered < N
  /\ registered' = registered + 1
  /\ UNCHANGED <<state, told, cursor, pending, applied>>

(* promote_to_active, demote_to_passive, begin_draining.                   *)
Transition(next) ==
  /\ state # "Draining"
  /\ told' = [p \in Projections |-> IF p <= registered THEN next ELSE told[p]]
  /\ state' = next
  /\ UNCHANGED <<registered, cursor, pending, applied>>

(* Mutant: the router takes the new state before its projections do.       *)
TransitionFailsInNewState(next, q) ==
  /\ state # "Draining"
  /\ q \in 1 .. registered
  /\ told' = [p \in Projections |-> IF p < q THEN next ELSE told[p]]
  /\ state' = next
  /\ UNCHANGED <<registered, cursor, pending, applied>>

(* The on_state_change of projection q fails: the projections registered   *)
(* before q have taken the new state, the router has not.                  *)
TransitionFails(next, q) ==
  /\ state # "Draining"
  /\ q \in 1 .. registered
  /\ told' = [p \in Projections |-> IF p < q THEN next ELSE told[p]]
  /\ UNCHANGED <<registered, state, cursor, pending, applied>>

(* Mutant: the successful retry leaves its pin behind.                     *)
DispatchAppliesKeepingPin(e) ==
  /\ Admissible(e)
  /\ HandTo(e, FanOut(e))
  /\ cursor' = e
  /\ UNCHANGED <<registered, state, told, pending>>

(* A fan-out that every observer takes.                                    *)
DispatchApplies(e) ==
  /\ Admissible(e)
  /\ HandTo(e, FanOut(e))
  /\ cursor' = e
  /\ pending' = NoEvent
  /\ UNCHANGED <<registered, state, told>>

(* Mutant: the cursor moves before the fan-out has succeeded.              *)
DispatchFailsPastCursor(e, q) ==
  /\ Admissible(e)
  /\ q \in FanOut(e)
  /\ HandTo(e, {p \in FanOut(e) : p < q})
  /\ cursor' = e
  /\ pending' = e
  /\ UNCHANGED <<registered, state, told>>

(* Mutant: the fan-out goes on after a failure.                            *)
DispatchFailsLate(e, q) ==
  /\ Admissible(e)
  /\ q \in FanOut(e)
  /\ HandTo(e, FanOut(e) \ {q})
  /\ pending' = e
  /\ UNCHANGED <<registered, state, told, cursor>>

(* A fan-out in which the on_event of projection q fails: those before q   *)
(* have applied e, q and those after it have not, and e is pinned.         *)
DispatchFails(e, q) ==
  /\ Admissible(e)
  /\ q \in FanOut(e)
  /\ HandTo(e, {p \in FanOut(e) : p < q})
  /\ pending' = e
  /\ UNCHANGED <<registered, state, told, cursor>>

(* NotActive, Ok(0) for a redelivery, and the ordering errors.             *)
DispatchRefused(e) == ~Admissible(e) /\ UNCHANGED vars

(* The process dies and a new router is built.  The projections, which     *)
(* own their rows and their last_applied, survive.                         *)
Rebuild ==
  /\ registered' = 0
  /\ state' = "Passive"
  /\ told' = [p \in Projections |-> "Passive"]
  /\ cursor' = NoEvent
  /\ pending' = NoEvent
  /\ UNCHANGED applied

Dispatch == \E e \in Events : \/ DispatchApplies(e)
                              \/ \E q \in Projections : DispatchFails(e, q)
                              \/ DispatchRefused(e)

StateChange == \E next \in ObserverState :
                 \/ Transition(next)
                 \/ \E q \in Projections : TransitionFails(next, q)

Next == Register \/ StateChange \/ Dispatch \/ Rebuild

Spec == Init /\ [][Next]_vars

-----------------------------------------------------------------------------
(***************************************************************************)
(* The variables hold the values the Rust types allow.                     *)
(***************************************************************************)
TypeOK ==
  /\ registered \in 0 .. N
  /\ state \in ObserverState
  /\ told \in [Projections -> ObserverState]
  /\ cursor \in Events \cup {NoEvent}
  /\ pending \in Events \cup {NoEvent}
  /\ applied \in [Projections -> Seq(Events)]

(***************************************************************************)
(* Whatever the feeder does (redeliver, reorder, restart anywhere) and     *)
(* wherever a fan-out fails, a projection applies events at strictly       *)
(* increasing positions.  In particular it applies no position twice: the  *)
(* retry of a failed fan-out skips the projections that already took the   *)
(* event (last_applied in dispatch).                                       *)
(***************************************************************************)
AppliedInOrder ==
  \A p \in Projections : \A i, j \in 1 .. Len(applied[p]) :
    i < j => Precedes(applied[p][i], applied[p][j])

(***************************************************************************)
(* The pin is never left behind: while an event is pinned there is an      *)
(* observer that still has to apply it, and the pinned position is ahead   *)
(* of the cursor.  A pin that outlived its event would refuse the stream   *)
(* for ever, since only a retry of the pinned event is admitted.           *)
(***************************************************************************)
PinGuardsUnapplied ==
  pending # NoEvent =>
    /\ FanOut(pending) # {}
    /\ cursor # NoEvent => Contiguous(cursor, pending)

(* e is the event a failed fan-out left unapplied, as far as the router    *)
(* can tell.                                                               *)
IsPinned(e) == /\ pending # NoEvent
               /\ SamePosition(e, pending) /\ SameIdentity(e, pending)

(***************************************************************************)
(* The router does not move past an event before every registered          *)
(* observer of it has reached it: a step that accepts e leaves no observer *)
(* of e behind e, and while an event is pinned no step accepts, or hands   *)
(* to a projection, any event but the pinned one ("a skip-ahead would      *)
(* silently advance past the lost event").                                 *)
(***************************************************************************)
AcceptsWhenReached ==
  (cursor' # cursor /\ cursor' # NoEvent) =>
    \A p \in Observers(cursor') : Covers(applied'[p], cursor')

PinHolds ==
  pending # NoEvent =>
    /\ cursor' \in {cursor, NoEvent} \/ IsPinned(cursor')
    /\ \A p \in Projections :
         \/ applied'[p] = applied[p]
         \/ \E e \in Events : /\ IsPinned(e)
                              /\ applied'[p] = Append(applied[p], e)

NoObserverLeftBehind == [][AcceptsWhenReached /\ PinHolds]_vars

(***************************************************************************)
(* The router takes a state only when every projection registered with it  *)
(* has taken it: a notification that fails half way leaves the router in   *)
(* the state it was in, free to try again, while the projections before    *)
(* the failing one are ahead of it.  So once a router is draining all the  *)
(* projections it had know it; and from then on no projection is told      *)
(* anything else (a newcomer hears nothing) or handed an event, the pinned *)
(* one included, until a new router is built.                              *)
(***************************************************************************)
EnteredWhenTold ==
  state' # state => \A p \in 1 .. registered' : told'[p] = state'

DrainsForGood ==
  state = "Draining" =>
    \/ state' = "Draining" /\ told' = told /\ applied' = applied
    \/ registered' = 0 /\ applied' = applied

DrainingIsFinal == [][EnteredWhenTold /\ DrainsForGood]_vars
=============================================================================
