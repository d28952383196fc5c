-------------------------- MODULE ProjectionStream --------------------------
(***************************************************************************)
(* ProjectionRouter with a feeder that keeps the stream-order contract     *)
(* written on dispatch: it registers every projection first, feeds every   *)
(* event in emission order, advances the tick between computes and, after  *)
(* losing its own place, resumes no later than the first event it has not  *)
(* seen accepted.  The feeder is the integrator's code, not part of the    *)
(* repository: what it does with each answer is the least the answers and  *)
(* their documentation call for.                                           *)
(*                                                                         *)
(* The feeder may crash and resume too early, the transport may deliver    *)
(* old events again, fan-outs fail, and the router may be rebuilt.         *)
(***************************************************************************)
EXTENDS ProjectionRouter

CONSTANTS
  Log,       (* the event stream, in emission order                        *)
  MaxResumes (* bound: how often the feeder may lose its place             *)

(* One compute per tick, each batch numbered 0, 1, ...                     *)
ASSUME LogAssumption ==
  /\ Log \in Seq(Events)
  /\ \A i \in 1 .. Len(Log) - 1 : Contiguous(Log[i], Log[i + 1])
  /\ MaxResumes \in Nat

VARIABLES
  at,     (* the index in Log of the event the feeder hands over next      *)
  resumes (* how often the feeder has lost its place                       *)

feeder == <<at, resumes>>

svars == <<vars, feeder>>

SInit == Init /\ at = 1 /\ resumes = 0

Ready == registered = N /\ at \in 1 .. Len(Log)

(* The event is accepted, or was before: the feeder moves on.              *)
FeedAccepted ==
  /\ Ready
  /\ \/ DispatchApplies(Log[at])
     \/ /\ state = "Active"
        /\ Redelivery(Log[at]) \/ SequenceBackward(Log[at])
        /\ DispatchRefused(Log[at])
  /\ at' = at + 1
  /\ UNCHANGED resumes

(* A projection failed: the feeder keeps the event and tries again.        *)
FeedFails ==
  /\ Ready
  /\ \E q \in Projections : DispatchFails(Log[at], q)
  /\ UNCHANGED feeder

(* A gap: the feeder fetches the stream again from the position the error  *)
(* names, which may be an accepted event or a pinned one.                  *)
FeedGap ==
  /\ Ready
  /\ state = "Active"
  /\ SequenceGap(Log[at])
  /\ DispatchRefused(Log[at])
  /\ at' = CHOOSE i \in 1 .. Len(Log) : Log[i] = StreamHead
  /\ UNCHANGED resumes

(* The transport delivers an event again that was handed over before.      *)
StrayRedelivery(i) ==
  /\ registered = N
  /\ i \in 1 .. at - 1
  /\ \/ DispatchApplies(Log[i])
     \/ \E q \in Projections : DispatchFails(Log[i], q)
  /\ UNCHANGED feeder

(* The feeder lost its place, or learned that the router did.              *)
FeederResumes(i) ==
  /\ i \in 1 .. at - 1
  /\ resumes < MaxResumes
  /\ at' = i
  /\ resumes' = resumes + 1
  /\ UNCHANGED vars

RouterStep == (Register \/ StateChange \/ Rebuild) /\ UNCHANGED feeder

SNext ==
  \/ RouterStep
  \/ FeedAccepted \/ FeedFails \/ FeedGap
  \/ \E i \in 1 .. Len(Log) : StrayRedelivery(i) \/ FeederResumes(i)

SSpec == SInit /\ [][SNext]_svars

(* An Active router with a feeder that keeps feeding, and an on_event that *)
(* does not fail for ever.                                                 *)
FairSSpec == SSpec /\ WF_svars(FeedAccepted) /\ WF_svars(FeedGap)

-----------------------------------------------------------------------------
Abstract == INSTANCE OrderedFanout
              WITH Consumers <- Projections, Wants <- Observes,
                   Stream <- Log, view <- applied

(***************************************************************************)
(* Every run of the router under a contract-keeping feeder is a run of the *)
(* abstract fan-out: no loss, no duplicate, no reordering, registration    *)
(* order.                                                                  *)
(***************************************************************************)
ImplementsOrderedFanout == Abstract!Spec

(***************************************************************************)
(* Nothing the feeder has moved past is missing from a projection, through *)
(* failed fan-outs, rebuilds with an empty cursor and feeder restarts: the *)
(* events a projection has applied are exactly those it wants of some      *)
(* prefix of the log that includes everything fed.                         *)
(***************************************************************************)
NothingLost == \A p \in Projections : Abstract!UpTo(p, at - 1)

(***************************************************************************)
(* Once the router stays Active the stream drains: whatever partial        *)
(* fan-out failures, rebuilds, pins, gaps and feeder restarts came before, *)
(* every projection ends with all of its events.                           *)
(***************************************************************************)
StreamDrains ==
  (<>[](state = "Active" /\ registered = N)) => <>[](Abstract!Complete)
=============================================================================
