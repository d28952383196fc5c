----------------------- MODULE ProjectionStreamProofs -----------------------
(***************************************************************************)
(* Theorems of ProjectionRouter and of ProjectionStream, for every number  *)
(* of projections, every assignment of type codes to them and every set of *)
(* events: first what holds of the router whoever feeds it, then, for      *)
(* every log and any number of feeder restarts, that nothing is lost and   *)
(* that the router implements OrderedFanout.                               *)
(***************************************************************************)
EXTENDS ProjectionStream, WellFoundedInduction, TLAPS

-----------------------------------------------------------------------------
(* The router, whoever feeds it.                                           *)
-----------------------------------------------------------------------------
(***************************************************************************)
(* Stream positions are totally ordered.                                   *)
(***************************************************************************)
LEMMA PositionOrder ==
  ASSUME NEW e \in Events, NEW f \in Events
  PROVE  /\ e.tick \in Nat /\ e.sequence \in Nat
         /\ ~Precedes(e, e)
         /\ Precedes(e, f) \/ SamePosition(e, f) \/ Precedes(f, e)
         /\ Precedes(e, f) => ~SamePosition(e, f) /\ ~Precedes(f, e)
BY RouterAssumption DEF IsEventRecord, Precedes, SamePosition

(* The order of the stream is transitive.                                  *)
LEMMA PrecedesTransitive ==
  ASSUME NEW e \in Events, NEW f \in Events, NEW g \in Events,
         Precedes(e, f), Precedes(f, g)
  PROVE  Precedes(e, g)
BY PositionOrder DEF Precedes

(***************************************************************************)
(* An event the router fans out follows the cursor without a gap, and is   *)
(* the pinned event if there is one.  This is what the chain of checks at  *)
(* the head of dispatch amounts to.                                        *)
(***************************************************************************)
LEMMA AdmissibleMeans ==
  ASSUME TypeOK, PinGuardsUnapplied, NEW e \in Events, Admissible(e)
  PROVE  /\ state = "Active"
         /\ cursor # NoEvent => Contiguous(cursor, e)
         /\ pending # NoEvent => IsPinned(e)
<1>1. state = "Active" /\ ~AtCursor(e)
  BY DEF Admissible, Redelivery, PositionConflict
<1>2. ASSUME pending # NoEvent PROVE IsPinned(e)
  <2>1. pending \in Events
    BY <1>2 DEF TypeOK
  <2>2. SamePosition(e, pending)
    BY <1>1, <1>2, <2>1, PositionOrder
       DEF Admissible, SequenceBackward, SequenceGap, StreamHead
  <2>3. SameIdentity(e, pending)
    BY <1>1, <1>2, <2>2 DEF Admissible, PositionConflict
  <2> QED
    BY <1>2, <2>2, <2>3 DEF IsPinned
<1>3. ASSUME cursor # NoEvent PROVE Contiguous(cursor, e)
  <2>1. cursor \in Events
    BY <1>3 DEF TypeOK
  <2>2. CASE pending = NoEvent
    BY <1>1, <1>3, <2>1, <2>2, PositionOrder
       DEF Admissible, SequenceBackward, SequenceGap, StreamHead, AtCursor,
           SamePosition
  <2>3. CASE pending # NoEvent
    BY <1>2, <1>3, <2>3
       DEF PinGuardsUnapplied, IsPinned, SamePosition, Contiguous
  <2> QED
    BY <2>2, <2>3
<1> QED
  BY <1>1, <1>2, <1>3

-----------------------------------------------------------------------------
(***************************************************************************)
(* Handing an event to the projections of done.                            *)
(***************************************************************************)
LEMMA HandToType ==
  ASSUME TypeOK, NEW e \in Events, NEW done, HandTo(e, done)
  PROVE  applied' \in [Projections -> Seq(Events)]
BY DEF TypeOK, HandTo

(***************************************************************************)
(* TypeOK and PinGuardsUnapplied need each other: the position of a pin    *)
(* that replaces a pin is right because the old one's was.                 *)
(***************************************************************************)
LEMMA TypeOKStep ==
  ASSUME TypeOK, [Next]_vars
  PROVE  TypeOK'
<1> USE RouterAssumption
<1>1. CASE Register
  BY <1>1 DEF Register, TypeOK
<1>2. ASSUME NEW next \in ObserverState, Transition(next)
      PROVE  TypeOK'
  BY <1>2 DEF Transition, TypeOK
<1>3. ASSUME NEW next \in ObserverState, NEW q \in Projections,
             TransitionFails(next, q)
      PROVE  TypeOK'
  BY <1>3 DEF TransitionFails, TypeOK
<1>4. ASSUME NEW e \in Events, DispatchApplies(e)
      PROVE  TypeOK'
  BY <1>4, HandToType DEF DispatchApplies, TypeOK
<1>5. ASSUME NEW e \in Events, NEW q \in Projections, DispatchFails(e, q)
      PROVE  TypeOK'
  BY <1>5, HandToType DEF DispatchFails, TypeOK
<1>6. ASSUME NEW e \in Events, DispatchRefused(e)
      PROVE  TypeOK'
  BY <1>6 DEF DispatchRefused, TypeOK, vars
<1>7. CASE Rebuild
  BY <1>7 DEF Rebuild, TypeOK, ObserverState
<1>8. CASE UNCHANGED vars
  BY <1>8 DEF vars, TypeOK
<1> QED
  BY <1>1, <1>2, <1>3, <1>4, <1>5, <1>6, <1>7, <1>8
     DEF Next, StateChange, Dispatch

(* The types hold before the first step.                                   *)
LEMMA InitTypeOK == Init => TypeOK
BY RouterAssumption DEF Init, TypeOK, ObserverState

(***************************************************************************)
(* The variables keep the values the Rust types allow.                     *)
(***************************************************************************)
THEOREM TypeCorrect == Spec => []TypeOK
BY InitTypeOK, TypeOKStep, PTL DEF Spec

-----------------------------------------------------------------------------
(***************************************************************************)
(* The fan-out of an event shrinks only by handing it out, and grows with  *)
(* every registration.                                                     *)
(***************************************************************************)
LEMMA PinStep ==
  ASSUME TypeOK, PinGuardsUnapplied, [Next]_vars
  PROVE  PinGuardsUnapplied'
<1> USE RouterAssumption
<1>1. CASE Register
  <2> SUFFICES ASSUME pending # NoEvent PROVE (FanOut(pending) # {})'
    BY <1>1 DEF Register, PinGuardsUnapplied, Contiguous
  <2>1. PICK p \in FanOut(pending) : TRUE
    BY DEF PinGuardsUnapplied
  <2>2. p \in Observers(pending)'
    BY <1>1, <2>1 DEF Register, TypeOK, FanOut, Observers
  <2>3. ~Reached(p, pending)'
    BY <1>1, <2>1 DEF Register, FanOut, Reached
  <2> QED
    BY <2>2, <2>3 DEF FanOut
<1>2. CASE UNCHANGED <<registered, cursor, pending, applied>>
  BY <1>2 DEF PinGuardsUnapplied, FanOut, Observers, Reached
<1>3. ASSUME NEW e \in Events, NEW q \in Projections, DispatchFails(e, q)
      PROVE  PinGuardsUnapplied'
  <2>1. pending' = e /\ UNCHANGED <<registered, cursor>> /\ q \in FanOut(e)
    BY <1>3 DEF DispatchFails
  <2>2. applied'[q] = applied[q]
    BY <1>3 DEF DispatchFails, HandTo, Projections
  <2>3. q \in FanOut(e)'
    BY <2>1, <2>2 DEF FanOut, Observers, Reached
  <2>4. cursor # NoEvent => Contiguous(cursor, e)
    BY <1>3, AdmissibleMeans DEF DispatchFails
  <2> QED
    BY <2>1, <2>3, <2>4 DEF PinGuardsUnapplied
<1>4. CASE pending' = NoEvent
  BY <1>4 DEF PinGuardsUnapplied
<1> QED
  BY <1>1, <1>2, <1>3, <1>4
     DEF Next, StateChange, Dispatch, Transition, TransitionFails,
         DispatchApplies, DispatchRefused, Rebuild, vars

(***************************************************************************)
(* A pin is always at the head of the stream and always guards an observer *)
(* that lacks the event.                                                   *)
(***************************************************************************)
THEOREM PinIsLive == Spec => []PinGuardsUnapplied
<1>1. Init => PinGuardsUnapplied
  BY DEF Init, PinGuardsUnapplied
<1> QED
  BY <1>1, PinStep, TypeCorrect, PTL DEF Spec

-----------------------------------------------------------------------------
(***************************************************************************)
(* Appending an event that a sequence does not cover keeps the sequence    *)
(* ordered.                                                                *)
(***************************************************************************)
Ordered(s) == \A i, j \in 1 .. Len(s) : i < j => Precedes(s[i], s[j])

(* An event beyond the last one leaves an ordered sequence.                *)
LEMMA OrderedAppend ==
  ASSUME NEW s \in Seq(Events), NEW e \in Events, Ordered(s), ~Covers(s, e)
  PROVE  Ordered(Append(s, e))
<1> DEFINE t == Append(s, e)
<1> SUFFICES ASSUME NEW i \in 1 .. Len(t), NEW j \in 1 .. Len(t), i < j
             PROVE  Precedes(t[i], t[j])
  BY DEF Ordered
<1>1. /\ Len(t) = Len(s) + 1
      /\ t[Len(s) + 1] = e
      /\ i \in 1 .. Len(s) /\ t[i] = s[i]
  OBVIOUS
<1>2. CASE j \in 1 .. Len(s)
  <2>1. t[j] = s[j]
    BY <1>2
  <2> QED
    BY <1>1, <1>2, <2>1 DEF Ordered
<1>3. CASE j = Len(s) + 1
  <2>1. s[i] \in Events /\ s[Len(s)] \in Events /\ s # <<>>
    BY <1>1
  <2>2. Precedes(s[Len(s)], e)
    BY <2>1 DEF Covers
  <2>3. i = Len(s) \/ Precedes(s[i], s[Len(s)])
    BY <1>1 DEF Ordered
  <2>4. Precedes(s[i], e)
    BY <2>1, <2>2, <2>3, PrecedesTransitive
  <2> QED
    BY <1>1, <1>3, <2>4
<1> HIDE DEF t
<1> QED
  BY <1>1, <1>2, <1>3

(* Every step keeps what each projection applied in order.                 *)
LEMMA InOrderStep ==
  ASSUME TypeOK, AppliedInOrder, [Next]_vars
  PROVE  AppliedInOrder'
<1>1. ASSUME NEW e \in Events, NEW done \in SUBSET FanOut(e), HandTo(e, done)
      PROVE  AppliedInOrder'
  <2> SUFFICES ASSUME NEW p \in Projections PROVE Ordered(applied'[p])
    BY DEF AppliedInOrder, Ordered
  <2>1. applied[p] \in Seq(Events) /\ Ordered(applied[p])
    BY DEF TypeOK, AppliedInOrder, Ordered
  <2>2. CASE p \in done
    <3>1. ~Covers(applied[p], e)
      BY <1>1, <2>2 DEF FanOut, Reached
    <3>2. applied'[p] = Append(applied[p], e)
      BY <1>1, <2>2 DEF HandTo
    <3> QED
      BY <2>1, <3>1, <3>2, OrderedAppend
  <2>3. CASE p \notin done
    BY <1>1, <2>1, <2>3 DEF HandTo
  <2> QED
    BY <2>2, <2>3
<1>2. ASSUME NEW e \in Events, DispatchApplies(e)
      PROVE  AppliedInOrder'
  BY <1>1, <1>2 DEF DispatchApplies
<1>3. ASSUME NEW e \in Events, NEW q \in Projections, DispatchFails(e, q)
      PROVE  AppliedInOrder'
  <2>1. {p \in FanOut(e) : p < q} \in SUBSET FanOut(e)
    OBVIOUS
  <2> QED
    BY <1>1, <1>3, <2>1 DEF DispatchFails
<1>4. CASE UNCHANGED applied
  BY <1>4 DEF AppliedInOrder
<1> QED
  BY <1>2, <1>3, <1>4
     DEF Next, StateChange, Dispatch, Register, Transition, TransitionFails,
         DispatchRefused, Rebuild, vars

(***************************************************************************)
(* Every projection applies events at strictly increasing positions, so    *)
(* none twice, whatever is delivered and wherever a fan-out fails.         *)
(***************************************************************************)
THEOREM AppliesInOrder == Spec => []AppliedInOrder
<1>1. Init => AppliedInOrder
  <2> SUFFICES ASSUME Init PROVE AppliedInOrder
    OBVIOUS
  <2>1. \A p \in Projections : applied[p] = <<>>
    BY DEF Init
  <2> QED
    BY <2>1 DEF AppliedInOrder
<1> QED
  BY <1>1, InOrderStep, TypeCorrect, PTL DEF Spec

-----------------------------------------------------------------------------
(* The cursor moves to an event only in a step that leaves its observers   *)
(* caught up with it.                                                      *)
LEMMA AcceptStep ==
  ASSUME TypeOK, [Next]_vars
  PROVE  AcceptsWhenReached
<1>1. ASSUME NEW e \in Events, DispatchApplies(e)
      PROVE  AcceptsWhenReached
  <2> SUFFICES ASSUME NEW p \in Observers(e) PROVE Covers(applied'[p], e)
    BY <1>1 DEF DispatchApplies, AcceptsWhenReached
  <2>1. p \in Projections /\ applied[p] \in Seq(Events)
    BY RouterAssumption DEF TypeOK, Observers, Projections
  <2>2. CASE p \in FanOut(e)
    <3>1. applied'[p] = Append(applied[p], e)
      BY <1>1, <2>1, <2>2 DEF DispatchApplies, HandTo
    <3>2. /\ applied'[p] # <<>>
          /\ applied'[p][Len(applied'[p])] = e
      BY <2>1, <3>1
    <3> QED
      BY <3>2, PositionOrder DEF Covers
  <2>3. CASE p \notin FanOut(e)
    <3>1. applied'[p] = applied[p]
      BY <1>1, <2>1, <2>3 DEF DispatchApplies, HandTo
    <3> QED
      BY <2>3, <3>1 DEF FanOut, Reached
  <2> QED
    BY <2>2, <2>3
<1>2. CASE cursor' \in {cursor, NoEvent}
  BY <1>2 DEF AcceptsWhenReached
<1> QED
  BY <1>1, <1>2
     DEF Next, StateChange, Dispatch, Register, Transition, TransitionFails,
         DispatchFails, DispatchRefused, Rebuild, vars

(* While an event is pinned no step accepts, or hands over, another one.   *)
LEMMA PinHoldsStep ==
  ASSUME TypeOK, PinGuardsUnapplied, [Next]_vars
  PROVE  PinHolds
<1> SUFFICES ASSUME pending # NoEvent PROVE PinHolds
  BY DEF PinHolds
<1>1. ASSUME NEW e \in Events, NEW done, Admissible(e), HandTo(e, done),
             cursor' \in {cursor, e}
      PROVE  PinHolds
  <2>1. IsPinned(e)
    BY <1>1, AdmissibleMeans
  <2>2. \A p \in Projections :
          applied'[p] = applied[p] \/ applied'[p] = Append(applied[p], e)
    BY <1>1 DEF HandTo
  <2> QED
    BY <1>1, <2>1, <2>2 DEF PinHolds
<1>2. ASSUME NEW e \in Events, DispatchApplies(e)
      PROVE  PinHolds
  BY <1>1, <1>2 DEF DispatchApplies
<1>3. ASSUME NEW e \in Events, NEW q \in Projections, DispatchFails(e, q)
      PROVE  PinHolds
  BY <1>1, <1>3 DEF DispatchFails
<1>4. CASE UNCHANGED applied /\ cursor' \in {cursor, NoEvent}
  BY <1>4 DEF PinHolds
<1> QED
  BY <1>2, <1>3, <1>4
     DEF Next, StateChange, Dispatch, Register, Transition, TransitionFails,
         DispatchRefused, Rebuild, vars

(***************************************************************************)
(* No step moves the router past an event that a registered observer has   *)
(* not reached, nor past a pinned one.                                     *)
(***************************************************************************)
THEOREM LeavesNoObserverBehind == Spec => NoObserverLeftBehind
<1>1. TypeOK /\ PinGuardsUnapplied /\ [Next]_vars
        => [AcceptsWhenReached /\ PinHolds]_vars
  BY AcceptStep, PinHoldsStep
<1> QED
  BY <1>1, TypeCorrect, PinIsLive, PTL DEF Spec, NoObserverLeftBehind

(***************************************************************************)
(* The router is in a state only when all its projections were told so;    *)
(* and a draining router tells them nothing more and has them apply        *)
(* nothing more, until its process is replaced.                            *)
(***************************************************************************)
THEOREM DrainingIsForGood == Spec => DrainingIsFinal
<1>1. TypeOK /\ [Next]_vars => [EnteredWhenTold /\ DrainsForGood]_vars
  <2> SUFFICES ASSUME TypeOK, Next PROVE EnteredWhenTold /\ DrainsForGood
    OBVIOUS
  <2>1. EnteredWhenTold
    <3>1. ASSUME NEW next \in ObserverState, Transition(next) PROVE EnteredWhenTold
      <4>1. 1 .. registered' \subseteq Projections /\ registered' = registered
        BY <3>1, RouterAssumption DEF Transition, TypeOK, Projections
      <4> QED
        BY <3>1, <4>1 DEF Transition, EnteredWhenTold
    <3>2. CASE Rebuild
      BY <3>2 DEF Rebuild, EnteredWhenTold
    <3>3. CASE state' = state
      BY <3>3 DEF EnteredWhenTold
    <3> QED
      BY <3>1, <3>2, <3>3
         DEF Next, StateChange, Dispatch, Register, TransitionFails,
             DispatchApplies, DispatchFails, DispatchRefused, vars
  <2>2. ASSUME state = "Draining" PROVE DrainsForGood
    <3>1. \A e \in Events : ~Admissible(e)
      BY <2>2 DEF Admissible
    <3> QED
      BY <2>2, <3>1
         DEF DrainsForGood, Next, StateChange, Dispatch, Register, Transition,
             TransitionFails, DispatchApplies, DispatchFails, DispatchRefused,
             Rebuild, vars
  <2> QED
    BY <2>1, <2>2 DEF DrainsForGood
<1> QED
  BY <1>1, TypeCorrect, PTL DEF Spec, DrainingIsFinal

-----------------------------------------------------------------------------
(* The router and its feeder.                                              *)
-----------------------------------------------------------------------------
(***************************************************************************)
(* Induction on the natural numbers, as a fact about a set.                *)
(***************************************************************************)
LEMMA SetInduction ==
  ASSUME NEW S, 0 \in S, \A n \in Nat : n \in S => n + 1 \in S
  PROVE  Nat \subseteq S
<1> SUFFICES ASSUME Nat \ S # {} PROVE FALSE
  OBVIOUS
<1>1. PICK n \in Nat \ S : \A m \in Nat \ S : ~(m < n)
  <2>1. \E n \in Nat \ S : \A m \in Nat \ S : <<m, n>> \notin OpToRel(<, Nat)
    BY WFMin, NatLessThanWellFounded, Zenon
  <2> QED
    BY <2>1, Zenon DEF OpToRel
<1>2. n # 0 /\ n - 1 \in Nat \ S
  BY <1>1
<1> QED
  BY <1>1, <1>2

L == Len(Log)

(* The log is a finite sequence of events.                                 *)
LEMMA LogType == L \in Nat /\ \A i \in 1 .. L : Log[i] \in Events
BY LogAssumption DEF L

(***************************************************************************)
(* Neighbours of the log are contiguous, so the whole log is in order, and *)
(* no two of its events share a position.                                  *)
(***************************************************************************)
LEMMA LogOrdered ==
  \A i, j \in 1 .. L : i < j => Precedes(Log[i], Log[j])
<1> DEFINE Before(j) == \A i \in 1 .. L : i < j => Precedes(Log[i], Log[j])
           S == {n \in Nat : n \in 1 .. L => Before(n)}
<1>1. 0 \in S
  OBVIOUS
<1>2. ASSUME NEW n \in Nat, n \in S PROVE n + 1 \in S
  <2> SUFFICES ASSUME n + 1 \in 1 .. L, NEW i \in 1 .. L, i < n + 1
               PROVE  Precedes(Log[i], Log[n + 1])
    BY DEF Before
  <2>1. n \in 1 .. L - 1 /\ n \in 1 .. L /\ (i = n \/ i < n)
    BY LogType
  <2>2. Contiguous(Log[n], Log[n + 1])
    BY <2>1, LogAssumption DEF L
  <2>3. Log[n] \in Events /\ Log[n + 1] \in Events /\ Log[i] \in Events
    BY <2>1, LogType
  <2>4. Precedes(Log[n], Log[n + 1])
    BY <2>2, <2>3, PositionOrder DEF Contiguous, Precedes
  <2>5. i < n => Precedes(Log[i], Log[n])
    BY <1>2, <2>1
  <2> QED
    BY <2>1, <2>3, <2>4, <2>5, PrecedesTransitive
<1>3. \A n \in Nat : n \in S
  <2> HIDE DEF S
  <2> QED
    BY <1>1, <1>2, SetInduction
<1> QED
  BY <1>3, LogType

(* Two positions of the log are two events, in the order of the positions. *)
LEMMA LogDistinct ==
  ASSUME NEW i \in 1 .. L, NEW j \in 1 .. L
  PROVE  /\ Precedes(Log[i], Log[j]) <=> i < j
         /\ SamePosition(Log[i], Log[j]) <=> i = j
<1>1. Log[i] \in Events /\ Log[j] \in Events /\ i \in Nat /\ j \in Nat
  BY LogType
<1>2. /\ i < j => Precedes(Log[i], Log[j])
      /\ j < i => Precedes(Log[j], Log[i])
  BY LogOrdered
<1>3. /\ Precedes(Log[i], Log[j]) => ~SamePosition(Log[i], Log[j]) /\ ~Precedes(Log[j], Log[i])
      /\ Precedes(Log[j], Log[i]) => ~SamePosition(Log[j], Log[i]) /\ ~Precedes(Log[i], Log[j])
      /\ ~Precedes(Log[i], Log[i])
  BY <1>1, PositionOrder
<1>4. SamePosition(Log[i], Log[i]) /\ (SamePosition(Log[i], Log[j]) => SamePosition(Log[j], Log[i]))
  BY DEF SamePosition
<1>5. i < j \/ i = j \/ j < i
  BY <1>1
<1>6. (i < j => ~(j < i) /\ i # j) /\ (j < i => i # j)
  BY <1>1
<1> QED
  BY <1>2, <1>3, <1>4, <1>5, <1>6, Zenon

-----------------------------------------------------------------------------
(***************************************************************************)
(* What a projection wants of the first i events.                          *)
(***************************************************************************)
Wanted(p) == Abstract!Wanted(p)

(* What a projection wants of the log, one event at a time.                *)
LEMMA WantedDef ==
  ASSUME NEW p
  PROVE  /\ Wanted(p)[0] = <<>>
         /\ \A i \in 1 .. L :
              Wanted(p)[i] = IF Log[i].type_code \in Observes[p]
                               THEN Append(Wanted(p)[i - 1], Log[i])
                               ELSE Wanted(p)[i - 1]
<1> DEFINE Body(f, i) == IF i = 0 THEN <<>>
                         ELSE IF Log[i].type_code \in Observes[p]
                                THEN Append(f[i - 1], Log[i])
                                ELSE f[i - 1]
           Defines(f, n) == f = [i \in 0 .. n |-> Body(f, i)]
           S == {n \in Nat : \E f : Defines(f, n)}
<1>1. 0 \in S
  <2>1. Defines([i \in 0 .. 0 |-> <<>>], 0)
    OBVIOUS
  <2> QED
    BY <2>1
<1>2. ASSUME NEW n \in Nat, n \in S PROVE n + 1 \in S
  <2>1. PICK f : Defines(f, n)
    BY <1>2
  <2> DEFINE g == [i \in 0 .. n + 1 |-> IF i = n + 1 THEN Body(f, i) ELSE f[i]]
  <2>2. \A i \in 0 .. n : i \in 0 .. n + 1 /\ i # n + 1 /\ g[i] = f[i]
    OBVIOUS
  <2>3. \A i \in 0 .. n + 1 : i = 0 \/ i - 1 \in 0 .. n
    OBVIOUS
  <2>4. ASSUME NEW i \in 0 .. n + 1 PROVE Body(g, i) = Body(f, i)
    <3>1. i = 0 \/ g[i - 1] = f[i - 1]
      BY <2>2, <2>3
    <3> HIDE DEF g
    <3> QED
      BY <3>1
  <2>5. ASSUME NEW i \in 0 .. n + 1 PROVE g[i] = Body(f, i)
    <3>1. i = n + 1 \/ i \in 0 .. n
      OBVIOUS
    <3>2. i \in 0 .. n => f[i] = Body(f, i)
      <4> HIDE DEF Body
      <4> QED
        BY <2>1
    <3> HIDE DEF Body
    <3> QED
      BY <2>2, <3>1, <3>2
  <2>6. Defines(g, n + 1)
    <3> HIDE DEF Body
    <3> QED
      BY <2>4, <2>5
  <2> HIDE DEF g, Defines
  <2> QED
    BY <2>6
<1>3. L \in S
  <2> HIDE DEF S
  <2> QED
    BY <1>1, <1>2, SetInduction, LogType
<1>4. Wanted(p) = CHOOSE f : Defines(f, L)
  BY Zenon DEF Wanted, Abstract!Wanted, L
<1>5. Defines(Wanted(p), L)
  <2> HIDE DEF Defines
  <2> QED
    BY <1>3, <1>4
<1>6. \A i \in 0 .. L : Wanted(p)[i] = Body(Wanted(p), i)
  <2> HIDE DEF Body
  <2> QED
    BY <1>5
<1> QED
  BY <1>6, LogType

(***************************************************************************)
(* The last event of Wanted(p)[k] is the last one before k that p wants.   *)
(***************************************************************************)
Wants(p, i) == Log[i].type_code \in Observes[p]

EndsAt(s, p, k) ==
  \/ s = <<>> /\ \A i \in 1 .. k : ~Wants(p, i)
  \/ \E j \in 1 .. k : /\ s # <<>> /\ s[Len(s)] = Log[j]
                       /\ \A i \in j + 1 .. k : ~Wants(p, i)

(* What a projection wants of the first k events ends at or before the     *)
(* k-th.                                                                   *)
LEMMA WantedEnds ==
  ASSUME NEW p
  PROVE  \A k \in 0 .. L : /\ Wanted(p)[k] \in Seq(Events)
                           /\ EndsAt(Wanted(p)[k], p, k)
<1> DEFINE Holds(k) == Wanted(p)[k] \in Seq(Events) /\ EndsAt(Wanted(p)[k], p, k)
           S == {n \in Nat : n <= L => Holds(n)}
<1>1. 0 \in S
  <2>1. Wanted(p)[0] = <<>> /\ <<>> \in Seq(Events) /\ \A i \in 1 .. 0 : FALSE
    BY WantedDef
  <2>2. EndsAt(Wanted(p)[0], p, 0)
    BY <2>1, Zenon DEF EndsAt
  <2> QED
    BY <2>1, <2>2
<1>2. ASSUME NEW n \in Nat, n \in S PROVE n + 1 \in S
  <2> SUFFICES ASSUME n + 1 <= L PROVE Holds(n + 1)
    OBVIOUS
  <2> DEFINE s == Wanted(p)[n]
             t == Wanted(p)[n + 1]
  <2>1. n + 1 \in 1 .. L /\ n <= L /\ (n + 1) - 1 = n
    BY LogType
  <2>2. s \in Seq(Events) /\ EndsAt(s, p, n)
    BY <1>2, <2>1
  <2>3. t = IF Wants(p, n + 1) THEN Append(s, Log[n + 1]) ELSE s
    BY <2>1, WantedDef DEF Wants
  <2>4. Log[n + 1] \in Events
    BY <2>1, LogType
  <2> HIDE DEF s, t
  <2>5. t \in Seq(Events) /\ EndsAt(t, p, n + 1)
    <3>1. CASE Wants(p, n + 1)
      <4>1. /\ t \in Seq(Events) /\ t # <<>> /\ t[Len(t)] = Log[n + 1]
        BY <2>2, <2>3, <2>4, <3>1
      <4>2. n + 1 \in 1 .. n + 1 /\ \A i \in (n + 1) + 1 .. n + 1 : ~Wants(p, i)
        OBVIOUS
      <4> QED
        BY <4>1, <4>2 DEF EndsAt
    <3>2. CASE ~Wants(p, n + 1)
      <4>1. t = s
        BY <2>3, <3>2
      <4>2. \A j \in 1 .. n : /\ j \in 1 .. n + 1
                              /\ \A i \in j + 1 .. n + 1 : i \in j + 1 .. n \/ i = n + 1
        OBVIOUS
      <4>3. \A i \in 1 .. n + 1 : i \in 1 .. n \/ i = n + 1
        OBVIOUS
      <4> QED
        BY <2>2, <3>2, <4>1, <4>2, <4>3, Zenon DEF EndsAt
    <3> QED
      BY <3>1, <3>2
  <2> QED
    BY <2>5 DEF t
<1>3. \A n \in Nat : n \in S
  <2> HIDE DEF S
  <2> QED
    BY <1>1, <1>2, SetInduction
<1> QED
  BY <1>3, LogType

(***************************************************************************)
(* A projection that has applied what it wants of the first k events has   *)
(* reached just those of the events it wants that are among them:          *)
(* last_applied is as good as the whole list of what was applied.          *)
(***************************************************************************)
LEMMA CoversIsPrefix ==
  ASSUME NEW p, NEW k \in 0 .. L, NEW i \in 1 .. L, Wants(p, i)
  PROVE  Covers(Wanted(p)[k], Log[i]) <=> i <= k
<1> DEFINE s == Wanted(p)[k]
<1>1. s \in Seq(Events) /\ EndsAt(s, p, k)
  BY WantedEnds
<1>n. i \in Nat /\ k \in Nat /\ k <= L /\ L \in Nat
  BY LogType
<1> HIDE DEF s
<1>2. CASE s = <<>> /\ \A j \in 1 .. k : ~Wants(p, j)
  <2>1. ~(i <= k)
    BY <1>2, <1>n
  <2> QED
    BY <1>2, <2>1 DEF Covers, s
<1>3. ASSUME NEW j \in 1 .. k, s # <<>>, s[Len(s)] = Log[j],
             \A m \in j + 1 .. k : ~Wants(p, m)
      PROVE  Covers(s, Log[i]) <=> i <= k
  <2>1. j \in 1 .. L
    BY <1>n
  <2>2. Covers(s, Log[i]) <=> ~(j < i)
    BY <1>3, <2>1, LogDistinct DEF Covers
  <2>3. i <= k => i <= j
    BY <1>3, <1>n
  <2> QED
    BY <1>n, <2>2, <2>3
<1> QED
  BY <1>1, <1>2, <1>3 DEF EndsAt, s

-----------------------------------------------------------------------------
(***************************************************************************)
(* Handing over the i-th event to a projection that has everything before  *)
(* it: it then has the i-th too, and is behind in nothing it was not       *)
(* behind in.                                                              *)
(***************************************************************************)
UpTo(p, i) == Abstract!UpTo(p, i)

(* What it is for a projection to be up to date with the first i events,   *)
(* now and next.                                                           *)
LEMMA UpToIs ==
  ASSUME NEW p, NEW i \in Nat
  PROVE  /\ UpTo(p, i) <=> \E k \in i .. L : applied[p] = Wanted(p)[k]
         /\ UpTo(p, i)' <=> \E k \in i .. L : applied'[p] = Wanted(p)[k]
BY DEF UpTo, Abstract!UpTo, Wanted, L

(* A projection up to date before an event it wants takes it as the next   *)
(* one.                                                                    *)
LEMMA TakesNext ==
  ASSUME NEW p, NEW i \in 1 .. L, UpTo(p, i - 1), Wants(p, i), ~Reached(p, Log[i])
  PROVE  /\ applied[p] = Wanted(p)[i - 1]
         /\ Append(applied[p], Log[i]) = Wanted(p)[i]
         /\ \A j \in Nat : UpTo(p, j) => j <= i - 1
<1>1. i - 1 \in Nat /\ i - 1 \in 0 .. L /\ L \in Nat
  BY LogType
<1>2. ASSUME NEW j \in Nat, NEW k \in j .. L, applied[p] = Wanted(p)[k]
      PROVE  k <= i - 1 /\ j <= i - 1 /\ k \in Nat
  <2>1. k \in 0 .. L
    BY <1>1
  <2>2. ~(i <= k)
    BY <1>2, <2>1, CoversIsPrefix DEF Reached
  <2> QED
    BY <1>1, <2>1, <2>2
<1>3. PICK k \in i - 1 .. L : applied[p] = Wanted(p)[k]
  BY <1>1, UpToIs
<1>4. k = i - 1
  BY <1>1, <1>2, <1>3
<1>5. \A j \in Nat : UpTo(p, j) => j <= i - 1
  BY <1>2, UpToIs
<1> QED
  BY <1>3, <1>4, <1>5, WantedDef DEF Wants

(* A projection that does not want the i-th event, or has reached it, has  *)
(* it already.                                                             *)
LEMMA NeedsNothing ==
  ASSUME NEW p, NEW i \in 1 .. L, UpTo(p, i - 1), ~Wants(p, i) \/ Reached(p, Log[i])
  PROVE  UpTo(p, i)
<1>1. i - 1 \in Nat /\ i - 1 \in 0 .. L /\ i \in Nat /\ L \in Nat
  BY LogType
<1>2. PICK k \in i - 1 .. L : applied[p] = Wanted(p)[k]
  BY <1>1, UpToIs
<1>3. k \in 0 .. L /\ (k = i - 1 \/ k \in i .. L) /\ i \in i .. L
  BY <1>1
<1>4. CASE k \in i .. L
  BY <1>1, <1>2, <1>4, UpToIs
<1>5. CASE k = i - 1
  <2>1. ~Wants(p, i)
    <3> SUFFICES ASSUME Wants(p, i) PROVE FALSE
      OBVIOUS
    <3>1. ~(i <= k)
      BY <1>1, <1>5
    <3> QED
      BY <1>2, <1>3, <3>1, CoversIsPrefix DEF Reached
  <2>2. Wanted(p)[i] = Wanted(p)[i - 1]
    BY <2>1, WantedDef DEF Wants
  <2> QED
    BY <1>1, <1>2, <1>3, <1>5, <2>2, UpToIs
<1> QED
  BY <1>3, <1>4, <1>5

(***************************************************************************)
(* Handing the i-th event to some of those it still has to go to.          *)
(***************************************************************************)
LEMMA HandOver ==
  ASSUME NEW i \in 1 .. L, \A p \in Projections : UpTo(p, i - 1),
         NEW done \in SUBSET FanOut(Log[i]), HandTo(Log[i], done)
  PROVE  /\ \A p \in Projections, j \in Nat : UpTo(p, j) => UpTo(p, j)'
         /\ \A p \in Projections : p \in done => UpTo(p, i)'
<1>0. i \in Nat /\ L \in Nat /\ i \in i .. L
  BY LogType
<1>1. ASSUME NEW p \in Projections, p \in done
      PROVE  applied'[p] = Wanted(p)[i] /\ \A j \in Nat : UpTo(p, j) => j <= i - 1
  <2>1. Wants(p, i) /\ ~Reached(p, Log[i])
    BY <1>1 DEF FanOut, Observers, Wants
  <2>2. applied'[p] = Append(applied[p], Log[i])
    BY <1>1 DEF HandTo
  <2> QED
    BY <2>1, <2>2, TakesNext
<1>2. ASSUME NEW p \in Projections, p \notin done
      PROVE  applied'[p] = applied[p]
  BY <1>2 DEF HandTo
<1>3. ASSUME NEW p \in Projections, NEW j \in Nat, UpTo(p, j)
      PROVE  UpTo(p, j)'
  <2>1. CASE p \in done
    <3>1. i \in j .. L
      BY <1>0, <1>1, <1>3, <2>1
    <3> QED
      BY <1>1, <2>1, <3>1, UpToIs
  <2>2. CASE p \notin done
    BY <1>2, <1>3, <2>2, UpToIs
  <2> QED
    BY <2>1, <2>2
<1>4. ASSUME NEW p \in Projections, p \in done PROVE UpTo(p, i)'
  BY <1>0, <1>1, <1>4, UpToIs
<1> QED
  BY <1>3, <1>4

(***************************************************************************)
(* It is a step of the abstract fan-out, or none at all, if those that get *)
(* the event come before those that do not.                                *)
(***************************************************************************)
LEMMA HandOverIsConsume ==
  ASSUME NEW i \in 1 .. L, \A p \in Projections : UpTo(p, i - 1),
         NEW done \in SUBSET FanOut(Log[i]), HandTo(Log[i], done),
         registered = N, TypeOK,
         \A p \in FanOut(Log[i]), q \in done : p < q => p \in done
  PROVE  [Abstract!Next]_applied
<1>0. FanOut(Log[i]) \subseteq Projections /\ i \in Nat
  BY LogType DEF FanOut, Observers, Projections
<1>1. CASE done = {}
  <2>1. applied' = [p \in Projections |-> applied[p]]
    BY <1>1 DEF HandTo
  <2> QED
    BY <2>1 DEF TypeOK
<1>2. CASE done # {}
  <2>1. ASSUME NEW p \in done PROVE Abstract!Due(p, i)
    <3>1. p \in Projections /\ Wants(p, i) /\ ~Reached(p, Log[i])
      BY <1>0 DEF FanOut, Observers, Wants
    <3>2. applied[p] = Wanted(p)[i - 1]
      BY <3>1, TakesNext
    <3> QED
      BY <3>1, <3>2 DEF Abstract!Due, Wants, Wanted
  <2>2. ASSUME NEW p \in Projections, NEW q \in Projections, p < q, q \in done,
               Wants(p, i)
        PROVE  Abstract!UpTo(p, i)'
    <3>1. CASE p \in FanOut(Log[i])
      <4>1. UpTo(p, i)'
        BY <2>2, <3>1, HandOver
      <4> QED
        BY <4>1 DEF UpTo
    <3>2. CASE p \notin FanOut(Log[i])
      <4>1. Reached(p, Log[i])
        BY <2>2, <3>2 DEF FanOut, Observers, Projections, Wants
      <4>2. UpTo(p, i)
        BY <4>1, NeedsNothing
      <4>3. UpTo(p, i)'
        BY <1>0, <4>2, HandOver
      <4> QED
        BY <4>3 DEF UpTo
    <3> QED
      BY <3>1, <3>2
  <2>3. Abstract!Consume(i, done)
    BY <1>2, <2>1, <2>2 DEF Abstract!Consume, HandTo, Wants
  <2> QED
    BY <1>0, <2>3 DEF Abstract!Next, L
<1> QED
  BY <1>1, <1>2

-----------------------------------------------------------------------------
(***************************************************************************)
(* Nothing before the event the feeder is at, up to the cursor, or before  *)
(* the pin is missing from any projection; the last two are what lets the  *)
(* feeder move past an event the router refuses.                           *)
(***************************************************************************)
StreamInv ==
  /\ TypeOK /\ PinGuardsUnapplied
  /\ at \in 1 .. L + 1
  /\ NothingLost
  /\ cursor # NoEvent =>
       \E c \in 1 .. L : cursor = Log[c] /\ \A p \in Projections : UpTo(p, c)
  /\ pending # NoEvent =>
       \E d \in 1 .. L : pending = Log[d] /\ \A p \in Projections : UpTo(p, d - 1)

(* The invariant holds before the first event.                             *)
LEMMA InitStreamInv == SInit => StreamInv
<1> SUFFICES ASSUME SInit PROVE StreamInv
  OBVIOUS
<1>1. TypeOK /\ PinGuardsUnapplied /\ cursor = NoEvent /\ pending = NoEvent
  BY InitTypeOK DEF SInit, Init, PinGuardsUnapplied
<1>2. at = 1 /\ 1 \in 1 .. L + 1 /\ 0 \in 0 .. L
  BY LogType DEF SInit
<1>3. ASSUME NEW p \in Projections PROVE UpTo(p, 0)
  <2>1. applied[p] = Wanted(p)[0]
    BY WantedDef DEF SInit, Init
  <2> QED
    BY <1>2, <2>1, UpToIs
<1>4. NothingLost
  <2>1. at - 1 = 0
    BY <1>2
  <2> QED
    BY <1>3, <2>1 DEF NothingLost, UpTo
<1> QED
  BY <1>1, <1>2, <1>4 DEF StreamInv

(***************************************************************************)
(* The feeder only ever dispatches.                                        *)
(***************************************************************************)
LEMMA FeederDispatches ==
  ASSUME StreamInv, [SNext]_svars
  PROVE  [Next]_vars
<1>1. \A i \in 1 .. L : Log[i] \in Events
  BY LogType
<1>2. CASE RouterStep
  BY <1>2 DEF RouterStep, Next
<1>3. CASE FeedAccepted
  BY <1>1, <1>3 DEF FeedAccepted, Ready, Next, Dispatch, L
<1>4. CASE FeedFails
  BY <1>1, <1>4 DEF FeedFails, Ready, Next, Dispatch, L
<1>5. CASE FeedGap
  BY <1>1, <1>5 DEF FeedGap, Ready, Next, Dispatch, L
<1>6. ASSUME NEW i \in 1 .. Len(Log), StrayRedelivery(i) PROVE Next
  BY <1>1, <1>6 DEF StrayRedelivery, Next, Dispatch, L
<1>7. ASSUME NEW i \in 1 .. Len(Log), FeederResumes(i) PROVE UNCHANGED vars
  BY <1>7 DEF FeederResumes
<1>8. CASE UNCHANGED svars
  BY <1>8 DEF svars
<1> QED
  BY <1>2, <1>3, <1>4, <1>5, <1>6, <1>7, <1>8 DEF SNext

(* Who is up to date with more is up to date with less.                    *)
LEMMA UpToLess ==
  ASSUME NEW p, NEW j \in Nat, NEW i \in 0 .. j, UpTo(p, j)
  PROVE  UpTo(p, i)
<1>1. L \in Nat /\ i \in Nat /\ j .. L \subseteq i .. L
  BY LogType
<1> QED
  BY <1>1, UpToIs

(* Everything before the event the feeder is at, or hands over again, is   *)
(* there.                                                                  *)
LEMMA FedBefore ==
  ASSUME StreamInv, NEW i \in 1 .. at
  PROVE  \A p \in Projections : UpTo(p, i - 1)
<1>1. at - 1 \in Nat /\ i - 1 \in 0 .. at - 1
  BY LogType DEF StreamInv
<1>2. \A p \in Projections : UpTo(p, at - 1)
  BY DEF StreamInv, NothingLost, UpTo
<1> QED
  BY <1>1, <1>2, UpToLess

(***************************************************************************)
(* A dispatch of the event the feeder is at, or of an earlier one, that    *)
(* every observer takes, or that the one before q were the last to take.   *)
(***************************************************************************)
LEMMA AppliesIs ==
  ASSUME StreamInv, registered = N, NEW i \in 1 .. L, i <= at,
         DispatchApplies(Log[i])
  PROVE  /\ \A p \in Projections, j \in Nat : UpTo(p, j) => UpTo(p, j)'
         /\ \A p \in Projections : UpTo(p, i)'
         /\ cursor' = Log[i] /\ pending' = NoEvent
         /\ [Abstract!Next]_applied
<1>0. i \in Nat /\ i \in 1 .. at /\ TypeOK
  BY LogType DEF StreamInv
<1>1. \A p \in Projections : UpTo(p, i - 1)
  BY <1>0, FedBefore
<1>2. HandTo(Log[i], FanOut(Log[i])) /\ cursor' = Log[i] /\ pending' = NoEvent
  BY DEF DispatchApplies
<1>3. FanOut(Log[i]) \in SUBSET FanOut(Log[i])
  OBVIOUS
<1>4. /\ \A p \in Projections, j \in Nat : UpTo(p, j) => UpTo(p, j)'
      /\ \A p \in Projections : p \in FanOut(Log[i]) => UpTo(p, i)'
  BY <1>1, <1>2, <1>3, HandOver
<1>5. ASSUME NEW p \in Projections PROVE UpTo(p, i)'
  <2>1. CASE p \in FanOut(Log[i])
    BY <1>4, <2>1
  <2>2. CASE p \notin FanOut(Log[i])
    <3>1. ~Wants(p, i) \/ Reached(p, Log[i])
      BY <2>2 DEF FanOut, Observers, Projections, Wants
    <3>2. UpTo(p, i)
      BY <1>1, <3>1, NeedsNothing
    <3> QED
      BY <1>0, <1>4, <3>2
  <2> QED
    BY <2>1, <2>2
<1>6. [Abstract!Next]_applied
  BY <1>0, <1>1, <1>2, <1>3, HandOverIsConsume
<1> QED
  BY <1>2, <1>4, <1>5, <1>6

(* A dispatch that fails keeps every projection where it was or moves it   *)
(* forward.                                                                *)
LEMMA FailsIs ==
  ASSUME StreamInv, registered = N, NEW i \in 1 .. L, i <= at,
         NEW q, DispatchFails(Log[i], q)
  PROVE  /\ \A p \in Projections, j \in Nat : UpTo(p, j) => UpTo(p, j)'
         /\ \A p \in Projections : UpTo(p, i - 1)'
         /\ cursor' = cursor /\ pending' = Log[i]
         /\ [Abstract!Next]_applied
<1> DEFINE done == {p \in FanOut(Log[i]) : p < q}
<1>0. i \in Nat /\ i - 1 \in Nat /\ i \in 1 .. at /\ TypeOK
  BY LogType DEF StreamInv
<1>1. \A p \in Projections : UpTo(p, i - 1)
  BY <1>0, FedBefore
<1>2. HandTo(Log[i], done) /\ cursor' = cursor /\ pending' = Log[i] /\ q \in FanOut(Log[i])
  BY DEF DispatchFails
<1>3. done \in SUBSET FanOut(Log[i])
  OBVIOUS
<1>4. \A p \in FanOut(Log[i]), r \in done : p < r => p \in done
  <2>1. FanOut(Log[i]) \subseteq Nat
    BY RouterAssumption DEF FanOut, Observers, Projections
  <2> QED
    BY <1>2, <2>1
<1> HIDE DEF done
<1>5. \A p \in Projections, j \in Nat : UpTo(p, j) => UpTo(p, j)'
  BY <1>1, <1>2, <1>3, HandOver
<1>6. [Abstract!Next]_applied
  BY <1>0, <1>1, <1>2, <1>3, <1>4, HandOverIsConsume
<1> QED
  BY <1>0, <1>1, <1>2, <1>5, <1>6

(***************************************************************************)
(* An event the router refuses as seen before has been seen: the feeder    *)
(* loses nothing by moving on.                                             *)
(***************************************************************************)
LEMMA SeenBefore ==
  ASSUME StreamInv, at \in 1 .. L, Redelivery(Log[at]) \/ SequenceBackward(Log[at])
  PROVE  \A p \in Projections : UpTo(p, at)
<1>0. at \in Nat /\ Log[at] \in Events
  BY LogType
<1>1. CASE Redelivery(Log[at])
  <2>1. cursor # NoEvent /\ SamePosition(Log[at], cursor)
    BY <1>1 DEF Redelivery, AtCursor
  <2>2. PICK c \in 1 .. L : cursor = Log[c] /\ \A p \in Projections : UpTo(p, c)
    BY <2>1 DEF StreamInv
  <2>3. c = at
    BY <2>1, <2>2, LogDistinct
  <2> QED
    BY <2>2, <2>3
<1>2. CASE SequenceBackward(Log[at])
  <2>1. StreamHead # NoEvent /\ Precedes(Log[at], StreamHead)
    BY <1>2 DEF SequenceBackward
  <2>2. CASE pending # NoEvent
    <3>1. PICK d \in 1 .. L : pending = Log[d] /\ \A p \in Projections : UpTo(p, d - 1)
      BY <2>2 DEF StreamInv
    <3>2. at < d
      BY <2>1, <2>2, <3>1, LogDistinct DEF StreamHead
    <3>3. d - 1 \in Nat /\ at \in 0 .. d - 1
      BY <1>0, <3>2
    <3> QED
      BY <3>1, <3>3, UpToLess
  <2>3. CASE pending = NoEvent
    <3>1. cursor # NoEvent /\ Precedes(Log[at], cursor)
      BY <2>1, <2>3 DEF StreamHead
    <3>2. PICK c \in 1 .. L : cursor = Log[c] /\ \A p \in Projections : UpTo(p, c)
      BY <3>1 DEF StreamInv
    <3>3. at < c
      BY <3>1, <3>2, LogDistinct
    <3>4. c \in Nat /\ at \in 0 .. c
      BY <1>0, <3>3
    <3> QED
      BY <3>2, <3>4, UpToLess
  <2> QED
    BY <2>2, <2>3
<1> QED
  BY <1>1, <1>2

(* After a gap the feeder goes back to the head of the stream, as the      *)
(* router sees it, and not past anything.                                  *)
LEMMA BackToHead ==
  ASSUME StreamInv, NEW e, SequenceGap(e),
         at' = CHOOSE i \in 1 .. Len(Log) : Log[i] = StreamHead
  PROVE  \E n \in 1 .. L : at' = n /\ \A p \in Projections : UpTo(p, n - 1)
<1>1. CASE pending # NoEvent
  <2>1. PICK d \in 1 .. L : pending = Log[d] /\ \A p \in Projections : UpTo(p, d - 1)
    BY <1>1 DEF StreamInv
  <2>2. at' \in 1 .. L /\ Log[at'] = Log[d]
    BY <1>1, <2>1 DEF StreamHead, L
  <2>3. at' = d
    BY <2>2, LogDistinct DEF SamePosition
  <2> QED
    BY <2>1, <2>3
<1>2. CASE pending = NoEvent
  <2>1. PICK c \in 1 .. L : cursor = Log[c] /\ \A p \in Projections : UpTo(p, c)
    BY <1>2 DEF StreamInv, SequenceGap
  <2>2. at' \in 1 .. L /\ Log[at'] = Log[c]
    BY <1>2, <2>1 DEF StreamHead, L
  <2>3. at' = c
    BY <2>2, LogDistinct DEF SamePosition
  <2>4. c \in Nat /\ c - 1 \in 0 .. c
    OBVIOUS
  <2>5. \A p \in Projections : UpTo(p, c - 1)
    BY <2>1, <2>4, UpToLess
  <2> QED
    BY <2>3, <2>5
<1> QED
  BY <1>1, <1>2

(***************************************************************************)
(* One step of router and feeder.                                          *)
(***************************************************************************)
LEMMA StreamStep ==
  ASSUME StreamInv, [SNext]_svars
  PROVE  StreamInv' /\ [Abstract!Next]_applied
<1> DEFINE AtOK == \E n \in 1 .. L + 1 : /\ at' = n
                                       /\ \A p \in Projections : UpTo(p, n - 1)'
           Keeps == \A p \in Projections, j \in Nat : UpTo(p, j) => UpTo(p, j)'
           CursorOK == cursor' # NoEvent =>
                         \E c \in 1 .. L : cursor' = Log[c] /\ \A p \in Projections : UpTo(p, c)'
           PendingOK == pending' # NoEvent =>
                          \E d \in 1 .. L : pending' = Log[d] /\ \A p \in Projections : UpTo(p, d - 1)'
<1>0. at \in 1 .. L + 1 /\ L \in Nat /\ \A p \in Projections : UpTo(p, at - 1)
  BY LogType DEF StreamInv, NothingLost, UpTo
<1>1. TypeOK' /\ PinGuardsUnapplied'
  <2>1. [Next]_vars
    BY FeederDispatches
  <2> QED
    BY <2>1, TypeOKStep, PinStep DEF StreamInv
<1>2. ASSUME AtOK, CursorOK, PendingOK PROVE StreamInv'
  <2>1. NothingLost'
    <3>1. PICK n \in 1 .. L + 1 : at' = n /\ \A p \in Projections : UpTo(p, n - 1)'
      BY <1>2
    <3>2. \A p \in Projections : UpTo(p, n - 1)' <=> Abstract!UpTo(p, n - 1)'
      BY DEF UpTo
    <3> QED
      BY <3>1, <3>2, Zenon DEF NothingLost, Abstract!UpTo
  <2> QED
    BY <1>1, <1>2, <2>1 DEF StreamInv
<1>3. ASSUME UNCHANGED applied
      PROVE  \A p \in Projections, j \in Nat : UpTo(p, j) => UpTo(p, j)'
  BY <1>3, UpToIs
<1>4. ASSUME Keeps, at' = at PROVE AtOK
  <2>1. PICK n \in 1 .. L + 1 : n = at
    BY <1>0
  <2>2. n - 1 \in Nat /\ \A p \in Projections : UpTo(p, n - 1)
    BY <1>0, <2>1
  <2> QED
    BY <1>4, <2>1, <2>2
<1>5. ASSUME Keeps, cursor' = cursor PROVE CursorOK
  <2> SUFFICES ASSUME cursor # NoEvent PROVE CursorOK
    BY <1>5
  <2>1. PICK c \in 1 .. L : cursor = Log[c] /\ \A p \in Projections : UpTo(p, c)
    BY DEF StreamInv
  <2>2. c \in Nat
    OBVIOUS
  <2> QED
    BY <1>5, <2>1, <2>2
<1>6. ASSUME Keeps, pending' = pending PROVE PendingOK
  <2> SUFFICES ASSUME pending # NoEvent PROVE PendingOK
    BY <1>6
  <2>1. PICK d \in 1 .. L : pending = Log[d] /\ \A p \in Projections : UpTo(p, d - 1)
    BY DEF StreamInv
  <2>2. d - 1 \in Nat
    OBVIOUS
  <2> QED
    BY <1>6, <2>1, <2>2
<1>7. ASSUME registered = N, NEW i \in 1 .. L, i <= at, DispatchApplies(Log[i])
      PROVE  /\ Keeps /\ \A p \in Projections : UpTo(p, i)'
             /\ CursorOK /\ PendingOK /\ [Abstract!Next]_applied
  <2>1. /\ Keeps /\ \A p \in Projections : UpTo(p, i)'
        /\ cursor' = Log[i] /\ pending' = NoEvent /\ [Abstract!Next]_applied
    BY <1>7, AppliesIs
  <2> QED
    BY <2>1
<1>8. ASSUME registered = N, NEW i \in 1 .. L, i <= at, NEW q, DispatchFails(Log[i], q)
      PROVE  Keeps /\ CursorOK /\ PendingOK /\ [Abstract!Next]_applied
  <2>1. /\ Keeps /\ \A p \in Projections : UpTo(p, i - 1)'
        /\ cursor' = cursor /\ pending' = Log[i] /\ [Abstract!Next]_applied
    BY <1>8, FailsIs
  <2>2. PendingOK
    BY <2>1
  <2> QED
    BY <1>5, <2>1, <2>2
<1>9. ASSUME UNCHANGED <<applied, cursor, pending>>
      PROVE  Keeps /\ CursorOK /\ PendingOK /\ [Abstract!Next]_applied
  <2>1. Keeps
    BY <1>3, <1>9
  <2> QED
    BY <1>5, <1>6, <1>9, <2>1
<1> HIDE DEF AtOK, Keeps, CursorOK, PendingOK
<1>10. CASE RouterStep
  <2>1. at' = at
    BY <1>10 DEF RouterStep, feeder
  <2>2. CASE UNCHANGED <<applied, cursor, pending>>
    BY <1>2, <1>4, <1>9, <2>1, <2>2
  <2>3. CASE Rebuild
    <3>1. applied' = applied /\ cursor' = NoEvent /\ pending' = NoEvent
      BY <2>3 DEF Rebuild
    <3>2. Keeps
      BY <1>3, <3>1 DEF Keeps
    <3>3. CursorOK /\ PendingOK
      BY <3>1 DEF CursorOK, PendingOK
    <3> QED
      BY <1>2, <1>4, <2>1, <3>1, <3>2, <3>3
  <2> QED
    BY <1>10, <2>2, <2>3
       DEF RouterStep, Register, StateChange, Transition, TransitionFails
<1>11. CASE FeedAccepted
  <2>1. registered = N /\ at \in 1 .. L /\ at' = at + 1
    BY <1>11 DEF FeedAccepted, Ready, L
  <2>2. PICK i \in 1 .. L : i = at
    BY <2>1
  <2>3. i + 1 \in 1 .. L + 1 /\ (i + 1) - 1 = i /\ i \in Nat /\ i <= at
    BY <1>0, <2>2
  <2>4. ASSUME \A p \in Projections : UpTo(p, i)' PROVE AtOK
    BY <2>1, <2>2, <2>3, <2>4 DEF AtOK
  <2>5. CASE DispatchApplies(Log[at])
    <3>1. /\ \A p \in Projections : UpTo(p, i)'
          /\ CursorOK /\ PendingOK /\ [Abstract!Next]_applied
      BY <1>7, <2>1, <2>2, <2>3, <2>5
    <3> QED
      BY <1>2, <2>4, <3>1
  <2>6. CASE /\ Redelivery(Log[at]) \/ SequenceBackward(Log[at])
             /\ DispatchRefused(Log[at])
    <3>1. \A p \in Projections : UpTo(p, i)
      BY <2>1, <2>2, <2>6, SeenBefore
    <3>2. UNCHANGED <<applied, cursor, pending>>
      BY <2>6 DEF DispatchRefused, vars
    <3>3. \A p \in Projections : UpTo(p, i)'
      BY <1>3, <2>3, <3>1, <3>2
    <3> QED
      BY <1>2, <1>9, <2>4, <3>2, <3>3
  <2> QED
    BY <1>11, <2>5, <2>6 DEF FeedAccepted
<1>12. CASE FeedFails
  <2>1. registered = N /\ at \in 1 .. L /\ at' = at /\ at <= at
    BY <1>0, <1>12 DEF FeedFails, Ready, L, feeder
  <2>2. PICK q \in Projections : DispatchFails(Log[at], q)
    BY <1>12 DEF FeedFails
  <2>3. Keeps /\ CursorOK /\ PendingOK /\ [Abstract!Next]_applied
    BY <1>8, <2>1, <2>2
  <2> QED
    BY <1>2, <1>4, <2>1, <2>3
<1>13. CASE FeedGap
  <2>1. PICK n \in 1 .. L : at' = n /\ \A p \in Projections : UpTo(p, n - 1)
    BY <1>13, BackToHead DEF FeedGap
  <2>2. UNCHANGED <<applied, cursor, pending>>
    BY <1>13 DEF FeedGap, DispatchRefused, vars
  <2>3. AtOK
    <3>1. n - 1 \in Nat /\ n \in 1 .. L + 1
      BY <1>0
    <3> QED
      BY <1>3, <2>1, <2>2, <3>1 DEF AtOK
  <2> QED
    BY <1>2, <1>9, <2>2, <2>3
<1>14. ASSUME NEW i \in 1 .. Len(Log), StrayRedelivery(i)
       PROVE  StreamInv' /\ [Abstract!Next]_applied
  <2>1. registered = N /\ i \in 1 .. L /\ i <= at /\ at' = at
    BY <1>0, <1>14 DEF StrayRedelivery, L, feeder
  <2>2. CASE DispatchApplies(Log[i])
    <3>1. Keeps /\ CursorOK /\ PendingOK /\ [Abstract!Next]_applied
      BY <1>7, <2>1, <2>2
    <3> QED
      BY <1>2, <1>4, <2>1, <3>1
  <2>3. ASSUME NEW q, DispatchFails(Log[i], q)
        PROVE  StreamInv' /\ [Abstract!Next]_applied
    <3>1. Keeps /\ CursorOK /\ PendingOK /\ [Abstract!Next]_applied
      BY <1>8, <2>1, <2>3
    <3> QED
      BY <1>2, <1>4, <2>1, <3>1
  <2> QED
    BY <1>14, <2>2, <2>3 DEF StrayRedelivery
<1>15. ASSUME NEW i \in 1 .. Len(Log), FeederResumes(i)
       PROVE  StreamInv' /\ [Abstract!Next]_applied
  <2>1. i \in 1 .. at - 1 /\ at' = i /\ UNCHANGED <<applied, cursor, pending>>
    BY <1>15 DEF FeederResumes, vars
  <2>2. i \in 1 .. at /\ i - 1 \in Nat /\ i \in 1 .. L + 1
    BY <1>0, <2>1
  <2>3. \A p \in Projections : UpTo(p, i - 1)
    BY <2>2, FedBefore
  <2>4. AtOK
    BY <1>3, <2>1, <2>2, <2>3 DEF AtOK
  <2> QED
    BY <1>2, <1>9, <2>1, <2>4
<1>16. CASE UNCHANGED svars
  <2>1. at' = at /\ UNCHANGED <<applied, cursor, pending>>
    BY <1>16 DEF svars, vars, feeder
  <2> QED
    BY <1>2, <1>4, <1>9, <2>1
<1> QED
  BY <1>10, <1>11, <1>12, <1>13, <1>14, <1>15, <1>16 DEF SNext

(***************************************************************************)
(* Through failed fan-outs, rebuilds with an empty cursor, redeliveries    *)
(* and feeder restarts, nothing the feeder has moved past is missing from  *)
(* any projection, and none has applied anything else.                     *)
(***************************************************************************)
THEOREM NothingIsLost == SSpec => []NothingLost
<1>1. StreamInv /\ [SNext]_svars => StreamInv'
  BY StreamStep
<1>2. StreamInv => NothingLost
  BY DEF StreamInv
<1> QED
  BY <1>1, <1>2, InitStreamInv, PTL DEF SSpec

(***************************************************************************)
(* The router under a contract-keeping feeder is an ordered fan-out: every *)
(* projection consumes the events it wants, once each, in order, and not   *)
(* ahead of a projection registered before it.                             *)
(***************************************************************************)
THEOREM RouterIsOrderedFanout == SSpec => ImplementsOrderedFanout
<1>1. SInit => Abstract!Init
  BY DEF SInit, Init, Abstract!Init
<1>2. StreamInv /\ [SNext]_svars => StreamInv' /\ [Abstract!Next]_applied
  BY StreamStep
<1> QED
  BY <1>1, <1>2, InitStreamInv, PTL DEF SSpec, ImplementsOrderedFanout, Abstract!Spec
=============================================================================
