SPECIFICATION Spec
CONSTANTS
  N = 2
  NoEvent = NoEvent
  Observes <- MCObserves
  Events <- CollidingEvents
INVARIANTS AppliedInOrder PinGuardsUnapplied
PROPERTIES NoObserverLeftBehind DrainingIsFinal
