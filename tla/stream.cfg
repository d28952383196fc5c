SPECIFICATION FairSSpec
CONSTANTS
  N = 3
  MaxResumes = 1
  NoEvent = NoEvent
  Observes <- MCObserves
  Events <- MCEvents
  Log <- MCLog
INVARIANT NothingLost
PROPERTIES ImplementsOrderedFanout StreamDrains
