CONSTANTS
  Images = {}
  ElapsedTimes = {1}
  ActivationTime = 1
  HomingTime = 1
  LowerLimit <- MCLower
  UpperLimit = 1
  HomePosition = 0
  Calls <- MCCalls
  Queued <- MCQueued
  Held <- MCHeld
  MayTimeOut = {}
  FirstMoveId = 0
  LastMoveId = 1
SPECIFICATION FairBothSpec
INVARIANTS
  NothingToRace
PROPERTIES
  ImplementsSimulator
  StopTakesEffect
