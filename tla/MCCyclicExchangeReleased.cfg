CONSTANTS
  Images = {}
  ElapsedTimes = {1}
  ActivationTime = 1
  HomingTime = 1
  LowerLimit <- MCLower
  UpperLimit = 1
  HomePosition = 0
  Calls <- HoldCalls
  Queued <- NoCommands
  Held <- Velocities
  MayTimeOut = {}
  FirstMoveId = 0
  LastMoveId = 1
SPECIFICATION ExchangeSpec
INVARIANTS
  DisconnectReleases
