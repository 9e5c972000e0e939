CONSTANTS
  Images = {}
  ElapsedTimes = {1}
  ActivationTime = 1
  HomingTime = 1
  LowerLimit <- MCLower
  UpperLimit = 1
  HomePosition = 0
  Calls <- WaitingCalls
  Queued <- Moves
  Held <- NoCommands
  MayTimeOut = {}
  FirstMoveId = 0
  LastMoveId = 1
SPECIFICATION FairExchangeSpec
PROPERTIES
  CallsEnd
  IdleEnds
