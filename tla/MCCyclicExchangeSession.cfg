CONSTANTS
  Images = {}
  ElapsedTimes = {0, 1}
  ActivationTime = 2
  HomingTime = 1
  LowerLimit <- MCLower
  UpperLimit = 1
  HomePosition = 0
  Calls <- SessionCalls
  Queued <- Moves
  Held <- NoCommands
  MayTimeOut = {}
  FirstMoveId = 32766
  LastMoveId = 1
SPECIFICATION ExchangeSpec
INVARIANTS
  ExchangeTypeOK
  PowerConfirmed
  PauseConfirmed
  IdleConfirmed
  NumberingResumed
PROPERTIES
  ImplementsCommandOrder
