CONSTANTS
  Images <- QueuedRun
  ElapsedTimes = {0, 1}
  ActivationTime = 2
  HomingTime = 1
  LowerLimit <- MCLower
  UpperLimit = 1
  HomePosition = 0
SPECIFICATION FairSpec
INVARIANTS
  TypeOK
  ReferenceLostWhenDown
  ReadyMeansHomed
  CodeOnlyInError
  DeactivateWins
  ClearedMeansPaused
PROPERTIES
  TimedStatesEnd
  BlockEnds
  ErrorLeftOnlyByReset
  ErrorsOfImagesSignalled
  MoveOncePerId
  ResumeOnRisingEdge
  PausedRobotHoldsStill
