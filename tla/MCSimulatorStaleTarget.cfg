CONSTANTS
  Images <- OtherVelocityImages
  ElapsedTimes = {0, 1}
  ActivationTime = 1
  HomingTime = 1
  LowerLimit <- MCLower
  UpperLimit = 2
  HomePosition = 0
SPECIFICATION Spec
PROPERTIES
  NoJump
