SPECIFICATION WireSpec
CONSTANTS
  Specs <- MCSpecs
  Setups <- MCSetups
  GroupValues <- MCGroupValues
  InputValues <- MCInputValues
  MaxWrites = 2
INVARIANTS
  WireTypeOK
  StreamInStep
  AcceptedAgree
  SaidIsRead
CHECK_DEADLOCK FALSE
