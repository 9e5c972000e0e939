CONSTANTS
  Scanners = {"transport", "tool"}
  Transports = {"transport"}
  Originators = {"tool"}
  Vendor <- MCVendor
  Serials = {1}
  FirstSerial = 1
  MaxSockets = 2
  MaxStarts = 2
  MaxDatagrams = 1
SPECIFICATION LinkSpec
CHECK_DEADLOCK FALSE
INVARIANTS
  LinkTypeOK
  ConnectedIsOpen
  NothingLeftBehind
  ListenerReleased
  StoppedIsEmpty
PROPERTIES
  NewScannerPrevails
