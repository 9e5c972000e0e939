CONSTANTS
  Scanners = {"transport", "tool"}
  Transports = {"transport"}
  Originators = {"tool"}
  Vendor <- MCVendor
  Serials = {1}
  FirstSerial = 1
  MaxSockets = 2
  MaxStarts = 1
  MaxDatagrams = 0
SPECIFICATION LinkSpec
CHECK_DEADLOCK FALSE
INVARIANTS
  OwnEndpointEchoed
