SPECIFICATION Spec
CONSTANTS
  Cap = 2
  WireCap = 1
  MaxUnits = 2
CHECK_DEADLOCK FALSE
INVARIANTS
  TypeOK
  StreamIntact
  CleanEof
  HandshakeFlushed
  WaitsForNothing
PROPERTIES
  NoStandoff
  PeerFinishes
