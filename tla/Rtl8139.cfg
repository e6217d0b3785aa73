SPECIFICATION Spec
CONSTANTS
  BUSES = 3
  DEVICES = 2
  FUNCTIONS = 2
  Contents <- MCContents
  Machines <- MCMachines
  RX_RING = 4
  RX_BUFFER = 4
  PacketSizes = {1, 2}
INVARIANTS EepromExact RxContained
PROPERTIES OnlyNicConfigured SentPrepared TransmitEnds DriverEnds
CHECK_DEADLOCK FALSE
