\* The delays of limits.h in seconds.
SPECIFICATION FairSupervisionSpec
CONSTANTS
  FaultSets <- AllFaults
  Tolerated <- ToleratedFaults
  Escalation = 1
  ForceOpen = 2
  CellFaultDrop = 6
  StaleThreshold = 15
  ScanStaleDrop = 36
  Watchdog = 5
  HeartbeatDrop = 10
  HeartbeatEnable = 1
  ReplyStale = 2
  GoodScansToEnable = 3
INVARIANTS
  SupervisionTypeOK
  ExposureBounded
  BlindBounded
PROPERTIES
  BmsOpensFirst
  EnabledAgain
CHECK_DEADLOCK TRUE
