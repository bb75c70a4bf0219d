\* A missing cell and nothing else; the delays of limits.h in seconds.
SPECIFICATION SupervisionSpec
CONSTANTS
  FaultSets <- MissingCell
  Tolerated <- MissingCell
  Escalation = 1
  ForceOpen = 2
  CellFaultDrop = 6
  StaleThreshold = 15
  ScanStaleDrop = 36
  Watchdog = 5
  HeartbeatDrop = 10
  HeartbeatEnable = 1
  ReplyStale = 2
  GoodScansToEnable = 3
PROPERTIES
  BmsOpensFirst
