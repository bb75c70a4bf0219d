\* The cell monitors, the supervisor's ear, the converters and the events, side by side.
CONSTANTS
  Physical <- SomeCells
  MaxTime = 2
  PauseAfter = 2
  Period = 14
  SlowPeriod = 28
  PauseCycle = 10
  Banks = 5
  ReadBanks = 4
  SnoopBanks = 4
  Modules = {1, 2}
  PackModules = {1}
  LongReads = TRUE
  NoTransfer = none
  ConversionTime = 2
  WaitTime = 2
  Interval = 2
  Devices <- SomeDevices
  ChannelsOf <- SomeChannels
  ScanRounds = 2
  ConversionTime1 = 1
  AlarmTime = 1
  Samples = 2
  Types = {"stale", "failed"}
  TypeLevel <- SomeLevels
  Leeway <- SomeLeeway
  PerDs = 2
  MillisLimit = 8
  DsLimit = 3
  MaxGap = 3

SPECIFICATION SensingSpec

INVARIANTS
  BalancingLeavesReadings
  TemperaturesAreTheirOwn
  CalibrationSumsAreWhole

PROPERTIES
  ReadsInCycles
  StampedReadingsAreGood
  BalancingEnds
  ScansOfOneSnapshot
  SamplesAreTheirOwn
  CurrentResumes
  EscalatesInTime
