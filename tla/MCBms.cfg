SPECIFICATION FairBmsSpec
CONSTANTS
  PrechargeOnNegative = TRUE
  FcPosContactor = FALSE
  Currents <- MCCurrents
  Stale = Stale
  EnableDelay = 1
  Settle = 1
  InitDelay = 1
  PrechargeMin = 1
  PrechargeTimeout = 1
  TestWait = 1
  FailedTestWait = 1
  FailedPrechargeWait = 1
  OpenHold = 1
  OpenTimeout = 2
  ForceOpenTimeout = 2
  ClosingLeeway = 2
  InitTime = 1
  CalibrationTimeout = 7
  FaultHorizon = 5
  WaitTimeout = 4
  Stabilize = 1
  UserRequests <- OfflineRequests
  FlashResults <- Working
INVARIANTS
  ShortMeasuresOpen
  SavedUnlessOutstanding
PROPERTIES
  InactiveStaysOpen
  CalibratingEnds
