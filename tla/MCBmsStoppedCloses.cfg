SPECIFICATION BmsSpec
CONSTANTS
  PrechargeOnNegative = TRUE
  FcPosContactor = FALSE
  Currents <- MCCurrents
  Stale = Stale
  EnableDelay = 1
  Settle = 2
  InitDelay = 1
  PrechargeMin = 1
  PrechargeTimeout = 2
  TestWait = 1
  FailedTestWait = 2
  FailedPrechargeWait = 2
  OpenHold = 2
  OpenTimeout = 3
  ForceOpenTimeout = 2
  ClosingLeeway = 2
  InitTime = 1
  CalibrationTimeout = 20
  FaultHorizon = 5
  WaitTimeout = 10
  Stabilize = 2
  UserRequests <- AllRequests
  FlashResults <- Working
PROPERTY
  StoppedNeverCloses
