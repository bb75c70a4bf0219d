SPECIFICATION FairSpec
CONSTANTS
  PrechargeOnNegative = TRUE
  FcPosContactor = TRUE
  Currents <- MCCurrents
  Stale = Stale
  EnableDelay = 1
  Settle = 2
  InitDelay = 1
  PrechargeMin = 1
  PrechargeTimeout = 2
  TestWait = 1
  FailedTestWait = 1
  FailedPrechargeWait = 1
  OpenHold = 1
  OpenTimeout = 3
  ForceOpenTimeout = 2
  ClosingLeeway = 2
INVARIANTS
  TypeOK
  OutputsFollowState
PROPERTIES
  OneCoilAtATime
  BypassOnlyAfterPrecharge
  CurrentDisallowedBeforeOpening
  FailedClosingIsCounted
  ClosingEnds
