\* Failing writes, and nobody else.
CONSTANTS
  Configured <- Board
  Stock <- Firmware
  Rounds <- Coarse
  Others <- Nobody
  VerifyEvery = 2
  StaleAfter = 1
  FirstSweepWait = 1
  Rearm = 1
SPECIFICATION Spec
INVARIANT StatusIsRight
