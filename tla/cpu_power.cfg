\* The limits, a meddling tool, failing writes, stops and crashes.
CONSTANTS
  Configured <- Board
  Stock <- Firmware
  Rounds <- Coarse
  Others <- Tool
  VerifyEvery = 2
  StaleAfter = 2
  FirstSweepWait = 1
  Rearm = 2
SPECIFICATION FairSpec
INVARIANT PL1BelowPL2
INVARIANT AsAsked
INVARIANT HotIsStock
PROPERTY RearmsLate
PROPERTY LeavesItAlone
PROPERTY StopsAtStock
PROPERTY ComesBack
