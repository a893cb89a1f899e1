\* Half-minutes: a repeat and an alert each minute, a locate each half.
CONSTANTS
  Shows <- OnceAndRepeat
  HealthSeverities <- AllWell
  LocateTtls = {0}
  Countdowns = {1}
  ConfirmTimeout = 1
  ResumeAfter = 1
  RepeatBeep = 2
  CancelledTtl = 1
  NoMessage = NoMessage
  BeepQueueDepth = 2
  AlertBeepInterval = 2
  FindMeInterval = 1
SPECIFICATION LoopSpec
INVARIANT RepeatIsHeard
INVARIANT NothingCutShort
CHECK_DEADLOCK FALSE
