\* Every handler: messages of every level, the menu, countdowns of no and of
\* some length, night mode, a chassis locate.
CONSTANTS
  Shows <- EveryLevel
  HealthSeverities <- AnyHealth
  LocateTtls = {1}
  Countdowns = {0, 1}
  ConfirmTimeout = 1
  ResumeAfter = 1
  RepeatBeep = 1
  CancelledTtl = 1
  NoMessage = NoMessage
SPECIFICATION FairSpec
INVARIANT AsleepIsIdle
INVARIANT AlarmCoversMessage
INVARIANT CriticalIsShown
PROPERTY UrgentStays
PROPERTY HeldSurvives
PROPERTY KeepsPowerGate
PROPERTY BusyEnds
PROPERTY NightTurns
