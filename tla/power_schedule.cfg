\* Every kind of rule, summer time ending, the clock stepped at will.
CONSTANTS
  NaN = NaN
  None = None
  Rules <- AllRules
  Offset <- SummerEnds
  Minute = 2
  MaxGap = 3
  Recheck = 2
  Lookback = 4
  Horizon = 11
  ClockSteps <- AnyStep
SPECIFICATION Spec
INVARIANT MissesNothing
INVARIANT OnceThatNight
INVARIANT AlarmIsKept
PROPERTY OnceUntilSetBack
PROPERTY NothingSkipped
