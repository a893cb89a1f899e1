\* One fan, curve or fixed, two sensors, writes that may fail.
CONSTANTS
  cpu = cpu
  disk = disk
  Sensors <- Both
  Watched <- disk
  Temps <- CoolOrCritical
  NoReading = NoReading
  MinTemp <- Zero
  MaxTemp <- RampEnd
  WarnAt <- Two
  CritAt <- Three
  FixedPwms <- EitherMode
  MinPwm = 0
  MinStopPwm = 55
  MinStartPwm = 60
  MaxPwm = 255
  Tachs = {"none", "zero", "ok"}
  UpdateEvery = 1
  KickFor = 2
  LossGrace = 1
  RecoveryHold = 2
  TakeoverAfter = 1
  WarnAfter = 1
  CriticalAfter = 1
SPECIFICATION WatchedFairSpec
INVARIANT FullSpeedInDoubt
INVARIANT HotIsCooled
INVARIANT SilenceIsCovered
INVARIANT NeverSilentlyAstray
PROPERTY HoldOutlastsFlapping
PROPERTY ComesToRest
