CONSTANTS
  one = one
  Bays = {one}
  Messages <- WarningOrAlert
  Healths = {"None", "Standby", "Failed"}
  Others = {"Ok", "Warning"}
  Configs <- DarkOrDim
  MaxLoads = 2
  MaxDimmers = 1
  NoBay = NoBay
  Nothing = Nothing
SPECIFICATION LedsFairSpec
INVARIANTS
  LedsFollowState
PROPERTY LedsComeRight
