CONSTANTS
  Daemons = {"service", "byhand"}
  Outputs = 2
  Fans <- SomeFans
  Configured <- SomeFans
  Companies = {{"byhand", "hand"}, {"tool"}}
  FanKinds <- Kinds
  Full = 3
  Low = 1
  DownStep = 2
  UpStep = 1
SPECIFICATION Spec
INVARIANTS
  StaysReachable
  SweepIsUndone
  
