CONSTANTS
  alice = alice
  bob = bob
  carol = carol
  Clients = {alice, bob, carol}
  Headers <- Each
  MaxConnections = 2
  QueueDepth = 1
SPECIFICATION FairSpec
INVARIANTS
  
  PlacesAreFreed
PROPERTIES
  EveryConnectionEnds
