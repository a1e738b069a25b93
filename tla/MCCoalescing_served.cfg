CONSTANTS
  r1 = r1
  r2 = r2
  r3 = r3
  read = read
  write = write
  alice = alice
  bob = bob
  None = None
  Requests = {r1, r2}
  CacheKeys = {read, write}
  Clients = {alice, bob}
  Shapes <- ServedShapes
  Configs <- FairConfigs
  MaxGeneration = 2
  LossyCache = TRUE
SPECIFICATION FairSpec
CHECK_DEADLOCK FALSE
PROPERTY EveryRequestAnswered
PROPERTY ImplementsSingleFlight
