CONSTANTS
  r1 = r1
  r2 = r2
  r3 = r3
  read = read
  write = write
  alice = alice
  bob = bob
  None = None
  Requests = {r1, r2}
  CacheKeys = {read}
  Clients = {alice, bob}
  Shapes <- OneShape
  Configs <- UncachedConfigs
  MaxGeneration = 2
  LossyCache = FALSE
SPECIFICATION Spec
CHECK_DEADLOCK FALSE
INVARIANT StreamingNeverCoalesced
