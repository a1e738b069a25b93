CONSTANTS
  None = None
  Threads = {t1, t2}
  Parts <- GatewayParts
  MaxVersion = 4
  Broken <- SecondBroken
  LateFailures = TRUE
SPECIFICATION FairSpec
INVARIANT SignatureIsHonest
INVARIANT BrokenNeverSettles
INVARIANT PartsFollowTheDocument
PROPERTY LastSaveIsServed
