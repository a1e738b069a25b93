SPECIFICATION Spec
CONSTANTS
  None = None
  t1 = t1
  t2 = t2
  Threads = {t1, t2}
  Configs = {"first", "second", "bare"}
  Document <- MCDocument
  FirstConfig = "first"
  Asks <- MCAsks
  Secrets = {"old", "new"}
  Variables = {"s", "open"}
  Hooks <- MCHooks
  MaxVersion = 1
  MaxAsks = 2
  MaxTokens = 1
INVARIANT AdmittedByOneGrant
 
INVARIANT HooksKeepTheirOwn
INVARIANT TargetsTakeTurns
SYMMETRY MCSymmetry
CHECK_DEADLOCK FALSE
