CONSTANTS
  None = None
  Threads = {t1, t2}
  Parts <- GatewayParts
  MaxVersion = 3
  Broken <- NoneBroken
  LateFailures = FALSE
SPECIFICATION Spec
INVARIANT ChangesAreNoticed
