CONSTANTS
  r1 = r1
  r2 = r2
  r3 = r3
  r4 = r4
  Requests = {r1, r2, r3, r4}
  Backends = {"memory", "redis"}
  Limit = 2
  Window = 4
  Second = 2
  Lags = {0, 1}
  MaxTime = 8
SPECIFICATION Spec
SYMMETRY Symmetry
CHECK_DEADLOCK FALSE
INVARIANT WindowRespected
PROPERTY RetryAfterIsHonoured
PROPERTY WindowSlides
