SPECIFICATION Spec
CONSTANTS
  None = None
  Unnamed = Unnamed
  Blank = Blank
  Garbled = Garbled
  t1 = t1
  t2 = t2
  Threads = {t1, t2}
  Services = {"s1", "s2"}
  Labels <- MCLabels
  Lower <- MCLower
  Paths = {"/e", "/f", "/r"}
  Roles = {"admin", "operator", "monitor"}
  Users = {"u", "v"}
  Requests <- MCRequests
  MaxRequests = 2
  FirstConfigs <- MCFirstConfigs
  FirstSecurity <- MCSecurity
INVARIANT AnswersTellTheTruth
PROPERTY ChangesArePermitted
PROPERTY DeletesClearReferences
 
SYMMETRY MCSymmetry
CHECK_DEADLOCK FALSE
PROPERTY EditsAreSerial
