CONSTANTS
  None = None
  N = 3
  Workers = 2
  Strategies <- AllStrategies
  Kinds <- AllKinds
CHECK_DEADLOCK FALSE
SPECIFICATION FairSpec
INVARIANT GivesUpLast
INVARIANT FailoverInOrder
INVARIANT FirstWins
 
PROPERTY NothingStartsAfterTheAnswer
PROPERTY RouteIsAnswered
