SPECIFICATION Spec
CONSTANTS
  None = None
  PublicConnections = {"p"}
  AdminConnections = {"a"}
  MaxWorkers = 1
  MaxRequests = 2
  Documents = {"loud", "quiet"}
  Initial = "loud"
  Observability <- MCObservability
 
INVARIANT OneConfigurationPerRow
PROPERTY JobsAreTried
PROPERTY ExpiredRowsGo
 
CHECK_DEADLOCK FALSE
