\* A context of three entries, one request more, so that one can find it full.
\* The third request of three blocks starts past the end of an int, and before the
\* start of the device if the tensor is at block 0.  Three calls, two contexts.
SPECIFICATION MethodFairSpec
CONSTANTS
  MaxNr = 3
  MaxRequests = 4
  MayReject = TRUE
  Clients = {"any", "one", "many"}
  Tensors <- TensorsDef
  IntHalf = 4
  MaxContexts = 2
  MaxCalls = 3
INVARIANTS
  MethodTypeOK
  CountersCover
  CallbacksInScope
PROPERTIES
  SyncMeansComplete
  CallsReturn
