SPECIFICATION Spec
CONSTANT MaxRequests = 4
INVARIANTS TypeOK ListIsQueue DepthExact NoLostWakeup DestroySafe
PROPERTIES ImplementsFifo EveryRequestServed ShutdownCompletes
