SPECIFICATION Spec
CONSTANTS
  Handlers <- MCHandlers
  Subscribers <- MCSubscribers
  Listens <- MCListens
  HandlerLogs <- MCHandlerLogs
  ServiceLogs <- MCServiceLogs
  MaxLogs = 2
  MaxTriggers = 1
INVARIANTS
  TriggersReachQueue
