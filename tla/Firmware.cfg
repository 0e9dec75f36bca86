SPECIFICATION FwSpec
CONSTANTS
  Handlers <- MCHandlers
  Subscribers <- MCSubscribers
  Listens <- MCListens
  HandlerLogs <- MCHandlerLogs
  ServiceLogs <- MCServiceLogs
  Notifier = "Notifier"
  Conns <- MCConns
  MaxClients = 2
  MaxLogs = 2
  MaxTriggers = 1
INVARIANTS
  TypeOK
  QueueIsPushed
  LogsNotified
PROPERTIES
  KeepsBusPromise
  KeepsFeedPromise
  EveryEventShown
  EveryPushDispatched
