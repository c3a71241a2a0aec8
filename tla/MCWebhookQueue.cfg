SPECIFICATION Spec
CONSTANTS
  d1 = d1
  p1 = p1
  p2 = p2
  Deliveries = {d1}
  Processes = {p1, p2}
  NoDelivery = NoDelivery
  NoOwner = NoOwner
  MaxWebhookAttempts = 2
  WebhookLeaseMs = 2
  BackoffBase = 1
  BackoffCap = 2
  ThrottleWindows = {1}
  MaxUncounted = 1
  SucceededRetention = 1
  DeadLetterRetention = 2
  PurgeLimit = 1
  MaxAge = 1
  MaxSends = 2
  MaxRestarts = 1
  MaxThrottles = 1
  MaxStoreErrors = 1
  MaxOverruns = 1
INVARIANTS LeaseExclusion NoOrphanedLease BudgetEnds
PROPERTIES TerminalIsFinal OnlyTheLastClaimDecides AcceptedDeliveryFinishes
CHECK_DEADLOCK FALSE
