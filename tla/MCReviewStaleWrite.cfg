SPECIFICATION Spec
CONSTANTS
  f1 = f1
  f2 = f2
  d1 = d1
  d2 = d2
  w1 = w1
  w2 = w2
  c1 = c1
  Fingerprints = {f1}
  Deliveries = {d1, d2, d3}
  Workers = {w1}
  Comments = {}
  NoDelivery = NoDelivery
  NoWorker = NoWorker
  MaxInlineComments = 1
  FindingLimit = 1
  FeedbackRing = 1
  Aging = TRUE
  MaxHead = 1
  Budgets <- ThreeDeliveries
PROPERTIES LaterDismissalIsCarried
CHECK_DEADLOCK FALSE
