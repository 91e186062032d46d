SPECIFICATION Spec
CONSTANTS
  Order <- OneOrder
  Windows = {1, 2}
  SessionLength = 3
  MaxTime = 4
  MaxRestarts = 1
  MaxSends = 1
  Resubmits = FALSE
  Cap = 10
  NoTicket = NoTicket
INVARIANTS
  TypeOK
  AuditTrailIsAPath
  AtMostOneOrderPerLifetime
  PlacedIsAtBroker
PROPERTIES
  NoRewind
  SweepIsExact
  ImplementsConsent
CHECK_DEADLOCK FALSE
