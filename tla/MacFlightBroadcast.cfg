CONSTANTS
  Dm = {}
  Fwd = {}
  Chan = {c, d}
  Notes = {}
  Hops = {h}
  Gateways = {}
  Inbound = {}
  LbtEnabled = TRUE
  DutyBudget = TRUE
  Refusals = FALSE
  Alias = FALSE
  LbtSlots = 1
  QueueCap = 2
  DeferCap = 1
  RtsMaxRetries = 1
  RequeueMax = 1
  LoadThreshold = 1
  MaxRedrains = 1
  MaxAlts = 3
  TxDeferRetries = 1
  MaxHolds = 1
  None = None
SPECIFICATION Spec
SYMMETRY Symmetry
CHECK_DEADLOCK FALSE
INVARIANTS TypeOK FlightNotWedged QueueServed OneOutcome
PROPERTIES DataAfterRts
