CONSTANTS
  Dm = {}
  Fwd = {f}
  Chan = {}
  Notes = {}
  Hops = {h}
  Gateways = {}
  Inbound = {f}
  LbtEnabled = FALSE
  DutyBudget = FALSE
  Refusals = FALSE
  Alias = FALSE
  LbtSlots = 1
  QueueCap = 2
  DeferCap = 1
  RtsMaxRetries = 1
  RequeueMax = 1
  LoadThreshold = 1
  MaxRedrains = 1
  MaxAlts = 3
  TxDeferRetries = 1
  MaxHolds = 1
  None = None
SPECIFICATION Spec
CHECK_DEADLOCK FALSE
INVARIANTS NoForeignCompletion
