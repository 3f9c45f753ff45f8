CONSTANTS
  a = a
  f = f
  None = None
  Execute = {a}
  Disruptive = {a}
  SafeRollover = {}
  ForceRollover = {f}
  PendingSlots = 1
  AssemblySlots = 1
  ResultSlots = 1
  DebtSlots = 2
  SeenSlots = 1
  TranscriptSlots = 1
  Crowded = TRUE
  MaxFrames = 1
  MaxDraws = 3
  MaxEpoch = 2
  MaxSent = 7
SPECIFICATION Spec
INVARIANTS TypeOK PromiseHeld AnswerKept Accountable
 
CHECK_DEADLOCK FALSE
