SPECIFICATION Spec
CONSTANTS
  Segs = 3
  SegFrames = 2
  Cap = 3
  Batch = 2
  MaxTombs = 2
  Cursors = {1}
  MayWipe = TRUE
  Harsh = {"tornWipe"}
  MaxSeq = 2
  MaxEpoch = 3
  MaxFaults = 2
  MaxCuts = 1
CHECK_DEADLOCK FALSE
PROPERTIES
  TornNeverAppended
