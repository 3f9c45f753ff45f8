CONSTANTS
  o = o
  b = b
  c = c
  d = d
  m1 = m1
  m2 = m2
  None = None
  Node = {o, b, d}
  Msg = {m1, m2}
  Origin <- FromO
  Dst <- ToD
  Lo <- TwoLo
  HopBudget <- TwoBudget
  Via <- TwoVia
  QueueCap = 1
  SeenCap = 1
  MaxAir = 2
  MaxTimes = 2
SPECIFICATION Spec
INVARIANTS TypeOK DeliveredOnce  
 
CHECK_DEADLOCK FALSE
