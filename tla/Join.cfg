CONSTANTS
  Node = {1, 2, 3}
  Id = {1, 2, 3}
  Pool = {1, 2}
  Mediator = 3
  Flash <- Newcomers
  Range <- InRange
  MaxWaiting <- Waiting
  MaxEvents <- Quiet
  None = None
SPECIFICATION Spec
CHECK_DEADLOCK FALSE
INVARIANTS TypeOK Bijection NotStranded
PROPERTIES RightfulYield
