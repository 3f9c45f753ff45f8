CONSTANTS
  Node = {1, 2, 3}
  Id = {1, 2, 3}
  Pool = {1, 2}
  Mediator = 3
  Flash <- Twins
  Range <- Hidden
  MaxWaiting <- Waiting
  MaxEvents <- Events
  None = None
SPECIFICATION LiveSpec
CHECK_DEADLOCK FALSE
INVARIANTS Bijection NotStranded
PROPERTIES RightfulYield Heal
