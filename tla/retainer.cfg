\* Two retainers, one schedule of somebody else, three commands, faults anywhere.
SPECIFICATION Spec

CONSTANTS
  topic = topic
  m1 = m1
  customer = customer
  agency = agency
  bob = bob
  None = None
  PageSize = 100
  MaxPages = 20
  Topic = topic
  Orders = {m1}
  Customer = customer
  Agency = agency
  Schedules = {1, 2}
  Foreign <- Others
  MaxCommands = 3
  MaxUnderWay = 2
  MaxPolls = 1

INVARIANTS
  IInv
  EarlyReleaseCaught
  CarefulOrderPasses
  ReleaseIsProvable

PROPERTIES
  VerdictIsFinal
  CommandsEnd
  EscrowKept

\* The commands of one behaviour are bounded, so it comes to rest.
CHECK_DEADLOCK FALSE
