\* The balance is paid from another account than the intake.
SPECIFICATION Spec

CONSTANTS
  m1 = m1
  i1 = i1
  i2 = i2
  d1 = d1
  d2 = d2
  c1 = c1
  c2 = c2
  alice = alice
  bob = bob
  None = None
  Orders = {m1}
  Intakes = {i1}
  Deliveries = {d1}
  Collections = {c1}
  Order <- OneOrder
  Envelope <- OwnEnvelope
  Payer <- TwoPayers
  Malformed = {}
  OneAtATime = TRUE
  Faults = {}
  MaxCrashes = 0

INVARIANTS
  EveryReceiptVerifies

\* Every request is sent at most once, so the system may come to rest.
CHECK_DEADLOCK FALSE
