\* Two deliveries and two collections of one order overlap.
SPECIFICATION FairSpec

CONSTANTS
  m1 = m1
  i1 = i1
  i2 = i2
  d1 = d1
  d2 = d2
  c1 = c1
  c2 = c2
  alice = alice
  bob = bob
  None = None
  Orders = {m1}
  Intakes = {i1, i2}
  Deliveries = {d1, d2}
  Collections = {c1, c2}
  Order <- OneOrder
  Envelope <- OwnEnvelope
  Payer <- OnePayer
  Malformed = {i2}
  OneAtATime = FALSE
  Faults = {"anchor", "expiry"}
  MaxCrashes = 0

INVARIANTS
  IssuedIsAnchored
  UnambiguousVerifies

PROPERTIES
  EveryRequestEnds

\* Every request is sent at most once, so the system may come to rest.
CHECK_DEADLOCK FALSE
