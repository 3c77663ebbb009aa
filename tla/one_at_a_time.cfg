\* The requests of one order come one after the other.
SPECIFICATION Spec

CONSTANTS
  m1 = m1
  i1 = i1
  i2 = i2
  d1 = d1
  d2 = d2
  c1 = c1
  c2 = c2
  alice = alice
  bob = bob
  None = None
  Orders = {m1}
  Intakes = {i1, i2}
  Deliveries = {d1, d2}
  Collections = {c1, c2}
  Order <- OneOrder
  Envelope <- OwnEnvelope
  Payer <- OnePayer
  Malformed = {d2}
  OneAtATime = TRUE
  Faults = {"anchor", "flush", "crash", "gate", "expiry"}
  MaxCrashes = 1

INVARIANTS
  OrderlyInv
  AnswersOnFile
  AnchoredOnce
  BalancePaidOnce
  BalanceEarnsReceipt

PROPERTIES
  FileKeepsJobs

\* Every request is sent at most once, so the system may come to rest.
CHECK_DEADLOCK FALSE
