\* Every caller, every document, every ledger, while the mirror node catches up.
SPECIFICATION Spec

CONSTANTS
  audit = audit
  other = other
  mistyped = mistyped
  Unnamed = Unnamed
  m1 = m1
  m2 = m2
  m3 = m3
  i1 = i1
  i2 = i2
  i3 = i3
  d1 = d1
  d2 = d2
  c1 = c1
  c2 = c2
  c3 = c3
  s1 = s1
  contractorKey = contractorKey
  customerKey = customerKey
  strangerKey = strangerKey
  brokenKey = brokenKey
  alice = alice
  bob = bob
  agency = agency
  Keys <- Parties
  Payer <- PayerMap
  Payee = agency
  ServiceTopic = audit
  Envelope <- EnvelopeMap
  Issued <- IssuedMap
  Requests <- AllRequests
  PageSize = 3
  MaxPages = 3
  Attempts = 2
  MaxPolls = 2
  MaxAnswers = 1
  ExpectedAnchors = 6

INVARIANTS
  IInv
  VerdictOfOneRecord
  HonestOrderPasses
  OnlySealedPasses
  FlawedRecordFails
  DemoWaitsForTheRecord
  ReaderReturnsWholeLog

PROPERTIES
  VerificationEnds

\* The verifications of one behaviour are bounded, so it comes to rest.
CHECK_DEADLOCK FALSE
