\* An order that is complete, asked about while the mirror node is behind.
SPECIFICATION Spec

CONSTANTS
  audit = audit
  other = other
  mistyped = mistyped
  Unnamed = Unnamed
  m1 = m1
  m2 = m2
  m3 = m3
  i1 = i1
  i2 = i2
  i3 = i3
  d1 = d1
  d2 = d2
  c1 = c1
  c2 = c2
  c3 = c3
  s1 = s1
  contractorKey = contractorKey
  customerKey = customerKey
  strangerKey = strangerKey
  brokenKey = brokenKey
  alice = alice
  bob = bob
  agency = agency
  Keys <- Parties
  Payer <- PayerMap
  Payee = agency
  ServiceTopic = audit
  Envelope <- EnvelopeMap
  Issued <- IssuedMap
  Requests <- PlainRequest
  PageSize = 3
  MaxPages = 3
  Attempts = 2
  MaxPolls = 2
  MaxAnswers = 1
  ExpectedAnchors = 6

PROPERTIES
  FailedIsContradicted

CHECK_DEADLOCK FALSE
