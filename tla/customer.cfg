\* Two invocations of any kind, one crash of the contractor or repeated request.
SPECIFICATION Spec

CONSTANTS
  customerKey = customerKey
  contractorKey = contractorKey
  otherKey = otherKey
  payer = payer
  agency = agency
  ok = ok
  bad = bad
  Blank = Blank
  Keys = {customerKey, contractorKey, otherKey}
  Accounts = {payer, agency}
  Amounts = {1, 4, 5, 9}
  Networks = {"testnet"}
  Ttl = 1
  Machines <- MachineSet
  Invocations <- InvocationSet
  OddBodies <- OddSet
  MaxCalls = 2
  MaxRunning = 1
  MaxPolls = 1
  MaxFaults = 1

INVARIANTS
  IInv
  PaymentBuysOnce
  SettlementFound
  ChargedOnce
  PaidOrderIsKnown
  IntakeBuysNewOrder
  FiledUnderItsOrder
  IdentityHolds
  OwnedReceiptIsFree

PROPERTIES
  InvocationsEnd

\* The invocations of one behaviour are bounded, so it comes to rest.
CHECK_DEADLOCK FALSE
