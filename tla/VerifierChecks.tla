--------------------------- MODULE VerifierChecks ---------------------------
(***************************************************************************)
(* The verdict a stranger reaches on a delivery receipt from the topic and *)
(* the ledger alone (src/verifier/checks.ts).  The checks are pure: they   *)
(* take the receipt, the anchors read and the settled transactions.        *)
(*                                                                         *)
(* A delivery receipt names                                                *)
(*   order    the mandate it is for                                        *)
(*   mandate  the intake request whose mandate envelope it hashes          *)
(*   intake   the intake request whose settlement is its intake leg        *)
(*   result   the delivery request whose links it releases                 *)
(*   balance  the collection that paid the balance and sealed the receipt  *)
(* Its `payer` is one account for both legs, the one of the intake.        *)
(*                                                                         *)
(* Signatures and identifiers are not part of the model: the contractor    *)
(* seals what it issues, with its own key.                                 *)
(***************************************************************************)
EXTENDS AuditTopic

CONSTANTS
  Payer,     \* the account that each paying request is debited from
  Envelope   \* the mandate envelope, byte for byte, that each intake carries

PayerOf(rc) == Payer[rc.intake]

(* Check 3: the first mandate_in of the order anchors the envelope the     *)
(* receipt names.                                                          *)
MandateLinkage(topic, rc) ==
  /\ PositionsOf(topic, rc.order, "mandate_in") # {}
  /\ Envelope[FirstOf(topic, rc.order, "mandate_in").by] = Envelope[rc.mandate]

(* Check 4: every step anchored, none of them twice, in consensus order.   *)
AnchorSequence(topic, rc) ==
  LET At(i) == PositionsOf(topic, rc.order, ExpectedSteps[i])
  IN  /\ ~ Ambiguous(topic, rc.order)
      /\ \A i \in DOMAIN ExpectedSteps : At(i) # {}
      /\ \A i, j \in DOMAIN ExpectedSteps :
           i < j => \A p \in At(i), q \in At(j) : p < q

(* One leg: the transfer is on the ledger, it debited the stated payer,    *)
(* and the first anchor of its kind covers this very transfer.             *)
LegOnLedger(topic, settled, rc, leg, kind) ==
  /\ leg \in settled
  /\ Payer[leg] = PayerOf(rc)
  /\ PositionsOf(topic, rc.order, kind) # {}
  /\ FirstOf(topic, rc.order, kind).by = leg

(* Check 5: both payments are on the ledger.                               *)
PaymentsOnLedger(topic, settled, rc) ==
  /\ LegOnLedger(topic, settled, rc, rc.intake, "payment_intake")
  /\ LegOnLedger(topic, settled, rc, rc.balance, "payment_balance")

(* Check 6: the first receipt anchor of the order covers this receipt.     *)
ReceiptAnchor(topic, rc) ==
  /\ PositionsOf(topic, rc.order, "receipt") # {}
  /\ FirstOf(topic, rc.order, "receipt").by = rc.balance

(* The checks together: the receipt checks out.                            *)
Verifies(topic, settled, rc) ==
  /\ MandateLinkage(topic, rc)
  /\ AnchorSequence(topic, rc)
  /\ PaymentsOnLedger(topic, settled, rc)
  /\ ReceiptAnchor(topic, rc)
=============================================================================
