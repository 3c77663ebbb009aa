-------------------------- MODULE ContractorSafety --------------------------
(***************************************************************************)
(* What the inductive invariant of the contractor gives: its safety        *)
(* properties and its promise, for every instance.                         *)
(***************************************************************************)
EXTENDS ContractorProofs

(* Every variable keeps its type; in particular the store never holds half *)
(* a job, and no update of it finds no job to update.                      *)
THEOREM TypeCorrect == Spec => []TypeOK
BY InvariantHolds, PTL DEF IInv

(* No effect precedes its cause on the public log.                         *)
LEMMA CausalityFromInv == IInv => TrailCausality
<1> SUFFICES ASSUME IInv, NEW n \in DOMAIN topic
             PROVE  /\ topic[n].kind = "payment_intake"  => EarlierOwn(n, "mandate_in")
                    /\ topic[n].kind = "accepted"        => EarlierOwn(n, "payment_intake")
                    /\ topic[n].kind = "delivered"       => Earlier(n, "accepted")
                    /\ topic[n].kind = "payment_balance" => Earlier(n, "delivered")
                    /\ topic[n].kind = "receipt"         => EarlierOwn(n, "payment_balance")
  BY DEF TrailCausality
<1>1. Caused(n)
  BY DEF IInv, LogCaused
<1>2. QED
  BY <1>1, AnchorFields DEF Caused, Earlier, EarlierOwn

THEOREM CausalityHolds == Spec => []TrailCausality
BY InvariantHolds, CausalityFromInv, PTL

(* No customer pays the balance of an order whose delivery is not on the   *)
(* public log, and no payment anchor lacks its transfer.                   *)
LEMMA BalanceFromInv == IInv => BalanceFollowsDelivery
<1> SUFFICES ASSUME IInv PROVE BalanceFollowsDelivery
  OBVIOUS
<1>1. ASSUME NEW c \in settled \cap Collections
      PROVE  \E n \in DOMAIN topic :
               topic[n].kind = "delivered" /\ topic[n].order = Order[c]
  <2>1. PICK d \in Deliveries : OnTopic(topic, Anchor("delivered", Order[c], d))
    BY DEF IInv, MoneySound
  <2>2. QED
    BY <2>1, AnchorFields DEF OnTopic
<1>2. ASSUME NEW n \in DOMAIN topic, topic[n].kind \in {"payment_intake", "payment_balance"}
      PROVE  topic[n].by \in settled
  BY <1>2 DEF IInv, LogCaused, Genuine, Paid
<1>3. QED
  BY <1>1, <1>2 DEF BalanceFollowsDelivery

THEOREM BalanceFollowsDeliveryHolds == Spec => []BalanceFollowsDelivery
BY InvariantHolds, BalanceFromInv, PTL

(* An accepted anchor has its whole chain before it.                       *)
LEMMA AcceptedChain ==
  ASSUME IInv, NEW i \in Intakes, OnTopic(topic, Anchor("accepted", Order[i], i))
  PROVE  AcceptanceOnTopic(i)
<1> DEFINE A(k) == Anchor(k, Order[i], i)
<1>1. PICK n \in DOMAIN topic : topic[n] = A("accepted")
  BY DEF OnTopic
<1>2. PICK p \in 1..(n - 1) : topic[p] = A("payment_intake")
  BY <1>1, AnchorFields DEF IInv, LogCaused, Caused
<1>3. p \in DOMAIN topic /\ p < n
  BY <1>1, <1>2 DEF IInv, TypeOK
<1>4. PICK q \in 1..(p - 1) : topic[q] = A("mandate_in")
  BY <1>2, <1>3, AnchorFields DEF IInv, LogCaused, Caused
<1>5. q \in DOMAIN topic /\ q < p
  BY <1>3, <1>4 DEF IInv, TypeOK
<1>6. QED
  BY <1>1, <1>2, <1>3, <1>4, <1>5 DEF AcceptanceOnTopic, Precedes

(* A sealed receipt has all six of its anchors, in order.                  *)
LEMMA SealedChain ==
  ASSUME IInv, NEW rc \in Receipt, Sealed(rc)
  PROVE  ReceiptOnTopic(rc)
<1> DEFINE c == rc.balance
           m == rc.order
           A(k, r) == Anchor(k, m, r)
<1>1. /\ c \in Collections /\ Order[c] = m /\ m \in Orders
      /\ held[c] # None /\ held[c] \in Job
      /\ held[c].result # None /\ Grounded(m, held[c])
      /\ rc.mandate = held[c].accepted /\ rc.intake = held[c].intake
      /\ rc.result = held[c].result
  BY DEF Sealed, ReceiptOf, IInv, TypeOK, HeldSound, Receipt
<1>2. /\ rc.mandate \in Intakes /\ Order[rc.mandate] = m /\ AcceptanceOnTopic(rc.mandate)
      /\ rc.intake \in Intakes /\ Order[rc.intake] = m /\ AcceptanceOnTopic(rc.intake)
  BY <1>1, AcceptedChain DEF Grounded, Job
<1>3. PICK n \in DOMAIN topic : topic[n] = A("receipt", c)
  BY DEF Sealed, OnTopic
<1>4. PICK p \in 1..(n - 1) : topic[p] = A("payment_balance", c)
  BY <1>3, AnchorFields DEF IInv, LogCaused, Caused
<1>5. p \in DOMAIN topic /\ p < n
  BY <1>3, <1>4 DEF IInv, TypeOK
<1>6. PICK q \in 1..(p - 1) : topic[q] = A("delivered", rc.result)
  BY <1>1, <1>4, <1>5, AnchorFields DEF IInv, LogCaused, Caused
<1>7. q \in DOMAIN topic /\ q < p
  BY <1>5, <1>6 DEF IInv, TypeOK
<1>8. PICK i \in Intakes : \E o \in 1..(q - 1) : topic[o] = A("accepted", i)
  BY <1>6, <1>7, AnchorFields DEF IInv, LogCaused, Caused
<1>9. PICK o \in 1..(q - 1) : topic[o] = A("accepted", i)
  BY <1>8
<1>10. o \in DOMAIN topic /\ o < q
  BY <1>7, <1>9 DEF IInv, TypeOK
<1>11. Precedes(topic, A("payment_balance", c), A("receipt", c))
  BY <1>3, <1>4, <1>5 DEF Precedes
<1>12. Precedes(topic, A("delivered", rc.result), A("payment_balance", c))
  BY <1>4, <1>5, <1>6, <1>7 DEF Precedes
<1>13. Precedes(topic, A("accepted", i), A("delivered", rc.result))
  BY <1>6, <1>7, <1>9, <1>10 DEF Precedes
<1>14. QED
  BY <1>2, <1>11, <1>12, <1>13 DEF ReceiptOnTopic

(* Nothing is issued that is not anchored.                                 *)
LEMMA IssuedFromInv == IInv => IssuedIsAnchored
<1> SUFFICES ASSUME IInv PROVE IssuedIsAnchored
  OBVIOUS
<1>1. ASSUME NEW i \in accepts PROVE AcceptanceOnTopic(i)
  BY AcceptedChain DEF IInv, TypeOK, AnswersSound
<1>2. ASSUME NEW rc \in receipts PROVE ReceiptOnTopic(rc)
  BY SealedChain DEF IInv, TypeOK, AnswersSound
<1>3. QED
  BY <1>1, <1>2 DEF IssuedIsAnchored

THEOREM IssuedIsAnchoredHolds == Spec => []IssuedIsAnchored
BY InvariantHolds, IssuedFromInv, PTL

(* Neither memory nor the file names a step that is not on the log.        *)
LEMMA StoreFromInv == IInv => StoreIsAnchored
<1> SUFFICES ASSUME IInv PROVE StoreIsAnchored
  OBVIOUS
<1>1. ASSUME NEW m \in Orders, NEW job \in Job, JobSound(m, job)
      PROVE  JobOnTopic(m, job)
  <2>1. job.receipt # None => job.receipt \in Receipt
    BY DEF Job
  <2>2. job.accepted \in Intakes /\ job.intake \in Intakes
    BY DEF Job
  <2>3. QED
    BY <1>1, <2>1, <2>2, AcceptedChain, SealedChain DEF JobSound, Grounded, JobOnTopic
<1>2. QED
  BY <1>1, JobThere DEF IInv, StoreSound, StoreIsAnchored

THEOREM StoreIsAnchoredHolds == Spec => []StoreIsAnchored
BY InvariantHolds, StoreFromInv, PTL
-----------------------------------------------------------------------------
(* Where no kind of step is anchored twice, a step's position determines   *)
(* the first anchor of its kind.                                           *)
LEMMA OnlyPosition ==
  ASSUME NEW t \in Seq(Anchors), NEW m, ~ Ambiguous(t, m),
         NEW k \in RequiredKinds, NEW n \in PositionsOf(t, m, k)
  PROVE  PositionsOf(t, m, k) = {n} /\ FirstOf(t, m, k) = t[n]
<1>1. PositionsOf(t, m, k) = {n}
  BY DEF Ambiguous
<1>2. n \in Nat
  BY DEF PositionsOf
<1>3. QED
  BY <1>1, <1>2 DEF FirstOf

LEMMA PositionOf ==
  ASSUME NEW t, NEW k, NEW m, NEW r, NEW n \in DOMAIN t, t[n] = Anchor(k, m, r)
  PROVE  n \in PositionsOf(t, m, k)
BY AnchorFields DEF PositionsOf

(* An unambiguous trail convinces a stranger of a receipt whose two legs   *)
(* were paid by one account.                                               *)
LEMMA VerifiesFromInv == IInv => UnambiguousVerifies
<1> SUFFICES ASSUME IInv, NEW rc \in receipts, ~ Ambiguous(topic, rc.order),
                    Payer[rc.balance] = PayerOf(rc)
             PROVE  Verifies(topic, settled, rc)
  BY DEF UnambiguousVerifies
<1> DEFINE m == rc.order
           A(k, r) == Anchor(k, m, r)
           At(k) == PositionsOf(topic, m, k)
<1>1. topic \in Seq(Anchors) /\ rc \in Receipt /\ ReceiptOnTopic(rc)
  BY SealedChain DEF IInv, TypeOK, AnswersSound
<1>2. PICK x1, x2 \in DOMAIN topic :
        x1 < x2 /\ topic[x1] = A("mandate_in", rc.mandate) /\ topic[x2] = A("payment_intake", rc.mandate)
  BY <1>1 DEF ReceiptOnTopic, AcceptanceOnTopic, Precedes
<1>3. PICK y2, y3 \in DOMAIN topic :
        y2 < y3 /\ topic[y2] = A("payment_intake", rc.mandate) /\ topic[y3] = A("accepted", rc.mandate)
  BY <1>1 DEF ReceiptOnTopic, AcceptanceOnTopic, Precedes
<1>4. PICK z2, z3 \in DOMAIN topic :
        topic[z2] = A("payment_intake", rc.intake) /\ topic[z3] = A("accepted", rc.intake)
  BY <1>1 DEF ReceiptOnTopic, AcceptanceOnTopic, Precedes
<1>5. PICK i \in Intakes, o, q \in DOMAIN topic :
        o < q /\ topic[o] = A("accepted", i) /\ topic[q] = A("delivered", rc.result)
  BY <1>1 DEF ReceiptOnTopic, Precedes
<1>6. PICK r, p \in DOMAIN topic :
        r < p /\ topic[r] = A("delivered", rc.result) /\ topic[p] = A("payment_balance", rc.balance)
  BY <1>1 DEF ReceiptOnTopic, Precedes
<1>7. PICK s, n \in DOMAIN topic :
        s < n /\ topic[s] = A("payment_balance", rc.balance) /\ topic[n] = A("receipt", rc.balance)
  BY <1>1 DEF ReceiptOnTopic, Precedes
<1>8. /\ At("mandate_in") = {x1} /\ At("payment_intake") = {x2} /\ At("accepted") = {y3}
      /\ At("delivered") = {q} /\ At("payment_balance") = {p} /\ At("receipt") = {n}
      /\ FirstOf(topic, m, "mandate_in") = topic[x1]
      /\ FirstOf(topic, m, "payment_intake") = topic[x2]
      /\ FirstOf(topic, m, "payment_balance") = topic[p]
      /\ FirstOf(topic, m, "receipt") = topic[n]
  BY <1>1, <1>2, <1>3, <1>5, <1>6, <1>7, OnlyPosition, PositionOf DEF RequiredKinds
<1>9. y2 = x2 /\ z2 = x2 /\ o = y3 /\ r = q /\ s = p
  BY <1>3, <1>4, <1>5, <1>6, <1>7, <1>8, PositionOf
<1>10. x1 < x2 /\ x2 < y3 /\ y3 < q /\ q < p /\ p < n
  BY <1>2, <1>3, <1>5, <1>6, <1>7, <1>9
<1>11. MandateLinkage(topic, rc)
  BY <1>2, <1>8, AnchorFields DEF MandateLinkage
<1>12. AnchorSequence(topic, rc)
  <2>1. DOMAIN ExpectedSteps = 1..6
    BY DEF ExpectedSteps
  <2>2. /\ ExpectedSteps[1] = "mandate_in" /\ ExpectedSteps[2] = "payment_intake"
        /\ ExpectedSteps[3] = "accepted" /\ ExpectedSteps[4] = "delivered"
        /\ ExpectedSteps[5] = "payment_balance" /\ ExpectedSteps[6] = "receipt"
    BY DEF ExpectedSteps
  <2>3. \A j \in 1..6 : j \in {1, 2, 3, 4, 5, 6}
    OBVIOUS
  <2>4. \A j \in 1..6 : At(ExpectedSteps[j]) # {}
    BY <1>8, <2>2, <2>3
  <2>5. {x1, x2, y3, q, p, n} \subseteq Nat
    BY <1>1, <1>2, <1>3, <1>5, <1>6, <1>7
  <2>6. ASSUME NEW j \in 1..6, NEW k \in 1..6, j < k,
               NEW u \in At(ExpectedSteps[j]), NEW v \in At(ExpectedSteps[k])
        PROVE  u < v
    BY <1>8, <1>10, <2>2, <2>3, <2>5, <2>6
  <2>7. QED
    BY <2>1, <2>4, <2>6 DEF AnchorSequence
<1>13. PaymentsOnLedger(topic, settled, rc)
  <2>1. rc.intake = rc.mandate
    BY <1>2, <1>4, <1>9, AnchorFields
  <2>2. rc.intake \in settled /\ rc.balance \in settled
    <3>1. Genuine(topic[x2]) /\ Genuine(topic[p])
      BY DEF IInv, LogCaused
    <3>2. QED
      BY <1>1, <1>2, <1>6, <2>1, <3>1, AnchorFields DEF Genuine, Paid, Receipt
  <2>3. QED
    BY <1>2, <1>6, <1>8, <2>1, <2>2, AnchorFields DEF PaymentsOnLedger, LegOnLedger, PayerOf
<1>14. ReceiptAnchor(topic, rc)
  BY <1>7, <1>8, AnchorFields DEF ReceiptAnchor
<1>15. QED
  BY <1>11, <1>12, <1>13, <1>14 DEF Verifies

THEOREM UnambiguousVerifiesHolds == Spec => []UnambiguousVerifies
BY InvariantHolds, VerifiesFromInv, PTL
=============================================================================
