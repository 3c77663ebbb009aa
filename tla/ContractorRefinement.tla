------------------------ MODULE ContractorRefinement ------------------------
(***************************************************************************)
(* The contractor implements OrderPromise: the initial states agree, and   *)
(* every step of the service, faults included, is a step of the promise or *)
(* leaves the log, the payments and the receipts handed out alone.         *)
(***************************************************************************)
EXTENDS ContractorSafety

public == <<topic, settled, accepts, receipts>>

(* The promise's words about the log are the contractor's.                 *)
LEMMA SameAnchor ==
  ASSUME NEW k, NEW r
  PROVE  Promise!Step(k, r) = Anchor(k, Order[r], r)
BY DEF Promise!Step, Promise!Anchor, Anchor

LEMMA SameOnTopic ==
  ASSUME NEW a
  PROVE  Promise!OnTopic(topic, a) <=> OnTopic(topic, a)
BY DEF Promise!OnTopic, OnTopic

LEMMA SamePrecedes ==
  ASSUME NEW a, NEW b
  PROVE  Promise!Precedes(topic, a, b) <=> Precedes(topic, a, b)
BY DEF Promise!Precedes, Precedes

LEMMA TakenWhen ==
  ASSUME NEW k, NEW m, NEW r, OnTopic(topic, Anchor(k, m, r))
  PROVE  Promise!Taken(k, m)
BY AnchorFields DEF Promise!Taken, OnTopic, Promise!PositionsOf

(* Settling at the gate is a charge the promise allows.                    *)
LEMMA SettleCharges ==
  ASSUME IInv, NEW r \in Paid, GateSettles(r)
  PROVE  Promise!Next
<1>1. settled' = settled \cup {r} /\ UNCHANGED <<topic, accepts, receipts>>
  BY DEF GateSettles, logVars, answers
<1>2. r \in Collections => Promise!Taken("delivered", Order[r])
  BY TakenWhen DEF GateSettles, IInv, MoneySound
<1>3. Promise!Charge(r)
  BY <1>1, <1>2 DEF Promise!Charge, Paid
<1>4. QED
  BY <1>3 DEF Promise!Next, Paid

(* A landing is a record the promise allows.                               *)
LEMMA LandRecords ==
  ASSUME IInv, NEW a \in inflight, Land(a)
  PROVE  Promise!Next
<1>1. topic' = Append(topic, a) /\ UNCHANGED <<settled, accepts, receipts>>
  BY DEF Land, moneyVars, answers
<1>2. Genuine(a) /\ Supported(a) /\ a.kind \in RequiredKinds
  BY DEF IInv, TypeOK, SubmissionsSupported, Anchors
<1>3. a = Anchor(a.kind, Order[a.by], a.by) /\ a.order = Order[a.by]
  BY <1>2, AnchorFields DEF Genuine
<1>4. CASE a.kind \in {"mandate_in", "payment_intake", "accepted"}
  <2>1. a.by \in Intakes /\ a.by \in settled
    BY <1>2, <1>4 DEF Genuine, Paid
  <2>2. Promise!RecordIntake(a.by, a.kind)
    BY <1>1, <1>2, <1>3, <1>4, <2>1, SameAnchor, SameOnTopic DEF Promise!RecordIntake, Supported
  <2>3. QED
    BY <1>4, <2>1, <2>2 DEF Promise!Next
<1>5. CASE a.kind = "delivered"
  <2>1. a.by \in Deliveries /\ Promise!Taken("accepted", Order[a.by])
    BY <1>2, <1>3, <1>5, TakenWhen DEF Genuine, Supported
  <2>2. Promise!RecordDelivery(a.by)
    BY <1>1, <1>3, <1>5, <2>1, SameAnchor DEF Promise!RecordDelivery
  <2>3. QED
    BY <2>1, <2>2 DEF Promise!Next
<1>6. CASE a.kind \in {"payment_balance", "receipt"}
  <2>1. a.by \in Collections /\ a.by \in settled
    BY <1>2, <1>6 DEF Genuine, Paid
  <2>2. a.kind = "payment_balance" => Promise!Taken("delivered", Order[a.by])
    BY <1>2, <1>3, TakenWhen DEF Supported
  <2>3. Promise!RecordRelease(a.by, a.kind)
    BY <1>1, <1>2, <1>3, <1>6, <2>1, <2>2, SameAnchor, SameOnTopic DEF Promise!RecordRelease, Supported
  <2>4. QED
    BY <1>6, <2>1, <2>3 DEF Promise!Next
<1>7. QED
  BY <1>2, <1>4, <1>5, <1>6 DEF RequiredKinds

(* Handing out an acceptance whose anchor landed.                          *)
LEMMA HandsAcceptance ==
  ASSUME NEW i \in Intakes, OnTopic(topic, Anchor("accepted", Order[i], i)),
         accepts' = accepts \cup {i}, UNCHANGED <<topic, settled, receipts>>
  PROVE  Promise!Next
<1>1. Promise!Accept(i)
  BY SameAnchor, SameOnTopic DEF Promise!Accept
<1>2. QED
  BY <1>1 DEF Promise!Next

(* Handing out a sealed receipt.                                           *)
LEMMA HandsReceipt ==
  ASSUME IInv, NEW rc \in Receipt, Sealed(rc),
         receipts' = receipts \cup {rc}, UNCHANGED <<topic, settled, accepts>>
  PROVE  Promise!Next
<1> DEFINE m == rc.order
<1>1. /\ rc \in Promise!Receipts
      /\ rc.result \in Deliveries
  BY DEF Receipt, Promise!Receipts
<1>2. ReceiptOnTopic(rc)
  BY SealedChain
<1>3. /\ Order[rc.mandate] = m /\ Order[rc.intake] = m /\ Order[rc.balance] = m
      /\ OnTopic(topic, Anchor("receipt", m, rc.balance))
  BY <1>2 DEF Sealed, ReceiptOnTopic
<1>4. /\ OnTopic(topic, Anchor("accepted", m, rc.mandate))
      /\ OnTopic(topic, Anchor("payment_intake", m, rc.intake))
  BY <1>2, <1>3 DEF ReceiptOnTopic, AcceptanceOnTopic, Precedes, OnTopic
<1>5. /\ Precedes(topic, Anchor("delivered", m, rc.result), Anchor("payment_balance", m, rc.balance))
      /\ OnTopic(topic, Anchor("delivered", m, rc.result))
  BY <1>2 DEF ReceiptOnTopic, Precedes, OnTopic
<1>6. Order[rc.result] = m
  <2>1. PICK n \in DOMAIN topic : topic[n] = Anchor("delivered", m, rc.result)
    BY <1>5 DEF OnTopic
  <2>2. topic[n] = Anchor(topic[n].kind, Order[topic[n].by], topic[n].by)
    BY DEF IInv, LogCaused, Genuine
  <2>3. QED
    BY <2>1, <2>2, AnchorFields
<1>7. Promise!Release(rc)
  BY <1>3, <1>4, <1>5, <1>6, SameAnchor, SameOnTopic, SamePrecedes DEF Promise!Release
<1>8. QED
  BY <1>1, <1>7 DEF Promise!Next

LEMMA StepRefines == IInv /\ [Next]_vars => [Promise!Next]_public
<1> SUFFICES ASSUME IInv, [Next]_vars
             PROVE  Promise!Next \/ UNCHANGED public
  OBVIOUS
<1>1. CASE UNCHANGED vars
  BY <1>1 DEF vars, public
<1>2. ASSUME NEW r \in Paid, Gate(r) \/ SettlementExpires(r)
      PROVE  Promise!Next \/ UNCHANGED public
  <2>1. CASE GateSettles(r)
    BY <2>1, SettleCharges
  <2>2. CASE ~ GateSettles(r)
    BY <1>2, <2>2 DEF Gate, GateRefuses, GateLosesAnswer, RecordSettlement, Unclaimed,
                      SettlementExpires, logVars, moneyVars, answers, public
  <2>3. QED
    BY <2>1, <2>2
<1>3. ASSUME NEW i \in Intakes, Intake(i)
      PROVE  Promise!Next \/ UNCHANGED public
  <2>1. CASE IntakeRepeated(i)
    <3>1. /\ Order[i] \in Orders /\ mem[Order[i]] \in Job
          /\ JobSound(Order[i], mem[Order[i]])
      BY <2>1, RequestsAssumption, JobThere DEF IntakeRepeated, IInv, StoreSound, Requests
    <3>2. /\ mem[Order[i]].accepted \in Intakes
          /\ OnTopic(topic, Anchor("accepted", Order[mem[Order[i]].accepted], mem[Order[i]].accepted))
      BY <3>1 DEF JobSound, Grounded, Job
    <3>3. QED
      BY <2>1, <3>2, HandsAcceptance DEF IntakeRepeated, logVars
  <2>2. CASE IntakeStored(i)
    BY <2>2, HandsAcceptance DEF IntakeStored, Acknowledged, logVars, moneyVars
  <2>3. CASE ~ IntakeRepeated(i) /\ ~ IntakeStored(i)
    BY <1>3, <2>3 DEF Intake, SendIntake, IntakeRefused, IntakeBegins, MandateAnchored,
                      IntakePaymentAnchored, IntakeUnwritten, logVars, moneyVars, answers, public
  <2>4. QED
    BY <2>1, <2>2, <2>3
<1>4. ASSUME NEW d \in Deliveries, Deliver(d)
      PROVE  Promise!Next \/ UNCHANGED public
  BY <1>4 DEF Deliver, DeliverUnknown, DeliverRepeated, DeliverRefused, DeliverBegins,
              DeliveryStored, DeliveryUnwritten, logVars, moneyVars, answers, public
<1>5. ASSUME NEW c \in Collections, Collect(c)
      PROVE  Promise!Next \/ UNCHANGED public
  <2>1. CASE GuardRepeats(c)
    <3>1. /\ Order[c] \in Orders /\ mem[Order[c]] \in Job
          /\ JobSound(Order[c], mem[Order[c]]) /\ mem[Order[c]].receipt # None
      BY <2>1, RequestsAssumption, JobThere DEF GuardRepeats, IInv, StoreSound, Requests
    <3>2. mem[Order[c]].receipt \in Receipt /\ Sealed(mem[Order[c]].receipt)
      BY <3>1 DEF JobSound, Job
    <3>3. QED
      BY <2>1, <3>2, HandsReceipt DEF GuardRepeats, logVars, moneyVars
  <2>2. CASE ReceiptStored(c)
    <3>1. /\ pc[c] \in Waiting /\ held[c] # None /\ held[c] \in Job /\ held[c].result # None
          /\ Order[c] \in Orders
          /\ OnTopic(topic, Anchor("receipt", Order[c], c))
      BY <2>2, RequestsAssumption
      DEF ReceiptStored, Acknowledged, Waiting, RequiredKinds, IInv, TypeOK, HandlersSound,
          HeldSound, Requests
    <3>2. ReceiptOf(c) \in Receipt /\ Sealed(ReceiptOf(c))
      BY <3>1 DEF ReceiptOf, Receipt, Job, Sealed
    <3>3. QED
      BY <2>2, <3>2, HandsReceipt DEF ReceiptStored, logVars, moneyVars
  <2>3. CASE ~ GuardRepeats(c) /\ ~ ReceiptStored(c)
    BY <1>5, <2>3 DEF Collect, GuardRefuses, GuardPasses, CollectTooEarly, CollectBegins,
                      BalanceAnchored, ReceiptUnwritten, logVars, moneyVars, answers, public
  <2>4. QED
    BY <2>1, <2>2, <2>3
<1>6. ASSUME NEW a \in inflight, Land(a)
      PROVE  Promise!Next \/ UNCHANGED public
  BY <1>6, LandRecords
<1>7. ASSUME NEW r \in Requests, AnchorFails(r)
      PROVE  Promise!Next \/ UNCHANGED public
  BY <1>7 DEF AnchorFails, logVars, moneyVars, answers, public
<1>8. CASE Crash
  BY <1>8 DEF Crash, logVars, answers, public
<1>9. QED
  BY <1>1, <1>2, <1>3, <1>4, <1>5, <1>6, <1>7, <1>8 DEF Next

(* With its store, its requests and its faults hidden, the service does    *)
(* only what OrderPromise allows.                                          *)
THEOREM ContractorKeepsPromise == Spec => PromiseKept
<1>1. Init => Promise!Init
  BY DEF Init, Promise!Init
<1>2. IInv /\ [Next]_vars => [Promise!Next]_(Promise!promiseVars)
  BY StepRefines DEF public, Promise!promiseVars
<1>3. QED
  BY <1>1, <1>2, InvariantHolds, PTL DEF Spec, PromiseKept, Promise!Spec
=============================================================================
