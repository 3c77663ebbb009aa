-------------------------- MODULE ContractorProofs --------------------------
(***************************************************************************)
(* Proofs about the contractor for every set of requests and orders and    *)
(* every choice of faults.                                                 *)
(***************************************************************************)
EXTENDS ContractorInvariant, LogLemmas

-----------------------------------------------------------------------------
(* What an anchor is, field by field.                                      *)
LEMMA AnchorFields ==
  ASSUME NEW k, NEW m, NEW r
  PROVE  /\ Anchor(k, m, r).kind = k
         /\ Anchor(k, m, r).order = m
         /\ Anchor(k, m, r).by = r
BY DEF Anchor

LEMMA AnchorType ==
  ASSUME NEW r \in Requests, NEW k \in RequiredKinds
  PROVE  Anchor(k, Order[r], r) \in Anchors
BY RequestsAssumption DEF Anchor, Anchors

(* A job that is there is a job.                                           *)
LEMMA JobThere ==
  ASSUME TypeOK, NEW m \in Orders
  PROVE  /\ mem[m] # None => mem[m] \in Job
         /\ disk[m] # None => disk[m] \in Job
BY DEF TypeOK

-----------------------------------------------------------------------------
THEOREM InitIInv == Init => IInv
<1> SUFFICES ASSUME Init PROVE IInv
  OBVIOUS
<1> USE DEF Init
<1>1. TypeOK
  BY RequestsAssumption, BoundsAssumption DEF TypeOK, ProgramCounters
<1>2. SubmissionsSupported /\ LogCaused
  BY DEF SubmissionsSupported, LogCaused
<1>3. StoreSound /\ HeldSound
  BY RequestsAssumption DEF StoreSound, HeldSound
<1>4. MoneySound /\ RoutesSound
  BY DEF MoneySound, RoutesSound, Waiting, RequiredKinds, Requests, Paid
<1>5. HandlersSound
  BY DEF HandlersSound, Waiting, RequiredKinds, Requests
<1>6. AnswersSound
  BY DEF AnswersSound
<1>7. QED
  BY <1>1, <1>2, <1>3, <1>4, <1>5, <1>6 DEF IInv

(* A step that leaves the log, the submissions, what handlers hold and the *)
(* answers as they are, and takes no payment back, keeps what is said of   *)
(* them.                                                                   *)
LEMMA QuietLog ==
  ASSUME IInv, UNCHANGED <<topic, inflight, held>>, settled \subseteq settled'
  PROVE  SubmissionsSupported' /\ LogCaused' /\ HeldSound'
<1>1. SubmissionsSupported'
  BY DEF IInv, SubmissionsSupported, Genuine, Supported
<1>2. LogCaused'
  BY DEF IInv, LogCaused, Genuine, Caused
<1>3. HeldSound'
  BY DEF IInv, HeldSound, Grounded
<1>4. QED
  BY <1>1, <1>2, <1>3

LEMMA QuietStore ==
  ASSUME IInv, UNCHANGED <<topic, held, mem, disk>>
  PROVE  StoreSound'
BY DEF IInv, StoreSound, JobSound, Grounded, Sealed, ReceiptOf

LEMMA QuietAnswers ==
  ASSUME IInv, UNCHANGED <<topic, held, accepts, receipts>>
  PROVE  AnswersSound'
BY DEF IInv, AnswersSound, Sealed, ReceiptOf

(* A submission by a handler whose anchor is genuine and supported.        *)
LEMMA SubmitLog ==
  ASSUME IInv, NEW r \in Requests, NEW k \in RequiredKinds, Submit(r, k),
         UNCHANGED <<topic, held, settled>>,
         Genuine(Anchor(k, Order[r], r)), Supported(Anchor(k, Order[r], r))
  PROVE  SubmissionsSupported' /\ LogCaused' /\ HeldSound'
<1>1. SubmissionsSupported'
  <2> SUFFICES ASSUME NEW a \in inflight' PROVE (Genuine(a) /\ Supported(a))'
    BY DEF SubmissionsSupported
  <2>1. Genuine(a) /\ Supported(a)
    BY DEF Submit, IInv, SubmissionsSupported
  <2>2. QED
    BY <2>1 DEF Genuine, Supported
<1>2. LogCaused'
  BY DEF IInv, LogCaused, Genuine, Caused
<1>3. HeldSound'
  BY DEF IInv, HeldSound, Grounded
<1>4. QED
  BY <1>1, <1>2, <1>3

-----------------------------------------------------------------------------
(* One lemma per action or group of actions with the same frame.           *)

(* The steps that only move a request along and money with it.             *)
LEMMA GateStep ==
  ASSUME IInv, NEW r \in Paid, Gate(r) \/ SettlementExpires(r)
  PROVE  IInv'
<1>1. /\ UNCHANGED <<storeVars, logVars, held, crashes, answers>>
      /\ settled \subseteq settled'
  BY DEF Gate, GateRefuses, GateSettles, GateLosesAnswer, RecordSettlement,
         SettlementExpires, Unclaimed, storeVars, logVars, moneyVars, answers, faultVars
<1>2. SubmissionsSupported' /\ LogCaused' /\ HeldSound'
  BY <1>1, QuietLog DEF logVars
<1>3. StoreSound'
  BY <1>1, QuietStore DEF logVars, storeVars
<1>4. AnswersSound'
  BY <1>1, QuietAnswers DEF logVars, answers
<1>5. TypeOK'
  BY <1>1 DEF IInv, TypeOK, Gate, GateRefuses, GateSettles, GateLosesAnswer, RecordSettlement,
         SettlementExpires, Unclaimed, storeVars, logVars, moneyVars, answers, faultVars,
         Goto, Fault, ProgramCounters, UnderWay, Ended, Paid, Requests
<1>6. MoneySound'
  BY <1>1, RequestsAssumption DEF IInv, TypeOK, MoneySound, Gate, GateRefuses, GateSettles, GateLosesAnswer, RecordSettlement,
         SettlementExpires, Unclaimed, storeVars, logVars, moneyVars, answers, faultVars,
         Goto, Fault, Waiting, RequiredKinds, Paid, Requests
<1>7. HandlersSound' /\ RoutesSound'
  BY <1>1, RequestsAssumption DEF IInv, TypeOK, HandlersSound, RoutesSound, Gate, GateRefuses, GateSettles, GateLosesAnswer, RecordSettlement,
         SettlementExpires, Unclaimed, storeVars, logVars, moneyVars, answers, faultVars,
         Goto, Fault, Waiting, RequiredKinds, Paid, Requests
<1>8. QED
  BY <1>2, <1>3, <1>4, <1>5, <1>6, <1>7 DEF IInv

(* Requests that end, or reach the gate, without touching log or store.    *)
LEMMA QuietStep ==
  ASSUME IInv, NEW r \in Requests,
         \/ r \in Intakes /\ (SendIntake(r) \/ IntakeRefused(r))
         \/ r \in Deliveries /\ (DeliverUnknown(r) \/ DeliverRepeated(r) \/ DeliverRefused(r))
         \/ r \in Collections /\ (GuardRefuses(r) \/ CollectTooEarly(r))
         \/ AnchorFails(r)
  PROVE  IInv'
<1>1. UNCHANGED <<storeVars, logVars, held, settled, crashes, answers>>
  BY DEF SendIntake, IntakeRefused, DeliverUnknown, DeliverRepeated, DeliverRefused,
         GuardRefuses, CollectTooEarly, AnchorFails, moneyVars, faultVars
<1>2. /\ pc' \in [Requests -> ProgramCounters]
      /\ \A q \in Requests : q # r => pc'[q] = pc[q]
      /\ pc'[r] \in Ended \/ (pc'[r] = "gated" /\ r \in Intakes)
      /\ registry' \subseteq registry
      /\ happened' \subseteq Faults
  BY DEF IInv, TypeOK, SendIntake, IntakeRefused, IntakeStarts, Claim, DeliverUnknown,
         DeliverRepeated, DeliverRefused, GuardRefuses, CollectTooEarly, AnchorFails,
         MayArrive, Goto, Fault, ProgramCounters, UnderWay, Ended, moneyVars, faultVars
<1>3. SubmissionsSupported' /\ LogCaused' /\ HeldSound'
  BY <1>1, QuietLog DEF logVars
<1>4. StoreSound'
  BY <1>1, QuietStore DEF logVars, storeVars
<1>5. AnswersSound'
  BY <1>1, QuietAnswers DEF logVars, answers
<1>6. TypeOK'
  BY <1>1, <1>2 DEF IInv, TypeOK, storeVars, logVars, answers
<1>7. MoneySound'
  BY <1>1, <1>2, RequestsAssumption
  DEF IInv, MoneySound, logVars, Ended, Waiting, RequiredKinds, Paid, Requests
<1>8. HandlersSound' /\ RoutesSound'
  BY <1>1, <1>2, RequestsAssumption
  DEF IInv, HandlersSound, RoutesSound, storeVars, Ended, Waiting, RequiredKinds, Requests
<1>9. QED
  BY <1>3, <1>4, <1>5, <1>6, <1>7, <1>8 DEF IInv

(* The guard lets a collection through to the gate: its job records a      *)
(* delivery, whose anchor landed.                                          *)
LEMMA GuardPassesStep ==
  ASSUME IInv, NEW c \in Collections, GuardPasses(c)
  PROVE  IInv'
<1>1. /\ UNCHANGED <<storeVars, logVars, moneyVars, held, faultVars, answers>>
      /\ pc[c] = "idle" /\ Goto(c, "gated")
      /\ c \in Requests /\ Order[c] \in Orders
      /\ mem[Order[c]] # None /\ mem[Order[c]].result # None
  BY RequestsAssumption DEF GuardPasses, MayArrive, Delivered, Requests
<1>2. SubmissionsSupported' /\ LogCaused' /\ HeldSound' /\ StoreSound' /\ AnswersSound'
  BY <1>1, QuietLog, QuietStore, QuietAnswers DEF logVars, storeVars, moneyVars, answers
<1>3. TypeOK'
  BY <1>1 DEF IInv, TypeOK, Goto, ProgramCounters, UnderWay, storeVars, logVars,
              moneyVars, faultVars, answers
<1>4. MoneySound'
  <2>1. mem[Order[c]].result \in Deliveries
    BY <1>1, JobThere DEF IInv, Job
  <2>2. OnTopic(topic, Anchor("delivered", Order[c], mem[Order[c]].result))
    BY <1>1 DEF IInv, StoreSound, JobSound, Grounded
  <2>3. QED
    BY <1>1, <2>1, <2>2
    DEF IInv, TypeOK, MoneySound, Goto, moneyVars, logVars, Waiting, RequiredKinds, Paid, Requests
<1>5. HandlersSound' /\ RoutesSound'
  BY <1>1, RequestsAssumption
  DEF IInv, TypeOK, HandlersSound, RoutesSound, Goto, storeVars, Waiting, RequiredKinds, Requests
<1>6. QED
  BY <1>2, <1>3, <1>4, <1>5 DEF IInv

(* An answer from the store: what is repeated was sound when it was put.   *)
LEMMA RepeatStep ==
  ASSUME IInv, NEW r \in Requests,
         \/ r \in Intakes /\ IntakeRepeated(r)
         \/ r \in Collections /\ GuardRepeats(r)
  PROVE  IInv'
<1>1. /\ UNCHANGED <<storeVars, logVars, held, settled, faultVars>>
      /\ Goto(r, "done")
      /\ registry' \subseteq registry
      /\ Order[r] \in Orders /\ mem[Order[r]] \in Job
  BY RequestsAssumption, JobThere
  DEF IInv, IntakeRepeated, GuardRepeats, IntakeStarts, Claim, moneyVars
<1>2. SubmissionsSupported' /\ LogCaused' /\ HeldSound' /\ StoreSound'
  BY <1>1, QuietLog, QuietStore DEF logVars, storeVars
<1>3. TypeOK'
  <2>1. accepts' \subseteq Intakes /\ receipts' \subseteq Receipt
    BY <1>1 DEF IInv, TypeOK, Job, IntakeRepeated, GuardRepeats, answers
  <2>2. QED
    BY <1>1, <2>1
    DEF IInv, TypeOK, Goto, ProgramCounters, Ended, storeVars, logVars, faultVars
<1>4. MoneySound' /\ HandlersSound' /\ RoutesSound'
  BY <1>1, RequestsAssumption
  DEF IInv, TypeOK, MoneySound, HandlersSound, RoutesSound, Goto, storeVars, logVars,
      Waiting, RequiredKinds, Paid, Requests
<1>5. AnswersSound'
  <2>1. JobSound(Order[r], mem[Order[r]])
    BY <1>1, NoneAssumption DEF IInv, StoreSound
  <2>2. CASE r \in Intakes /\ IntakeRepeated(r)
    BY <1>1, <2>1, <2>2
    DEF IInv, AnswersSound, JobSound, Grounded, IntakeRepeated, logVars, Sealed, ReceiptOf
  <2>3. CASE r \in Collections /\ GuardRepeats(r)
    BY <1>1, <2>1, <2>3
    DEF IInv, AnswersSound, JobSound, GuardRepeats, logVars, Sealed, ReceiptOf
  <2>4. QED
    BY <2>2, <2>3
<1>6. QED
  BY <1>2, <1>3, <1>4, <1>5 DEF IInv

(* A handler submits its next anchor: genuine, because the request reached *)
(* this point of its own route with its payment settled; supported,        *)
(* because the anchor before it was acknowledged or stands in the store.   *)
LEMMA SubmitStep ==
  ASSUME IInv, NEW r \in Requests,
         \/ r \in Intakes /\ (IntakeBegins(r) \/ MandateAnchored(r) \/ IntakePaymentAnchored(r))
         \/ r \in Deliveries /\ DeliverBegins(r)
         \/ r \in Collections /\ BalanceAnchored(r)
  PROVE  IInv'
<1>1. PICK k \in RequiredKinds :
        /\ Submit(r, k)
        /\ Genuine(Anchor(k, Order[r], r))
        /\ Supported(Anchor(k, Order[r], r))
        /\ r \in Intakes => k \in {"mandate_in", "payment_intake", "accepted"}
        /\ r \in Deliveries => k = "delivered" /\ mem[Order[r]] # None
        /\ r \in Collections => k = "receipt" /\ pc[r] = "payment_balance"
        /\ pc[r] \in {"idle", "paid"} \cup Waiting
        /\ r \in Paid => pc[r] # "idle"
        /\ r \in Deliveries => pc[r] = "idle"
  <2>1. CASE r \in Intakes /\ IntakeBegins(r)
    <3>1. Submit(r, "mandate_in") /\ pc[r] = "paid" /\ r \in settled
      BY <2>1 DEF IntakeBegins, IntakeStarts, IInv, MoneySound, Paid
    <3>2. Genuine(Anchor("mandate_in", Order[r], r)) /\ Supported(Anchor("mandate_in", Order[r], r))
      BY <2>1, <3>1, RequestsAssumption DEF Genuine, Supported, Anchor
    <3>3. QED
      BY <2>1, <3>1, <3>2, RequestsAssumption DEF RequiredKinds, Paid
  <2>2. CASE r \in Intakes /\ MandateAnchored(r)
    <3>1. /\ Submit(r, "payment_intake") /\ pc[r] = "mandate_in" /\ r \in settled
          /\ OnTopic(topic, Anchor("mandate_in", Order[r], r))
      BY <2>2 DEF MandateAnchored, Acknowledged, IInv, MoneySound, Paid, Waiting, RequiredKinds
    <3>2. Genuine(Anchor("payment_intake", Order[r], r)) /\ Supported(Anchor("payment_intake", Order[r], r))
      BY <2>2, <3>1, RequestsAssumption DEF Genuine, Supported, Anchor
    <3>3. QED
      BY <2>2, <3>1, <3>2, RequestsAssumption DEF RequiredKinds, Paid, Waiting
  <2>3. CASE r \in Intakes /\ IntakePaymentAnchored(r)
    <3>1. /\ Submit(r, "accepted") /\ pc[r] = "payment_intake" /\ r \in settled
          /\ OnTopic(topic, Anchor("payment_intake", Order[r], r))
      BY <2>3 DEF IntakePaymentAnchored, Acknowledged, IInv, MoneySound, Paid, Waiting, RequiredKinds
    <3>2. Genuine(Anchor("accepted", Order[r], r)) /\ Supported(Anchor("accepted", Order[r], r))
      BY <2>3, <3>1, RequestsAssumption DEF Genuine, Supported, Anchor
    <3>3. QED
      BY <2>3, <3>1, <3>2, RequestsAssumption DEF RequiredKinds, Paid, Waiting
  <2>4. CASE r \in Deliveries /\ DeliverBegins(r)
    <3>1. Submit(r, "delivered") /\ pc[r] = "idle" /\ mem[Order[r]] # None /\ Order[r] \in Orders
      BY <2>4, RequestsAssumption DEF DeliverBegins, MayArrive
    <3>2. Genuine(Anchor("delivered", Order[r], r))
      BY <2>4, RequestsAssumption DEF Genuine, Anchor, Paid
    <3>3. mem[Order[r]].accepted \in Intakes
      BY <3>1, JobThere DEF IInv, Job
    <3>4. Supported(Anchor("delivered", Order[r], r))
      BY <3>1, <3>3, AnchorFields DEF IInv, StoreSound, JobSound, Grounded, Supported
    <3>5. QED
      BY <2>4, <3>1, <3>2, <3>4, RequestsAssumption DEF RequiredKinds, Paid
  <2>5. CASE r \in Collections /\ BalanceAnchored(r)
    <3>1. /\ Submit(r, "receipt") /\ pc[r] = "payment_balance" /\ r \in settled
          /\ OnTopic(topic, Anchor("payment_balance", Order[r], r))
          /\ held[r] # None
      BY <2>5 DEF BalanceAnchored, Acknowledged, IInv, MoneySound, HandlersSound, Paid, Waiting, RequiredKinds
    <3>2. Genuine(Anchor("receipt", Order[r], r)) /\ Supported(Anchor("receipt", Order[r], r))
      BY <2>5, <3>1, RequestsAssumption DEF Genuine, Supported, Anchor
    <3>3. QED
      BY <2>5, <3>1, <3>2, RequestsAssumption DEF RequiredKinds, Paid, Waiting
  <2>6. QED
    BY <2>1, <2>2, <2>3, <2>4, <2>5
<1>2. /\ UNCHANGED <<storeVars, topic, settled, held, faultVars, answers>>
      /\ registry' \subseteq registry
  BY DEF IntakeBegins, IntakeStarts, Claim, MandateAnchored, IntakePaymentAnchored,
         DeliverBegins, BalanceAnchored, moneyVars
<1>3. SubmissionsSupported' /\ LogCaused' /\ HeldSound'
  BY <1>1, <1>2, SubmitLog
<1>4. StoreSound' /\ AnswersSound'
  BY <1>2, QuietStore, QuietAnswers DEF storeVars, answers
<1>5. TypeOK'
  BY <1>1, <1>2, AnchorType
  DEF IInv, TypeOK, Submit, Goto, ProgramCounters, UnderWay, Waiting,
      storeVars, faultVars, answers
<1>6. MoneySound'
  BY <1>1, <1>2, RequestsAssumption
  DEF IInv, TypeOK, MoneySound, Submit, Goto, Waiting, RequiredKinds, Paid, Requests
<1>7. HandlersSound'
  BY <1>1, <1>2, RequestsAssumption
  DEF IInv, TypeOK, HandlersSound, Submit, Goto, Waiting, RequiredKinds, Requests, storeVars
<1>8. RoutesSound'
  BY <1>1, RequestsAssumption
  DEF IInv, TypeOK, RoutesSound, Submit, Goto, Requests
<1>9. QED
  BY <1>3, <1>4, <1>5, <1>6, <1>7, <1>8 DEF IInv

(* A collection's handler reads its job and submits the balance.  Nothing  *)
(* of this collection is on the log or on its way there yet, so what is    *)
(* said of the others' anchors and receipts is untouched.                  *)
LEMMA CollectBeginsStep ==
  ASSUME IInv, NEW c \in Collections, CollectBegins(c)
  PROVE  IInv'
<1> DEFINE new == Anchor("payment_balance", Order[c], c)
<1>1. /\ UNCHANGED <<storeVars, topic, settled, faultVars, answers>>
      /\ Submit(c, "payment_balance")
      /\ registry' \subseteq registry
      /\ pc[c] = "paid" /\ held[c] = None /\ c \in settled
      /\ mem[Order[c]] # None /\ mem[Order[c]].result # None
      /\ held' = [held EXCEPT ![c] = mem[Order[c]]]
      /\ c \in Requests /\ Order[c] \in Orders
      /\ mem[Order[c]] \in Job
  BY RequestsAssumption, JobThere
  DEF CollectBegins, Claim, Delivered, IInv, HandlersSound, MoneySound, Paid, Requests
<1>2. Grounded(Order[c], mem[Order[c]])
  BY <1>1 DEF IInv, StoreSound, JobSound
<1>3. TypeOK'
  BY <1>1, AnchorType
  DEF IInv, TypeOK, Submit, Goto, ProgramCounters, UnderWay, Waiting, RequiredKinds,
      storeVars, faultVars, answers
<1>4. \A b \in Collections : held[b] # None => b # c /\ held'[b] = held[b]
  BY <1>1 DEF IInv, TypeOK
<1>5. SubmissionsSupported'
  <2> SUFFICES ASSUME NEW a \in inflight' PROVE (Genuine(a) /\ Supported(a))'
    BY DEF SubmissionsSupported
  <2>1. CASE a \in inflight
    <3>1. Genuine(a) /\ Supported(a)
      BY <2>1 DEF IInv, SubmissionsSupported
    <3>2. QED
      BY <1>1, <1>4, <3>1 DEF Genuine, Supported
  <2>2. CASE a = new
    <3>1. held'[c] = mem[Order[c]] /\ mem[Order[c]] # None
      BY <1>1 DEF IInv, TypeOK
    <3>2. Genuine(a)'
      BY <1>1, <2>2, <3>1, RequestsAssumption DEF Genuine, Anchor
    <3>3. Supported(a)'
      BY <1>1, <1>2, <2>2, <3>1, AnchorFields DEF Supported, Grounded
    <3>4. QED
      BY <3>2, <3>3
  <2>3. QED
    BY <1>1, <2>1, <2>2 DEF Submit
<1>6. LogCaused'
  BY <1>1, <1>4 DEF IInv, LogCaused, Genuine, Caused
<1>7. HeldSound'
  BY <1>1, <1>2 DEF IInv, TypeOK, HeldSound, Grounded
<1>8. \A rc \in Receipt : Sealed(rc) => Sealed(rc)'
  BY <1>1, <1>4 DEF Sealed, ReceiptOf, Receipt
<1>9. StoreSound'
  BY <1>1, <1>8, JobThere DEF IInv, StoreSound, JobSound, Grounded, Job, storeVars
<1>10. AnswersSound'
  BY <1>1, <1>8 DEF IInv, TypeOK, AnswersSound, answers
<1>11. MoneySound'
  BY <1>1, RequestsAssumption
  DEF IInv, TypeOK, MoneySound, Submit, Goto, Waiting, RequiredKinds, Paid, Requests
<1>12. HandlersSound' /\ RoutesSound'
  BY <1>1, RequestsAssumption
  DEF IInv, TypeOK, HandlersSound, RoutesSound, Submit, Goto, Waiting, RequiredKinds,
      Requests, storeVars
<1>13. QED
  BY <1>3, <1>5, <1>6, <1>7, <1>9, <1>10, <1>11, <1>12 DEF IInv

(* Writing a sound job, whether the file takes it or not, keeps the store  *)
(* sound; the request that wrote it ends.                                  *)
LEMMA PutStep ==
  ASSUME IInv, NEW r \in Requests, NEW job \in Job,
         JobSound(Order[r], job),
         Put(Order[r], job) \/ PutUnwritten(Order[r], job),
         happened' \subseteq Faults,
         UNCHANGED <<logVars, moneyVars, held, crashes>>,
         Goto(r, "done") \/ Goto(r, "failed")
  PROVE  /\ SubmissionsSupported' /\ LogCaused' /\ HeldSound' /\ StoreSound'
         /\ MoneySound' /\ HandlersSound' /\ RoutesSound'
         /\ accepts' \subseteq Intakes /\ receipts' \subseteq Receipt => TypeOK'
<1>1. /\ Order[r] \in Orders
      /\ mem' = [mem EXCEPT ![Order[r]] = job]
      /\ disk' = mem' \/ disk' = disk
      /\ job # None
  BY RequestsAssumption, NoneAssumption DEF Put, PutUnwritten
<1>2. SubmissionsSupported' /\ LogCaused' /\ HeldSound'
  BY QuietLog DEF logVars, moneyVars
<1>3. ASSUME NEW m \in Orders, NEW j, JobSound(m, j)
      PROVE  JobSound(m, j)'
  BY <1>3 DEF JobSound, Grounded, Sealed, ReceiptOf, logVars
<1>4. StoreSound'
  BY <1>1, <1>3 DEF IInv, TypeOK, StoreSound
<1>5. MoneySound'
  BY RequestsAssumption
  DEF IInv, TypeOK, MoneySound, Goto, logVars, moneyVars, Waiting, RequiredKinds, Paid, Requests
<1>6. HandlersSound' /\ RoutesSound'
  BY <1>1, RequestsAssumption
  DEF IInv, TypeOK, HandlersSound, RoutesSound, Goto, Waiting, RequiredKinds, Requests
<1>7. accepts' \subseteq Intakes /\ receipts' \subseteq Receipt => TypeOK'
  BY <1>1 DEF IInv, TypeOK, Goto, ProgramCounters, Ended, logVars, moneyVars
<1>8. QED
  BY <1>2, <1>4, <1>5, <1>6, <1>7

(* An acceptance is put once its anchor is acknowledged.                   *)
LEMMA IntakePutStep ==
  ASSUME IInv, NEW i \in Intakes, IntakeStored(i) \/ IntakeUnwritten(i)
  PROVE  IInv'
<1>1. /\ i \in Requests /\ Order[i] \in Orders
      /\ NewJob(i) \in Job
      /\ OnTopic(topic, Anchor("accepted", Order[i], i))
      /\ UNCHANGED <<logVars, moneyVars, held, crashes>>
      /\ happened' \subseteq Faults
      /\ Put(Order[i], NewJob(i)) \/ PutUnwritten(Order[i], NewJob(i))
      /\ Goto(i, "done") \/ Goto(i, "failed")
      /\ accepts' \subseteq accepts \cup {i} /\ receipts' = receipts
  BY RequestsAssumption
  DEF IInv, TypeOK, IntakeStored, IntakeUnwritten, Acknowledged, NewJob, Job, Requests,
      PutUnwritten, Fault, faultVars, answers
<1>2. JobSound(Order[i], NewJob(i))
  BY <1>1 DEF JobSound, Grounded, NewJob
<1>3. accepts' \subseteq Intakes /\ receipts' \subseteq Receipt
  BY <1>1 DEF IInv, TypeOK
<1>4. AnswersSound'
  BY <1>1 DEF IInv, AnswersSound, Sealed, ReceiptOf, logVars
<1>5. QED
  BY <1>1, <1>2, <1>3, <1>4, PutStep DEF IInv

(* A delivery is added to the job as it is now.                            *)
LEMMA DeliveryPutStep ==
  ASSUME IInv, NEW d \in Deliveries, DeliveryStored(d) \/ DeliveryUnwritten(d)
  PROVE  IInv'
<1>1. /\ d \in Requests /\ Order[d] \in Orders
      /\ pc[d] \in Waiting
      /\ OnTopic(topic, Anchor("delivered", Order[d], d))
      /\ UNCHANGED <<logVars, moneyVars, held, crashes, answers>>
      /\ happened' \subseteq Faults
      /\ Put(Order[d], WithResult(d)) \/ PutUnwritten(Order[d], WithResult(d))
      /\ Goto(d, "done") \/ Goto(d, "failed")
  BY RequestsAssumption
  DEF IInv, TypeOK, DeliveryStored, DeliveryUnwritten, Acknowledged, Requests,
      PutUnwritten, Fault, faultVars, Waiting, RequiredKinds
<1>2. mem[Order[d]] # None /\ mem[Order[d]] \in Job
  BY <1>1, JobThere DEF IInv, HandlersSound
<1>3. WithResult(d) \in Job
  BY <1>2 DEF WithResult, Job
<1>4. JobSound(Order[d], WithResult(d))
  BY <1>1, <1>2 DEF IInv, StoreSound, JobSound, Grounded, WithResult, Job
<1>5. accepts' \subseteq Intakes /\ receipts' \subseteq Receipt
  BY <1>1 DEF IInv, TypeOK, answers
<1>6. AnswersSound'
  BY <1>1, QuietAnswers DEF logVars, answers
<1>7. QED
  BY <1>1, <1>3, <1>4, <1>5, <1>6, PutStep DEF IInv

(* A receipt is added to the job as it is now, sealed from the job read    *)
(* before the balance was anchored.                                        *)
LEMMA ReceiptPutStep ==
  ASSUME IInv, NEW c \in Collections, ReceiptStored(c) \/ ReceiptUnwritten(c)
  PROVE  IInv'
<1>1. /\ c \in Requests /\ Order[c] \in Orders
      /\ pc[c] \in Waiting
      /\ OnTopic(topic, Anchor("receipt", Order[c], c))
      /\ UNCHANGED <<logVars, moneyVars, held, crashes, accepts>>
      /\ happened' \subseteq Faults
      /\ Put(Order[c], WithReceipt(c)) \/ PutUnwritten(Order[c], WithReceipt(c))
      /\ Goto(c, "done") \/ Goto(c, "failed")
      /\ receipts' \subseteq receipts \cup {ReceiptOf(c)}
  BY RequestsAssumption
  DEF IInv, TypeOK, ReceiptStored, ReceiptUnwritten, Acknowledged, Requests,
      PutUnwritten, Fault, faultVars, answers, Waiting, RequiredKinds
<1>2. /\ mem[Order[c]] # None /\ mem[Order[c]] \in Job
      /\ held[c] # None /\ held[c] \in Job
      /\ held[c].result # None /\ Grounded(Order[c], held[c])
  BY <1>1, JobThere DEF IInv, TypeOK, HandlersSound, HeldSound
<1>3. ReceiptOf(c) \in Receipt
  BY <1>1, <1>2 DEF ReceiptOf, Receipt, Job
<1>4. Sealed(ReceiptOf(c)) /\ ReceiptOf(c).order = Order[c]
  BY <1>1, <1>2 DEF Sealed, ReceiptOf
<1>5. WithReceipt(c) \in Job
  BY <1>2, <1>3 DEF WithReceipt, Job
<1>6. JobSound(Order[c], WithReceipt(c))
  BY <1>1, <1>2, <1>4 DEF IInv, StoreSound, JobSound, Grounded, WithReceipt, Job
<1>7. accepts' \subseteq Intakes /\ receipts' \subseteq Receipt
  BY <1>1, <1>3 DEF IInv, TypeOK
<1>8. AnswersSound'
  BY <1>1, <1>4 DEF IInv, AnswersSound, Sealed, ReceiptOf, logVars
<1>9. QED
  BY <1>1, <1>5, <1>6, <1>7, <1>8, PutStep DEF IInv

(* A submission lands, perhaps long after its handler is gone: it goes     *)
(* behind everything it presupposes.                                       *)
LEMMA LandStep ==
  ASSUME IInv, NEW a \in inflight, Land(a)
  PROVE  IInv'
<1>1. /\ UNCHANGED <<storeVars, moneyVars, pc, held, faultVars, answers>>
      /\ topic' = Append(topic, a) /\ inflight' = inflight \ {a}
      /\ topic \in Seq(Anchors) /\ a \in Anchors
  BY DEF Land, IInv, TypeOK
<1>2. /\ DOMAIN topic' = DOMAIN topic \cup {Len(topic) + 1}
      /\ \A n \in DOMAIN topic : topic'[n] = topic[n]
      /\ topic'[Len(topic) + 1] = a
      /\ DOMAIN topic = 1..Len(topic)
      /\ Len(topic) \in Nat
      /\ topic' \in Seq(Anchors)
  BY <1>1, AppendGrows
<1>3. \A b : OnTopic(topic, b) => OnTopic(topic', b)
  BY <1>1, OnTopicGrows
<1>4. OnTopic(topic', a)
  BY <1>2 DEF OnTopic
<1>5. Genuine(a) /\ Supported(a)
  BY DEF IInv, SubmissionsSupported
<1>6. TypeOK'
  BY <1>1, <1>2 DEF IInv, TypeOK, storeVars, moneyVars, faultVars, answers
<1>7. SubmissionsSupported'
  BY <1>1, <1>3 DEF IInv, SubmissionsSupported, Genuine, Supported, moneyVars
<1>8. LogCaused'
  <2> SUFFICES ASSUME NEW n \in DOMAIN topic'
               PROVE  (Genuine(topic[n]) /\ Caused(n))'
    BY DEF LogCaused
  <2>1. CASE n \in DOMAIN topic
    <3>1. Genuine(topic[n]) /\ Caused(n)
      BY <2>1 DEF IInv, LogCaused
    <3>2. \A p \in 1..(n - 1) : topic'[p] = topic[p]
      BY <1>2, <2>1
    <3>3. topic'[n] = topic[n]
      BY <1>2, <2>1
    <3>4. QED
      BY <1>1, <3>1, <3>2, <3>3 DEF Genuine, Caused, moneyVars
  <2>2. CASE n = Len(topic) + 1
    <3>1. \A b : OnTopic(topic, b) => \E p \in 1..(n - 1) : topic'[p] = b
      BY <1>2, <2>2 DEF OnTopic
    <3>2. topic'[n] = a
      BY <1>2, <2>2
    <3>3. QED
      BY <1>1, <1>5, <3>1, <3>2 DEF Genuine, Supported, Caused, moneyVars
  <2>3. QED
    BY <1>2, <2>1, <2>2
<1>9. StoreSound' /\ HeldSound' /\ AnswersSound'
  BY <1>1, <1>3 DEF IInv, StoreSound, HeldSound, AnswersSound, JobSound, Grounded, Sealed,
                    ReceiptOf, storeVars, answers
<1>10. MoneySound' /\ HandlersSound' /\ RoutesSound'
  BY <1>1, <1>3 DEF IInv, MoneySound, HandlersSound, RoutesSound, storeVars, moneyVars
<1>11. QED
  BY <1>6, <1>7, <1>8, <1>9, <1>10 DEF IInv

(* A crash forgets memory, settlements and handlers; the file, the log and *)
(* what is on its way to it stay.                                          *)
LEMMA CrashStep ==
  ASSUME IInv, Crash
  PROVE  IInv'
<1>1. /\ UNCHANGED <<disk, logVars, settled, held, answers>>
      /\ mem' = disk /\ registry' = {}
      /\ pc' = [r \in Requests |-> IF pc[r] \in UnderWay THEN "lost" ELSE pc[r]]
      /\ crashes' \in 0..MaxCrashes
      /\ happened' \subseteq Faults
  BY BoundsAssumption DEF Crash, Fault, IInv, TypeOK
<1>2. SubmissionsSupported' /\ LogCaused' /\ HeldSound'
  BY <1>1, QuietLog DEF logVars
<1>3. StoreSound'
  BY <1>1 DEF IInv, StoreSound, JobSound, Grounded, Sealed, ReceiptOf, logVars
<1>4. AnswersSound'
  BY <1>1, QuietAnswers DEF logVars, answers
<1>5. \A r \in Requests : pc'[r] \notin UnderWay /\ (pc'[r] = pc[r] \/ pc'[r] = "lost")
  BY <1>1 DEF UnderWay, Waiting, RequiredKinds
<1>6. TypeOK'
  BY <1>1 DEF IInv, TypeOK, ProgramCounters, Ended, logVars, answers
<1>7. MoneySound' /\ HandlersSound' /\ RoutesSound'
  BY <1>1, <1>5 DEF IInv, MoneySound, HandlersSound, RoutesSound, UnderWay, Paid, Requests, logVars
<1>8. QED
  BY <1>2, <1>3, <1>4, <1>6, <1>7 DEF IInv
-----------------------------------------------------------------------------
(* The invariant is inductive: every action of the service keeps it.       *)
THEOREM StepIInv == IInv /\ [Next]_vars => IInv'
<1> SUFFICES ASSUME IInv, [Next]_vars PROVE IInv'
  OBVIOUS
<1>1. CASE UNCHANGED vars
  <2>1. UNCHANGED <<storeVars, logVars, moneyVars, pc, held, faultVars, answers>>
    BY <1>1 DEF vars, storeVars, logVars, moneyVars, faultVars, answers
  <2>2. SubmissionsSupported' /\ LogCaused' /\ HeldSound' /\ StoreSound' /\ AnswersSound'
    BY <2>1, QuietLog, QuietStore, QuietAnswers DEF storeVars, logVars, moneyVars, answers
  <2>3. TypeOK' /\ MoneySound' /\ HandlersSound' /\ RoutesSound'
    BY <2>1 DEF IInv, TypeOK, MoneySound, HandlersSound, RoutesSound,
                storeVars, logVars, moneyVars, faultVars, answers
  <2>4. QED
    BY <2>2, <2>3 DEF IInv
<1>2. ASSUME NEW r \in Paid, Gate(r) \/ SettlementExpires(r) PROVE IInv'
  BY <1>2, GateStep
<1>3. ASSUME NEW i \in Intakes, Intake(i) PROVE IInv'
  BY <1>3, QuietStep, RepeatStep, SubmitStep, IntakePutStep DEF Intake, Requests
<1>4. ASSUME NEW d \in Deliveries, Deliver(d) PROVE IInv'
  BY <1>4, QuietStep, SubmitStep, DeliveryPutStep DEF Deliver, Requests
<1>5. ASSUME NEW c \in Collections, Collect(c) PROVE IInv'
  BY <1>5, QuietStep, RepeatStep, GuardPassesStep, CollectBeginsStep, SubmitStep,
     ReceiptPutStep DEF Collect, Requests
<1>6. ASSUME NEW a \in inflight, Land(a) PROVE IInv'
  BY <1>6, LandStep
<1>7. ASSUME NEW r \in Requests, AnchorFails(r) PROVE IInv'
  BY <1>7, QuietStep
<1>8. CASE Crash
  BY <1>8, CrashStep
<1>9. QED
  BY <1>1, <1>2, <1>3, <1>4, <1>5, <1>6, <1>7, <1>8 DEF Next

THEOREM InvariantHolds == Spec => []IInv
BY InitIInv, StepIInv, PTL DEF Spec
=============================================================================
