------------------------- MODULE ContractorOrderly -------------------------
(***************************************************************************)
(* Proofs about orders whose requests come one after the other, for every  *)
(* set of requests and orders and every choice of faults: what the file    *)
(* keeps, what is anchored once and what is paid once.                     *)
(***************************************************************************)
EXTENDS ContractorSafety

-----------------------------------------------------------------------------
(* A request moves from one point of its route to another.                 *)

(* No request reaches again a point at which its anchors were not yet      *)
(* submitted.                                                              *)
LEMMA MoveSubmitted ==
  ASSUME IInv, SubmittedOnce, UNCHANGED <<topic, inflight>>,
         NEW r \in Requests, NEW p, Goto(r, p),
         \A k \in RequiredKinds : NotYet(p, k) => NotYet(pc[r], k)
  PROVE  SubmittedOnce'
<1>1. \A a \in Anchors : NotYet(pc'[a.by], a.kind) => NotYet(pc[a.by], a.kind)
  BY DEF Goto, IInv, TypeOK, Anchors
<1>2. inflight \subseteq Anchors /\ \A n \in DOMAIN topic : topic[n] \in Anchors
  BY DEF IInv, TypeOK
<1>3. QED
  BY <1>1, <1>2 DEF SubmittedOnce

(* A request gets under way only when no other of its order is.            *)
LEMMA MoveExclusive ==
  ASSUME OneAtATime, IInv, Exclusive, NEW r \in Requests, NEW p, Goto(r, p),
         p \in UnderWay => pc[r] \in UnderWay \/ MayArrive(r)
  PROVE  Exclusive'
BY DEF Goto, IInv, TypeOK, Exclusive, MayArrive

(* Moves to the gate, past it, or to an end leave the store and what was   *)
(* read of it alone.                                                       *)
LEMMA MoveHandlers ==
  ASSUME IInv, HandlersAlone, UNCHANGED <<mem, held>>,
         NEW r \in Requests, NEW p, Goto(r, p), p \notin Waiting,
         r \in Collections /\ p \in UnderWay =>
           \/ pc[r] \in UnderWay
           \/ Delivered(mem[Order[r]]) /\ mem[Order[r]].receipt = None
  PROVE  HandlersAlone'
BY DEF Goto, IInv, TypeOK, HandlersAlone, Delivered, Requests

-----------------------------------------------------------------------------
(* One lemma per group of actions with the same frame.                     *)

(* What is asked of every step, besides IInv.                              *)
Orderly ==
  /\ SubmittedOnce
  /\ SettledPastGate
  /\ Exclusive
  /\ HandlersAlone
  /\ FileBehind
  /\ AnswersOnFile
  /\ SubmittersFinish
  /\ PayersFinish

(* The gate and the hook: money moves, the store and the log do not.       *)
LEMMA GateOrderly ==
  ASSUME OneAtATime, OrderlyInv, NEW r \in Paid, Gate(r) \/ SettlementExpires(r)
  PROVE  Orderly'
<1>1. /\ UNCHANGED <<mem, disk, topic, inflight, held, accepts, receipts>>
      /\ r \in Requests
  BY DEF Gate, GateRefuses, GateSettles, GateLosesAnswer, RecordSettlement,
         SettlementExpires, Unclaimed, storeVars, logVars, answers, Paid, Requests
<1>2. \/ UNCHANGED pc
      \/ \E p \in {"refused", "settled", "failed", "paid"} :
           Goto(r, p) /\ pc[r] \in {"gated", "settled", "paid"}
  BY DEF Gate, GateRefuses, GateSettles, GateLosesAnswer, RecordSettlement,
         SettlementExpires, Unclaimed
<1>3. SubmittedOnce'
  <2>1. CASE UNCHANGED pc
    BY <1>1, <2>1 DEF OrderlyInv, SubmittedOnce
  <2>2. ASSUME NEW p \in {"refused", "settled", "failed", "paid"}, Goto(r, p),
               pc[r] \in {"gated", "settled", "paid"}
        PROVE  SubmittedOnce'
    BY <1>1, <2>2, MoveSubmitted DEF OrderlyInv, NotYet
  <2>3. QED
    BY <1>2, <2>1, <2>2
<1>4. Exclusive' /\ HandlersAlone'
  <2>1. CASE UNCHANGED pc
    BY <1>1, <2>1 DEF OrderlyInv, Exclusive, HandlersAlone, Delivered
  <2>2. ASSUME NEW p \in {"refused", "settled", "failed", "paid"}, Goto(r, p),
               pc[r] \in {"gated", "settled", "paid"}
        PROVE  Exclusive' /\ HandlersAlone'
    <3>1. pc[r] \in UnderWay /\ p \notin Waiting
      BY <2>2 DEF UnderWay, Waiting, RequiredKinds
    <3>2. QED
      BY <1>1, <2>2, <3>1, MoveExclusive, MoveHandlers DEF OrderlyInv
  <2>3. QED
    BY <1>2, <2>1, <2>2
<1>5. happened \subseteq happened'
  BY DEF Gate, GateRefuses, GateSettles, GateLosesAnswer, RecordSettlement,
         SettlementExpires, Unclaimed, Fault, faultVars
<1>6. FileBehind' /\ AnswersOnFile'
  BY <1>1, <1>5 DEF OrderlyInv, FileBehind, AnswersOnFile, Keeps
<1>7. SubmittersFinish'
  <2>1. \A q \in Requests : pc[q] \in Waiting => pc'[q] \in Waiting
    BY <1>2 DEF OrderlyInv, IInv, TypeOK, Goto, Waiting, RequiredKinds
  <2>2. \A q : Finished(q) => Finished(q)'
    BY <1>1 DEF Finished
  <2>3. inflight \subseteq Anchors /\ \A n \in DOMAIN topic : topic[n] \in Anchors
    BY DEF OrderlyInv, IInv, TypeOK
  <2>4. QED
    BY <1>1, <1>5, <2>1, <2>2, <2>3 DEF OrderlyInv, SubmittersFinish, Anchors
<1>8. PayersFinish'
  <2> SUFFICES ASSUME happened' \subseteq {"flush"} PROVE PayersFinish'
    BY DEF PayersFinish
  <2>1. /\ \A c \in settled \cap Collections : pc[c] \in UnderWay \/ Finished(c)
        /\ \A q \in Paid : pc[q] = "paid" => q \in registry
    BY <1>5 DEF OrderlyInv, PayersFinish
  <2>2. \A q : Finished(q) => Finished(q)'
    BY <1>1 DEF Finished
  <2>3. r \notin Deliveries /\ settled \subseteq Requests
    BY RequestsAssumption DEF OrderlyInv, IInv, TypeOK, Paid, Requests
  <2>4. ~ GateLosesAnswer(r) /\ ~ SettlementExpires(r) /\ ~ Unclaimed(r)
    BY <2>1 DEF GateLosesAnswer, SettlementExpires, Unclaimed, Fault
  <2>5. CASE GateRefuses(r)
    BY <1>1, <2>1, <2>2, <2>3, <2>5
    DEF PayersFinish, GateRefuses, moneyVars, Goto, OrderlyInv, IInv, TypeOK, SettledPastGate, UnderWay
  <2>6. CASE GateSettles(r)
    BY <1>1, <2>1, <2>2, <2>3, <2>6
    DEF PayersFinish, GateSettles, Goto, OrderlyInv, IInv, TypeOK, UnderWay
  <2>7. CASE RecordSettlement(r)
    BY <1>1, <2>1, <2>2, <2>3, <2>7
    DEF PayersFinish, RecordSettlement, Goto, OrderlyInv, IInv, TypeOK, UnderWay
  <2>8. QED
    BY <2>4, <2>5, <2>6, <2>7 DEF Gate
<1>9. SettledPastGate'
  <2>1. settled' \subseteq settled \cup {r} /\ (UNCHANGED pc => settled' = settled)
    BY DEF OrderlyInv, IInv, TypeOK, Goto, Requests, Paid, Gate, GateRefuses,
           GateSettles, GateLosesAnswer, RecordSettlement, SettlementExpires, Unclaimed, moneyVars
  <2>2. QED
    BY <1>1, <1>2, <2>1 DEF OrderlyInv, IInv, TypeOK, SettledPastGate, Goto, Paid, Requests
<1>10. QED
  BY <1>3, <1>4, <1>6, <1>7, <1>8, <1>9 DEF Orderly
(* A request is sent, or comes to an end without an effect on the store.   *)
LEMMA QuietOrderly ==
  ASSUME OneAtATime, OrderlyInv, NEW r \in Requests, NEW p \in {"gated"} \cup Ended, Goto(r, p),
         UNCHANGED <<mem, disk, topic, inflight, settled, held>>,
         happened \subseteq happened', receipts \subseteq receipts',
         p = "gated" => MayArrive(r),
         p = "gated" /\ r \in Collections => Delivered(mem[Order[r]]) /\ mem[Order[r]].receipt = None,
         pc[r] \in Waiting => "anchor" \in happened',
         r \in Collections => pc[r] \notin {"gated", "settled", "paid"},
         \A q \in Paid : q # r => (q \in registry => q \in registry'),
         AnswersOnFile'
  PROVE  Orderly'
<1>1. inflight \subseteq Anchors /\ (\A n \in DOMAIN topic : topic[n] \in Anchors) /\ settled \subseteq Paid
  BY DEF OrderlyInv, IInv, TypeOK
<1>2. /\ p \notin {"idle", "settled", "paid"} \cup Waiting
      /\ p \in UnderWay => p = "gated"
      /\ \A k : ~ NotYet(p, k) \/ p = "gated"
  BY DEF Ended, UnderWay, Waiting, RequiredKinds, NotYet
<1>3. p = "gated" => pc[r] = "idle"
  BY DEF MayArrive
<1>4. SubmittedOnce' /\ Exclusive' /\ HandlersAlone'
  BY <1>2, <1>3, MoveSubmitted, MoveExclusive, MoveHandlers DEF OrderlyInv, NotYet
<1>5. SettledPastGate'
  BY <1>1, <1>2, <1>3 DEF OrderlyInv, SettledPastGate, IInv, TypeOK, Goto, Paid, Requests
<1>6. FileBehind'
  BY DEF OrderlyInv, FileBehind
<1>7. \A q : Finished(q) => Finished(q)'
  BY DEF Finished
<1>8. \A q \in Requests : q # r => pc'[q] = pc[q]
  BY DEF Goto, OrderlyInv, IInv, TypeOK
<1>9. SubmittersFinish'
  <2> SUFFICES ASSUME (happened \cap {"anchor", "crash"} = {})' PROVE SubmittersFinish'
    BY DEF SubmittersFinish
  <2>1. \A q \in Requests : pc[q] \in Waiting => pc'[q] \in Waiting
    BY <1>8
  <2>2. QED
    BY <1>1, <1>7, <2>1 DEF OrderlyInv, SubmittersFinish, Anchors
<1>10. PayersFinish'
  <2> SUFFICES ASSUME happened' \subseteq {"flush"} PROVE PayersFinish'
    BY DEF PayersFinish
  <2>1. r \in Collections \cap settled => Finished(r)
    BY <1>1 DEF OrderlyInv, PayersFinish, SettledPastGate, UnderWay, Waiting
  <2>2. pc'[r] # "paid"
    BY <1>2 DEF Goto, OrderlyInv, IInv, TypeOK
  <2>3. QED
    BY <1>1, <1>7, <1>8, <2>1, <2>2 DEF OrderlyInv, PayersFinish, Paid, Requests
<1>11. QED
  BY <1>4, <1>5, <1>6, <1>9, <1>10 DEF Orderly

(* Requests that are sent, refused or given up.                            *)
LEMMA RefusalsOrderly ==
  ASSUME OneAtATime, OrderlyInv, NEW r \in Requests,
         \/ r \in Intakes /\ (SendIntake(r) \/ IntakeRefused(r))
         \/ r \in Deliveries /\ (DeliverUnknown(r) \/ DeliverRepeated(r) \/ DeliverRefused(r))
         \/ r \in Collections /\ (GuardRefuses(r) \/ GuardPasses(r) \/ CollectTooEarly(r))
         \/ AnchorFails(r)
  PROVE  Orderly'
<1>1. ~ (r \in Collections /\ CollectTooEarly(r))
  BY DEF OrderlyInv, HandlersAlone, CollectTooEarly, UnderWay
<1>2. /\ UNCHANGED <<mem, disk, topic, inflight, settled, held, answers>>
      /\ happened \subseteq happened'
      /\ \A q \in Paid : q # r => (q \in registry => q \in registry')
  BY <1>1 DEF SendIntake, IntakeRefused, IntakeStarts, Claim, DeliverUnknown, DeliverRepeated,
         DeliverRefused, GuardRefuses, GuardPasses, AnchorFails, Fault,
         storeVars, logVars, moneyVars, faultVars
<1>3. AnswersOnFile'
  BY <1>2 DEF OrderlyInv, AnswersOnFile, answers
<1>4. PICK p \in {"gated"} \cup Ended :
        /\ Goto(r, p)
        /\ p = "gated" => MayArrive(r)
        /\ p = "gated" /\ r \in Collections => Delivered(mem[Order[r]]) /\ mem[Order[r]].receipt = None
        /\ pc[r] \in Waiting => "anchor" \in happened'
        /\ r \in Collections => pc[r] \notin {"gated", "settled", "paid"}
  BY <1>1, RequestsAssumption
  DEF SendIntake, IntakeRefused, IntakeStarts, DeliverUnknown, DeliverRepeated, DeliverRefused,
      GuardRefuses, GuardPasses, AnchorFails, Fault, MayArrive, Ended, Waiting, RequiredKinds
<1>5. QED
  BY <1>2, <1>3, <1>4, QuietOrderly DEF answers

(* A request is answered from what memory holds of its order.              *)
LEMMA RepeatsOrderly ==
  ASSUME OneAtATime, OrderlyInv, NEW r \in Requests,
         \/ r \in Intakes /\ IntakeRepeated(r)
         \/ r \in Collections /\ GuardRepeats(r)
  PROVE  Orderly'
<1>1. /\ UNCHANGED <<mem, disk, topic, inflight, settled, held, happened>>
      /\ Goto(r, "done")
      /\ \A q \in Paid : q # r => (q \in registry => q \in registry')
      /\ receipts \subseteq receipts'
      /\ pc[r] \notin Waiting
      /\ r \in Collections => pc[r] = "idle"
      /\ mem[Order[r]] # None
      /\ Order[r] \in Orders
  BY RequestsAssumption
  DEF IntakeRepeated, IntakeStarts, Claim, GuardRepeats, MayArrive, Waiting, RequiredKinds,
      storeVars, logVars, moneyVars, faultVars
<1>2. JobSound(Order[r], mem[Order[r]])
  BY <1>1 DEF OrderlyInv, IInv, StoreSound
<1>3. AnswersOnFile'
  BY <1>1, <1>2
  DEF OrderlyInv, AnswersOnFile, FileBehind, IntakeRepeated, GuardRepeats, JobSound, Grounded
<1>4. QED
  BY <1>1, <1>3, QuietOrderly DEF Ended
(* A handler submits its next anchor, which it has not submitted before.   *)
LEMMA SubmitOrderly ==
  ASSUME OneAtATime, OrderlyInv, NEW r \in Requests,
         \/ r \in Intakes /\ (IntakeBegins(r) \/ MandateAnchored(r) \/ IntakePaymentAnchored(r))
         \/ r \in Deliveries /\ DeliverBegins(r)
         \/ r \in Collections /\ (CollectBegins(r) \/ BalanceAnchored(r))
  PROVE  Orderly'
<1>1. /\ UNCHANGED <<mem, disk, topic, settled, happened, accepts, receipts>>
      /\ \A q \in Paid : q # r => (q \in registry => q \in registry')
      /\ \A c \in Collections : c # r => held'[c] = held[c]
  BY DEF IntakeBegins, IntakeStarts, Claim, MandateAnchored, IntakePaymentAnchored,
         DeliverBegins, CollectBegins, BalanceAnchored, storeVars, moneyVars, faultVars, answers,
         OrderlyInv, IInv, TypeOK
<1> DEFINE Submits(k) ==
             /\ Submit(r, k)
             /\ NotYet(pc[r], k)
             /\ \A l \in RequiredKinds : NotYet(k, l) => NotYet(pc[r], l)
             /\ ~ NotYet(k, k)
             /\ pc[r] \in UnderWay \/ MayArrive(r)
<1>2. PICK k \in RequiredKinds : Submits(k)
  <2>1. CASE r \in Intakes /\ IntakeBegins(r)
    <3>1. Submits("mandate_in")
      BY <2>1 DEF IntakeBegins, IntakeStarts, NotYet, UnderWay
    <3>2. QED
      BY <3>1 DEF RequiredKinds
  <2>2. CASE r \in Intakes /\ MandateAnchored(r)
    <3>1. Submits("payment_intake")
      BY <2>2 DEF MandateAnchored, Acknowledged, NotYet, UnderWay, Waiting, RequiredKinds
    <3>2. QED
      BY <3>1 DEF RequiredKinds
  <2>3. CASE r \in Intakes /\ IntakePaymentAnchored(r)
    <3>1. Submits("accepted")
      BY <2>3 DEF IntakePaymentAnchored, Acknowledged, NotYet, UnderWay, Waiting, RequiredKinds
    <3>2. QED
      BY <3>1 DEF RequiredKinds
  <2>4. CASE r \in Deliveries /\ DeliverBegins(r)
    <3>1. Submits("delivered")
      BY <2>4 DEF DeliverBegins, MayArrive, NotYet
    <3>2. QED
      BY <3>1 DEF RequiredKinds
  <2>5. CASE r \in Collections /\ CollectBegins(r)
    <3>1. Submits("payment_balance")
      BY <2>5 DEF CollectBegins, NotYet, UnderWay
    <3>2. QED
      BY <3>1 DEF RequiredKinds
  <2>6. CASE r \in Collections /\ BalanceAnchored(r)
    <3>1. Submits("receipt")
      BY <2>6 DEF BalanceAnchored, Acknowledged, NotYet, UnderWay, Waiting, RequiredKinds
    <3>2. QED
      BY <3>1 DEF RequiredKinds
  <2>7. QED
    BY <2>1, <2>2, <2>3, <2>4, <2>5, <2>6
<1>3. /\ k \in Waiting /\ k \in UnderWay
      /\ pc'[r] = k /\ \A q \in Requests : q # r => pc'[q] = pc[q]
      /\ inflight' = inflight \cup {Anchor(k, Order[r], r)}
  BY <1>2 DEF Submit, Goto, OrderlyInv, IInv, TypeOK, Waiting, UnderWay
<1>4. inflight \subseteq Anchors /\ (\A n \in DOMAIN topic : topic[n] \in Anchors) /\ settled \subseteq Paid
  BY DEF OrderlyInv, IInv, TypeOK
<1>5. SubmittedOnce'
  <2>1. \A a \in Anchors : NotYet(pc'[a.by], a.kind) => NotYet(pc[a.by], a.kind)
    BY <1>2, <1>3 DEF Anchors
  <2>2. ~ OnTopic(topic, Anchor(k, Order[r], r))
    BY <1>2, AnchorFields DEF OrderlyInv, SubmittedOnce, OnTopic
  <2>3. \A a \in inflight' : ~ OnTopic(topic, a) /\ ~ NotYet(pc'[a.by], a.kind)
    BY <1>2, <1>3, <1>4, <2>1, <2>2, AnchorFields DEF OrderlyInv, SubmittedOnce
  <2>4. QED
    BY <1>1, <1>4, <2>1, <2>3 DEF OrderlyInv, SubmittedOnce
<1>6. Exclusive'
  BY <1>2, MoveExclusive DEF Submit, OrderlyInv
<1>7. HandlersAlone'
  <2>1. /\ r \in Intakes => mem[Order[r]] = None
        /\ r \in Deliveries => mem[Order[r]].result = None
    BY RequestsAssumption
    DEF IntakeBegins, MandateAnchored, IntakePaymentAnchored, Acknowledged, DeliverBegins,
        Delivered, OrderlyInv, HandlersAlone, Waiting, RequiredKinds
  <2>2. r \in Collections => Delivered(mem[Order[r]]) /\ mem[Order[r]].receipt = None
    BY RequestsAssumption
    DEF CollectBegins, BalanceAnchored, Acknowledged, OrderlyInv, HandlersAlone, UnderWay,
        Waiting, RequiredKinds
  <2>3. r \in Collections => held'[r] = mem[Order[r]]
    BY RequestsAssumption
    DEF CollectBegins, BalanceAnchored, Acknowledged, OrderlyInv, IInv, TypeOK, HandlersAlone, UnderWay,
        Waiting, RequiredKinds
  <2>4. QED
    BY <1>1, <1>3, <2>1, <2>2, <2>3 DEF OrderlyInv, HandlersAlone, Delivered, Requests
<1>8. FileBehind' /\ AnswersOnFile'
  BY <1>1 DEF OrderlyInv, FileBehind, AnswersOnFile
<1>9. SettledPastGate'
  BY <1>1, <1>2, <1>3, <1>4
  DEF OrderlyInv, SettledPastGate, Paid, Requests, RequiredKinds
<1>10. \A q : Finished(q) => Finished(q)'
  BY <1>1 DEF Finished
<1>11. \A q \in Requests : pc[q] \in Waiting => pc'[q] \in Waiting
  BY <1>3
<1>12. SubmittersFinish'
  BY <1>1, <1>3, <1>4, <1>10, <1>11, AnchorFields DEF OrderlyInv, SubmittersFinish, Anchors
<1>13. PayersFinish'
  <2>1. k # "paid"
    BY <1>2 DEF RequiredKinds
  <2>2. QED
    BY <1>1, <1>3, <1>4, <1>10, <2>1 DEF OrderlyInv, PayersFinish, Paid, Requests
<1>14. QED
  BY <1>5, <1>6, <1>7, <1>8, <1>9, <1>12, <1>13 DEF Orderly

(* A submission lands: its anchor leaves those under way.                  *)
LEMMA LandOrderly ==
  ASSUME OrderlyInv, NEW a \in inflight, Land(a)
  PROVE  Orderly'
<1>1. /\ UNCHANGED <<mem, disk, settled, registry, pc, held, happened, accepts, receipts>>
      /\ topic' = Append(topic, a) /\ inflight' = inflight \ {a}
      /\ topic \in Seq(Anchors) /\ a \in Anchors
  BY DEF Land, OrderlyInv, IInv, TypeOK, storeVars, moneyVars, faultVars, answers
<1>2. /\ DOMAIN topic' = DOMAIN topic \cup {Len(topic) + 1}
      /\ \A n \in DOMAIN topic : topic'[n] = topic[n]
      /\ topic'[Len(topic) + 1] = a
  BY <1>1, AppendGrows
<1>3. \A b : OnTopic(topic', b) => OnTopic(topic, b) \/ b = a
  BY <1>1, OnTopicGrows
<1>4. SubmittedOnce'
  <2>1. ~ OnTopic(topic, a) /\ ~ NotYet(pc[a.by], a.kind)
    BY DEF OrderlyInv, SubmittedOnce
  <2>2. \A n, o \in DOMAIN topic' : topic'[n] = topic'[o] => n = o
    BY <1>2, <2>1 DEF OrderlyInv, SubmittedOnce, OnTopic
  <2>3. QED
    BY <1>1, <1>2, <1>3, <2>1, <2>2 DEF OrderlyInv, SubmittedOnce
<1>5. SettledPastGate' /\ Exclusive' /\ HandlersAlone' /\ FileBehind' /\ AnswersOnFile' /\ PayersFinish'
  BY <1>1 DEF OrderlyInv, SettledPastGate, Exclusive, HandlersAlone, FileBehind, AnswersOnFile,
              PayersFinish, Finished
<1>6. SubmittersFinish'
  BY <1>1, <1>2 DEF OrderlyInv, SubmittersFinish, Finished
<1>7. QED
  BY <1>4, <1>5, <1>6 DEF Orderly

(* A crash takes memory back to the file, and every request under way.     *)
LEMMA CrashOrderly ==
  ASSUME OrderlyInv, Crash
  PROVE  Orderly'
<1>1. /\ UNCHANGED <<disk, topic, inflight, settled, held, accepts, receipts>>
      /\ mem' = disk
      /\ happened \subseteq happened' /\ "crash" \in happened'
      /\ pc' = [r \in Requests |-> IF pc[r] \in UnderWay THEN "lost" ELSE pc[r]]
  BY DEF Crash, Fault, logVars, answers
<1>2. \A r \in Requests :
        /\ pc'[r] \notin UnderWay
        /\ pc'[r] \in {"idle", "gated"} => pc[r] \in {"idle", "gated"}
        /\ \A k : NotYet(pc'[r], k) => NotYet(pc[r], k)
  BY <1>1 DEF UnderWay, Waiting, RequiredKinds, NotYet
<1>3. inflight \subseteq Anchors /\ (\A n \in DOMAIN topic : topic[n] \in Anchors) /\ settled \subseteq Paid
  BY DEF OrderlyInv, IInv, TypeOK
<1>4. SubmittedOnce'
  BY <1>1, <1>2, <1>3 DEF OrderlyInv, SubmittedOnce, Anchors
<1>5. SettledPastGate' /\ Exclusive' /\ HandlersAlone'
  BY <1>1, <1>2, <1>3 DEF OrderlyInv, SettledPastGate, Exclusive, HandlersAlone, UnderWay, Paid, Requests
<1>6. FileBehind' /\ AnswersOnFile'
  BY <1>1 DEF OrderlyInv, FileBehind, AnswersOnFile, Keeps
<1>7. SubmittersFinish' /\ PayersFinish'
  BY <1>1 DEF SubmittersFinish, PayersFinish
<1>8. QED
  BY <1>4, <1>5, <1>6, <1>7 DEF Orderly
(* No step takes back what the file has.                                   *)
FileKept == \A m \in Orders : Keeps(disk[m], disk'[m])

(* A handler puts a job that keeps the one it found, and ends.             *)
LEMMA PutOrderly ==
  ASSUME OneAtATime, OrderlyInv, NEW r \in Requests, pc[r] \in Waiting, NEW job \in Job,
         \/ Put(Order[r], job) /\ Goto(r, "done") /\ happened' = happened
         \/ PutUnwritten(Order[r], job) /\ Goto(r, "failed"),
         UNCHANGED <<topic, inflight, settled, registry, held>>,
         receipts \subseteq receipts',
         Keeps(mem[Order[r]], job),
         r \in Intakes => job.accepted = r,
         r \in Deliveries => job.result = r,
         r \in Collections => job.receipt # None /\ job.receipt.balance = r,
         "flush" \notin happened' /\ job.receipt # None => job.receipt \in receipts',
         AnswersOnFile'
  PROVE  Orderly' /\ FileKept
<1>1. /\ Order[r] \in Orders
      /\ job # None
      /\ mem' = [mem EXCEPT ![Order[r]] = job]
      /\ mem'[Order[r]] = job
      /\ \A m \in Orders : m # Order[r] => mem'[m] = mem[m]
      /\ happened \subseteq happened'
      /\ "flush" \notin happened' => disk' = mem' /\ happened' = happened
      /\ disk' = mem' \/ disk' = disk
  BY RequestsAssumption, NoneAssumption DEF Put, PutUnwritten, Fault, OrderlyInv, IInv, TypeOK
<1>2. PICK p \in {"done", "failed"} : Goto(r, p)
  OBVIOUS
<1>3. /\ pc'[r] = p /\ \A q \in Requests : q # r => pc'[q] = pc[q]
      /\ p \notin UnderWay /\ p \notin Waiting /\ p \notin {"idle", "gated", "paid"}
      /\ \A k : ~ NotYet(p, k)
  BY <1>2 DEF Goto, OrderlyInv, IInv, TypeOK, UnderWay, Waiting, RequiredKinds, NotYet
<1>4. inflight \subseteq Anchors /\ (\A n \in DOMAIN topic : topic[n] \in Anchors) /\ settled \subseteq Paid
  BY DEF OrderlyInv, IInv, TypeOK
<1>5. SubmittedOnce' /\ Exclusive'
  BY <1>2, <1>3, MoveSubmitted, MoveExclusive DEF OrderlyInv
<1>6. HandlersAlone'
  <2>1. \A q \in Requests : pc'[q] \in UnderWay => q # r /\ Order[q] # Order[r] /\ Order[q] \in Orders
    BY <1>3, RequestsAssumption DEF OrderlyInv, Exclusive, UnderWay
  <2>2. \A q \in Requests : pc'[q] \in UnderWay => pc'[q] = pc[q] /\ mem'[Order[q]] = mem[Order[q]]
    BY <1>1, <1>3, <2>1
  <2>3. QED
    BY <2>2 DEF OrderlyInv, HandlersAlone, Delivered, Requests, UnderWay
<1>7. FileBehind'
  <2>1. \A m \in Orders : Keeps(mem[m], mem'[m])
    BY <1>1 DEF Keeps
  <2>2. \A m \in Orders : Keeps(disk'[m], mem'[m])
    BY <1>1, <2>1 DEF OrderlyInv, FileBehind, Keeps
  <2>3. QED
    BY <1>1, <2>2 DEF OrderlyInv, FileBehind
<1>8. FileKept
  <2>1. \A m \in Orders : Keeps(disk[m], mem[m]) /\ Keeps(disk[m], disk[m])
    BY DEF OrderlyInv, FileBehind, Keeps
  <2>2. \A m \in Orders : Keeps(disk[m], mem'[m])
    BY <1>1, <2>1 DEF Keeps
  <2>3. QED
    BY <1>1, <2>1, <2>2 DEF FileKept
<1>9. \A q \in Requests : Finished(q) => Finished(q)'
  <2> SUFFICES ASSUME NEW q \in Requests, Finished(q) PROVE Finished(q)'
    OBVIOUS
  <2>1. CASE Order[q] = Order[r]
    BY <1>1, <2>1, NoneAssumption DEF Finished, Keeps, Requests
  <2>2. CASE Order[q] # Order[r]
    BY <1>1, <2>2, RequestsAssumption DEF Finished
  <2>3. QED
    BY <2>1, <2>2
<1>10. Finished(r)'
  BY <1>1 DEF Finished
<1>11. SubmittersFinish'
  BY <1>1, <1>3, <1>4, <1>9, <1>10 DEF OrderlyInv, SubmittersFinish, Anchors
<1>12. PayersFinish'
  BY <1>1, <1>3, <1>4, <1>9, <1>10 DEF OrderlyInv, PayersFinish, Paid, Requests
<1>13. SettledPastGate'
  BY <1>3, <1>4 DEF OrderlyInv, SettledPastGate, Paid, Requests
<1>14. QED
  BY <1>5, <1>6, <1>7, <1>11, <1>12, <1>13, <1>8 DEF Orderly

(* An acceptance is put where there was no job.                            *)
LEMMA IntakePutOrderly ==
  ASSUME OneAtATime, OrderlyInv, NEW i \in Intakes, IntakeStored(i) \/ IntakeUnwritten(i)
  PROVE  Orderly' /\ FileKept
<1>1. /\ i \in Requests /\ Order[i] \in Orders /\ i \notin Deliveries /\ i \notin Collections
      /\ NewJob(i) \in Job /\ NewJob(i).accepted = i /\ NewJob(i).receipt = None
      /\ pc[i] \in Waiting
      /\ UNCHANGED <<topic, inflight, settled, registry, held, receipts>>
      /\ \/ /\ Put(Order[i], NewJob(i)) /\ Goto(i, "done") /\ happened' = happened
            /\ accepts' = accepts \cup {i}
         \/ PutUnwritten(Order[i], NewJob(i)) /\ Goto(i, "failed")
  BY RequestsAssumption
  DEF IntakeStored, IntakeUnwritten, Acknowledged, NewJob, Job, Requests, Waiting, RequiredKinds,
      logVars, moneyVars, faultVars, answers
<1>2. mem[Order[i]] = None
  BY <1>1 DEF OrderlyInv, HandlersAlone
<1>3. Keeps(mem[Order[i]], NewJob(i))
  BY <1>2 DEF Keeps
<1>4. AnswersOnFile'
  <2> SUFFICES ASSUME "flush" \notin happened' PROVE AnswersOnFile'
    BY DEF AnswersOnFile
  <2>1. /\ Put(Order[i], NewJob(i)) /\ happened' = happened /\ accepts' = accepts \cup {i}
        /\ mem = disk
    BY <1>1 DEF PutUnwritten, Fault, OrderlyInv, FileBehind
  <2>2. disk' = [mem EXCEPT ![Order[i]] = NewJob(i)] /\ NewJob(i) # None
    BY <1>1, <2>1, NoneAssumption DEF Put
  <2>3. \A m \in Orders : disk[m] # None => disk'[m] = disk[m]
    BY <1>2, <2>1, <2>2 DEF OrderlyInv, IInv, TypeOK
  <2>4. disk'[Order[i]] = NewJob(i)
    BY <1>1, <2>2 DEF OrderlyInv, IInv, TypeOK
  <2>5. accepts \subseteq Requests /\ receipts \subseteq Receipt
    BY DEF OrderlyInv, IInv, TypeOK, Requests
  <2>6. QED
    BY <1>1, <2>1, <2>2, <2>3, <2>4, <2>5, RequestsAssumption DEF OrderlyInv, AnswersOnFile, Receipt
<1>5. QED
  BY <1>1, <1>3, <1>4, PutOrderly

(* A delivery is put where there was none.                                 *)
LEMMA DeliveryPutOrderly ==
  ASSUME OneAtATime, OrderlyInv, NEW d \in Deliveries, DeliveryStored(d) \/ DeliveryUnwritten(d)
  PROVE  Orderly' /\ FileKept
<1>1. /\ d \in Requests /\ Order[d] \in Orders /\ d \notin Intakes /\ d \notin Collections
      /\ pc[d] \in Waiting
      /\ UNCHANGED <<topic, inflight, settled, registry, held, accepts, receipts>>
      /\ \/ Put(Order[d], WithResult(d)) /\ Goto(d, "done") /\ happened' = happened
         \/ PutUnwritten(Order[d], WithResult(d)) /\ Goto(d, "failed")
  BY RequestsAssumption
  DEF DeliveryStored, DeliveryUnwritten, Acknowledged, Requests, Waiting, RequiredKinds,
      logVars, moneyVars, faultVars, answers
<1>2. mem[Order[d]] # None /\ mem[Order[d]] \in Job /\ mem[Order[d]].result = None
  BY <1>1, JobThere DEF OrderlyInv, IInv, HandlersSound, HandlersAlone
<1>3. /\ WithResult(d) \in Job
      /\ WithResult(d).result = d
      /\ WithResult(d).accepted = mem[Order[d]].accepted
      /\ WithResult(d).receipt = mem[Order[d]].receipt
  BY <1>2 DEF WithResult, Job
<1>4. Keeps(mem[Order[d]], WithResult(d))
  BY <1>2, <1>3, NoneAssumption DEF Keeps
<1>5. "flush" \notin happened' =>
        /\ disk' = [disk EXCEPT ![Order[d]] = WithResult(d)]
        /\ mem = disk
        /\ happened' = happened
  BY <1>1 DEF Put, PutUnwritten, Fault, OrderlyInv, FileBehind
<1>6. AnswersOnFile'
  <2> SUFFICES ASSUME "flush" \notin happened' PROVE AnswersOnFile'
    BY DEF AnswersOnFile
  <2>1. \A m \in Orders : disk[m] # None =>
          disk'[m] # None /\ disk'[m].accepted = disk[m].accepted /\ disk'[m].receipt = disk[m].receipt
    BY <1>3, <1>5, NoneAssumption DEF OrderlyInv, IInv, TypeOK
  <2>2. accepts \subseteq Requests /\ receipts \subseteq Receipt
    BY DEF OrderlyInv, IInv, TypeOK, Requests
  <2>3. QED
    BY <1>1, <1>5, <2>1, <2>2, RequestsAssumption DEF OrderlyInv, AnswersOnFile, Receipt
<1>7. "flush" \notin happened' /\ WithResult(d).receipt # None => WithResult(d).receipt \in receipts'
  BY <1>1, <1>2, <1>3, <1>5 DEF OrderlyInv, FileBehind
<1>8. QED
  BY <1>1, <1>3, <1>4, <1>6, <1>7, PutOrderly

(* A receipt is put where there was none, over the job it was sealed from. *)
LEMMA ReceiptPutOrderly ==
  ASSUME OneAtATime, OrderlyInv, NEW c \in Collections, ReceiptStored(c) \/ ReceiptUnwritten(c)
  PROVE  Orderly' /\ FileKept
<1>1. /\ c \in Requests /\ Order[c] \in Orders /\ c \notin Intakes /\ c \notin Deliveries
      /\ pc[c] \in Waiting
      /\ UNCHANGED <<topic, inflight, settled, registry, held, accepts>>
      /\ receipts \subseteq receipts'
      /\ \/ /\ Put(Order[c], WithReceipt(c)) /\ Goto(c, "done") /\ happened' = happened
            /\ receipts' = receipts \cup {ReceiptOf(c)}
         \/ PutUnwritten(Order[c], WithReceipt(c)) /\ Goto(c, "failed")
  BY RequestsAssumption
  DEF ReceiptStored, ReceiptUnwritten, Acknowledged, Requests, Waiting, RequiredKinds,
      logVars, moneyVars, faultVars, answers
<1>2. /\ mem[Order[c]] # None /\ mem[Order[c]] \in Job
      /\ held[c] = mem[Order[c]] /\ mem[Order[c]].receipt = None
      /\ mem[Order[c]].result # None
  BY <1>1, JobThere DEF OrderlyInv, IInv, HandlersSound, HandlersAlone, UnderWay, Delivered
<1>3. /\ ReceiptOf(c) \in Receipt /\ ReceiptOf(c) # None
      /\ ReceiptOf(c).balance = c /\ ReceiptOf(c).order = Order[c]
  BY <1>1, <1>2, NoneAssumption DEF ReceiptOf, Receipt, Job
<1>4. /\ WithReceipt(c) \in Job
      /\ WithReceipt(c).receipt = ReceiptOf(c)
      /\ WithReceipt(c).accepted = mem[Order[c]].accepted
      /\ WithReceipt(c).result = mem[Order[c]].result
  BY <1>2, <1>3 DEF WithReceipt, Job
<1>5. Keeps(mem[Order[c]], WithReceipt(c))
  BY <1>2, <1>4, NoneAssumption DEF Keeps
<1>6. "flush" \notin happened' =>
        /\ disk' = [disk EXCEPT ![Order[c]] = WithReceipt(c)]
        /\ mem = disk
        /\ happened' = happened
        /\ receipts' = receipts \cup {ReceiptOf(c)}
  BY <1>1 DEF Put, PutUnwritten, Fault, OrderlyInv, FileBehind
<1>7. AnswersOnFile'
  <2> SUFFICES ASSUME "flush" \notin happened' PROVE AnswersOnFile'
    BY DEF AnswersOnFile
  <2>1. \A m \in Orders : disk[m] # None =>
          /\ disk'[m] # None /\ disk'[m].accepted = disk[m].accepted
          /\ disk[m].receipt # None => disk'[m].receipt = disk[m].receipt
    BY <1>2, <1>4, <1>6, NoneAssumption DEF OrderlyInv, IInv, TypeOK
  <2>2. disk'[Order[c]] # None /\ disk'[Order[c]].receipt = ReceiptOf(c)
    BY <1>1, <1>4, <1>6, NoneAssumption DEF OrderlyInv, IInv, TypeOK
  <2>3. accepts \subseteq Requests /\ receipts \subseteq Receipt
    BY DEF OrderlyInv, IInv, TypeOK, Requests
  <2>4. /\ \A i \in accepts : disk'[Order[i]] # None /\ disk'[Order[i]].accepted = i
        /\ \A rc \in receipts : disk'[rc.order] # None /\ disk'[rc.order].receipt = rc
    BY <1>6, <2>1, <2>3, RequestsAssumption, NoneAssumption DEF OrderlyInv, AnswersOnFile, Receipt
  <2>5. QED
    BY <1>1, <1>3, <1>6, <2>2, <2>4 DEF AnswersOnFile
<1>8. "flush" \notin happened' => WithReceipt(c).receipt \in receipts'
  BY <1>4, <1>6
<1>9. QED
  BY <1>1, <1>3, <1>4, <1>5, <1>7, <1>8, PutOrderly-----------------------------------------------------------------------------
LEMMA InitOrderly == Init => Orderly
<1> SUFFICES ASSUME Init PROVE Orderly
  OBVIOUS
<1> USE DEF Init
<1>1. SubmittedOnce /\ SettledPastGate
  BY DEF SubmittedOnce, SettledPastGate
<1>2. Exclusive /\ HandlersAlone
  BY DEF Exclusive, HandlersAlone, UnderWay, Waiting, RequiredKinds, Requests
<1>3. FileBehind /\ AnswersOnFile
  BY DEF FileBehind, AnswersOnFile, Keeps
<1>4. SubmittersFinish /\ PayersFinish
  BY DEF SubmittersFinish, PayersFinish, Paid, Requests
<1>5. QED
  BY <1>1, <1>2, <1>3, <1>4 DEF Orderly

(* The invariant is inductive, and no step takes back what the file has.   *)
LEMMA StepOrderly ==
  ASSUME OneAtATime, OrderlyInv, [Next]_vars
  PROVE  Orderly' /\ FileKept
<1>0. UNCHANGED disk => FileKept
  BY DEF FileKept, Keeps
<1>1. CASE UNCHANGED vars
  BY <1>0, <1>1
  DEF vars, OrderlyInv, Orderly, SubmittedOnce, SettledPastGate, Exclusive, HandlersAlone,
      FileBehind, AnswersOnFile, SubmittersFinish, PayersFinish, Finished
<1>2. ASSUME NEW r \in Paid, Gate(r) \/ SettlementExpires(r)
      PROVE  Orderly' /\ FileKept
  <2>1. UNCHANGED disk
    BY <1>2 DEF Gate, GateRefuses, GateSettles, GateLosesAnswer, RecordSettlement,
           SettlementExpires, Unclaimed, storeVars
  <2>2. QED
    BY <1>0, <1>2, <2>1, GateOrderly
<1>3. ASSUME NEW i \in Intakes, Intake(i) PROVE Orderly' /\ FileKept
  <2>1. CASE IntakeStored(i) \/ IntakeUnwritten(i)
    BY <2>1, IntakePutOrderly
  <2>2. CASE ~ (IntakeStored(i) \/ IntakeUnwritten(i))
    <3>1. UNCHANGED disk
      BY <1>3, <2>2 DEF Intake, SendIntake, IntakeRefused, IntakeRepeated, IntakeBegins,
             MandateAnchored, IntakePaymentAnchored, storeVars
    <3>2. i \in Requests
      BY DEF Requests
    <3>3. CASE SendIntake(i) \/ IntakeRefused(i)
      BY <1>0, <3>1, <3>2, <3>3, RefusalsOrderly
    <3>4. CASE IntakeRepeated(i)
      BY <1>0, <3>1, <3>2, <3>4, RepeatsOrderly
    <3>5. CASE IntakeBegins(i) \/ MandateAnchored(i) \/ IntakePaymentAnchored(i)
      BY <1>0, <3>1, <3>2, <3>5, SubmitOrderly
    <3>6. QED
      BY <1>3, <2>2, <3>3, <3>4, <3>5 DEF Intake
  <2>3. QED
    BY <2>1, <2>2
<1>4. ASSUME NEW d \in Deliveries, Deliver(d) PROVE Orderly' /\ FileKept
  <2>1. CASE DeliveryStored(d) \/ DeliveryUnwritten(d)
    BY <2>1, DeliveryPutOrderly
  <2>2. CASE ~ (DeliveryStored(d) \/ DeliveryUnwritten(d))
    <3>1. UNCHANGED disk
      BY <1>4, <2>2 DEF Deliver, DeliverUnknown, DeliverRepeated, DeliverRefused, DeliverBegins, storeVars
    <3>2. QED
      BY <1>0, <1>4, <2>2, <3>1, RefusalsOrderly, SubmitOrderly DEF Deliver, Requests
  <2>3. QED
    BY <2>1, <2>2
<1>5. ASSUME NEW c \in Collections, Collect(c) PROVE Orderly' /\ FileKept
  <2>1. CASE ReceiptStored(c) \/ ReceiptUnwritten(c)
    BY <2>1, ReceiptPutOrderly
  <2>2. CASE ~ (ReceiptStored(c) \/ ReceiptUnwritten(c))
    <3>1. UNCHANGED disk
      BY <1>5, <2>2 DEF Collect, GuardRefuses, GuardRepeats, GuardPasses, CollectTooEarly,
             CollectBegins, BalanceAnchored, storeVars
    <3>2. QED
      BY <1>0, <1>5, <2>2, <3>1, RefusalsOrderly, RepeatsOrderly, SubmitOrderly DEF Collect, Requests
  <2>3. QED
    BY <2>1, <2>2
<1>6. ASSUME NEW a \in inflight, Land(a) PROVE Orderly' /\ FileKept
  BY <1>0, <1>6, LandOrderly DEF Land, storeVars
<1>7. ASSUME NEW r \in Requests, AnchorFails(r) PROVE Orderly' /\ FileKept
  BY <1>0, <1>7, RefusalsOrderly DEF AnchorFails, storeVars
<1>8. CASE Crash
  BY <1>0, <1>8, CrashOrderly DEF Crash
<1>9. QED
  BY <1>1, <1>2, <1>3, <1>4, <1>5, <1>6, <1>7, <1>8 DEF Next

(* While the requests of an order come one after the other, a handler      *)
(* finds the store as it was when it looked, the file lacks only what a    *)
(* failed write kept from it, and whoever anchored or paid is at work or   *)
(* has finished, unless a fault cut it off.                                *)
THEOREM OrderlyHolds == ASSUME OneAtATime PROVE Spec => []OrderlyInv
<1>1. OrderlyInv <=> IInv /\ Orderly
  BY DEF OrderlyInv, Orderly
<1>2. Init => OrderlyInv
  BY <1>1, InitIInv, InitOrderly
<1>3. OrderlyInv /\ [Next]_vars => OrderlyInv'
  <2> SUFFICES ASSUME OrderlyInv, [Next]_vars PROVE OrderlyInv'
    OBVIOUS
  <2>1. IInv' /\ Orderly'
    BY <1>1, StepIInv, StepOrderly
  <2>2. QED
    BY <2>1 DEF OrderlyInv, Orderly
<1>4. QED
  BY <1>2, <1>3, PTL DEF Spec
-----------------------------------------------------------------------------
(* Whatever fails, the store file forgets no job and replaces none of its  *)
(* parts while the requests of an order do not overlap.                    *)
THEOREM FileKeepsJobsHolds == ASSUME OneAtATime PROVE Spec => FileKeepsJobs
<1>1. OrderlyInv /\ [Next]_vars => [\A m \in Orders : Keeps(disk[m], disk'[m])]_vars
  BY StepOrderly DEF FileKept
<1>2. QED
  BY <1>1, OrderlyHolds, PTL DEF Spec, FileKeepsJobs

(* What a customer holds is what the file has, unless a write failed.      *)
THEOREM AnswersOnFileHolds == ASSUME OneAtATime PROVE Spec => []AnswersOnFile
<1>1. OrderlyInv => AnswersOnFile
  BY DEF OrderlyInv
<1>2. QED
  BY <1>1, OrderlyHolds, PTL

(* Of two requests of one route that are still at work or have finished,   *)
(* the second found what the first had put.                                *)
LEMMA OneAtWork ==
  ASSUME OrderlyInv, NEW q, NEW r, Order[q] = Order[r],
         pc[q] \in Waiting \/ Finished(q), pc[r] \in Waiting \/ Finished(r),
         \/ q \in Intakes /\ r \in Intakes
         \/ q \in Deliveries /\ r \in Deliveries
         \/ q \in Collections /\ r \in Collections
  PROVE  q = r
<1>1. q \in Requests /\ r \in Requests /\ None \notin Deliveries
  BY NoneAssumption DEF Requests
<1>2. CASE pc[q] \in Waiting /\ pc[r] \in Waiting
  BY <1>1, <1>2 DEF OrderlyInv, Exclusive, UnderWay
<1>3. CASE pc[q] \in Waiting /\ Finished(r)
  BY <1>1, <1>3 DEF OrderlyInv, HandlersAlone, Finished, UnderWay
<1>4. CASE Finished(q) /\ pc[r] \in Waiting
  BY <1>1, <1>4 DEF OrderlyInv, HandlersAlone, Finished, UnderWay
<1>5. CASE Finished(q) /\ Finished(r)
  BY <1>5 DEF Finished
<1>6. QED
  BY <1>2, <1>3, <1>4, <1>5

(* No step of an order is on the log twice, unless a submission was        *)
(* abandoned.                                                              *)
LEMMA AnchoredOnceFromInv == OrderlyInv => AnchoredOnce
<1> SUFFICES ASSUME OrderlyInv, happened \cap {"anchor", "crash"} = {},
                    NEW m \in Orders, NEW k \in RequiredKinds,
                    NEW n \in PositionsOf(topic, m, k), NEW o \in PositionsOf(topic, m, k)
             PROVE  n = o
  BY DEF AnchoredOnce, Ambiguous
<1>1. /\ n \in DOMAIN topic /\ o \in DOMAIN topic
      /\ topic[n].order = m /\ topic[n].kind = k /\ topic[o].order = m /\ topic[o].kind = k
  BY DEF PositionsOf
<1> DEFINE q == topic[n].by
           r == topic[o].by
<1>2. topic[n] = Anchor(k, Order[q], q) /\ topic[o] = Anchor(k, Order[r], r)
  BY <1>1 DEF OrderlyInv, IInv, LogCaused, Genuine
<1>3. Order[q] = m /\ Order[r] = m
  BY <1>1, <1>2, AnchorFields
<1>4. \/ q \in Intakes /\ r \in Intakes
      \/ q \in Deliveries /\ r \in Deliveries
      \/ q \in Collections /\ r \in Collections
  BY <1>1 DEF OrderlyInv, IInv, LogCaused, Genuine, RequiredKinds
<1>5. (pc[q] \in Waiting \/ Finished(q)) /\ (pc[r] \in Waiting \/ Finished(r))
  BY <1>1 DEF OrderlyInv, SubmittersFinish
<1>6. q = r
  BY <1>3, <1>4, <1>5, OneAtWork
<1>7. QED
  BY <1>1, <1>2, <1>6 DEF OrderlyInv, SubmittedOnce

(* No step of an order is anchored twice, unless an earlier submission was *)
(* given up or the service crashed.                                        *)
THEOREM AnchoredOnceHolds == ASSUME OneAtATime PROVE Spec => []AnchoredOnce
BY OrderlyHolds, AnchoredOnceFromInv, PTL

(* The balance of an order is charged once, unless the earlier charge was  *)
(* lost on the way to its receipt.                                         *)
THEOREM BalancePaidOnceHolds == ASSUME OneAtATime PROVE Spec => []BalancePaidOnce
<1>1. OrderlyInv => BalancePaidOnce
  <2> SUFFICES ASSUME OrderlyInv, happened \subseteq {"flush"},
                      NEW b \in settled \cap Collections, NEW c \in settled \cap Collections,
                      Order[b] = Order[c]
               PROVE  b = c
    BY DEF BalancePaidOnce
  <2>1. b \in Requests /\ c \in Requests
    BY DEF Requests
  <2>2. (pc[b] \in UnderWay \/ Finished(b)) /\ (pc[c] \in UnderWay \/ Finished(c))
    BY DEF OrderlyInv, PayersFinish
  <2>3. QED
    BY <2>1, <2>2 DEF OrderlyInv, Exclusive, HandlersAlone, Finished
<1>2. QED
  BY <1>1, OrderlyHolds, PTL

(* The one thing a paid balance asks of the customer.                      *)
OnePayerEach == \A q, r \in Paid : Order[q] = Order[r] => Payer[q] = Payer[r]

(* Without faults, whoever pays the balance of an order paid by one        *)
(* account leaves with a receipt for that payment which checks out.        *)
THEOREM BalanceEarnsReceiptHolds ==
  ASSUME OneAtATime, OnePayerEach PROVE Spec => []BalanceEarnsReceipt
<1>1. OrderlyInv => BalanceEarnsReceipt
  <2> SUFFICES ASSUME OrderlyInv, happened = {}, NEW c \in settled \cap Collections,
                      pc[c] \in Ended
               PROVE  \E rc \in receipts : rc.balance = c /\ Verifies(topic, settled, rc)
    BY DEF BalanceEarnsReceipt
  <2> DEFINE m == Order[c]
             rc == mem[m].receipt
  <2>1. pc[c] \notin UnderWay
    BY DEF Ended, UnderWay, Waiting, RequiredKinds
  <2>2. mem[m] # None /\ rc # None /\ rc.balance = c
    BY <2>1 DEF OrderlyInv, PayersFinish, Finished
  <2>3. m \in Orders /\ mem[m] \in Job
    BY <2>2, RequestsAssumption, JobThere DEF OrderlyInv, IInv, Requests
  <2>4. rc \in receipts
    BY <2>2, <2>3 DEF OrderlyInv, FileBehind
  <2>5. rc \in Receipt /\ Sealed(rc)
    BY <2>2, <2>3 DEF OrderlyInv, IInv, StoreSound, JobSound, Job
  <2>6. Order[rc.intake] = rc.order /\ Order[rc.balance] = rc.order
    BY <2>5, SealedChain DEF OrderlyInv, IInv, ReceiptOnTopic, Sealed
  <2>7. Payer[rc.balance] = PayerOf(rc)
    BY <2>5, <2>6 DEF OnePayerEach, Receipt, Paid, PayerOf
  <2>8. ~ Ambiguous(topic, rc.order)
    BY <2>5, AnchoredOnceFromInv DEF AnchoredOnce, Receipt
  <2>9. Verifies(topic, settled, rc)
    BY <2>4, <2>7, <2>8, VerifiesFromInv DEF OrderlyInv, UnambiguousVerifies
  <2>10. QED
    BY <2>2, <2>4, <2>9
<1>2. QED
  BY <1>1, OrderlyHolds, PTL
=============================================================================
