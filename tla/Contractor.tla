----------------------------- MODULE Contractor -----------------------------
(***************************************************************************)
(* The contractor service (src/contractor/server.ts with its job store in  *)
(* src/contractor/store.ts): one process that takes paid work orders,      *)
(* records the delivery and releases paid delivery receipts, anchoring     *)
(* every step on the audit topic.                                          *)
(*                                                                         *)
(* A request is one HTTP request.  Its handler runs without interruption   *)
(* between two awaits, so an action is one such stretch of code; the       *)
(* awaits are the x402 payment gate and the submission of an anchor.  The  *)
(* attributes of a request (what it asks for, which order it names, who    *)
(* pays for it) are constants; whether and when it is sent is not.         *)
(***************************************************************************)
EXTENDS VerifierChecks

CONSTANTS
  Orders,       \* mandate ids
  Intakes,      \* requests  POST /mandates
  Deliveries,   \* requests  POST /mandates/:id/deliver
  Collections,  \* requests  GET /mandates/:id/receipt
  Order,        \* the mandate id each request names
  Malformed,    \* requests whose body the handler does not accept
  OneAtATime,   \* TRUE: an order has at most one request under way at a time
  Faults,       \* which of FaultKinds may happen
  MaxCrashes,   \* bound on the crashes of the process
  None          \* no job, no delivery, no receipt

Requests == Intakes \cup Deliveries \cup Collections
Paid == Intakes \cup Collections

(* anchor: a submission is reported as failed, whether it landed or not    *)
(* flush : writing the store file fails                                    *)
(* crash : the process dies and is started again                           *)
(* gate  : the transfer settles, but the facilitator's answer is lost      *)
(* expiry: a recorded settlement outlives SETTLEMENT_TTL_MS                *)
FaultKinds == {"anchor", "flush", "crash", "gate", "expiry"}

Receipt == [order : Orders, mandate : Intakes, intake : Intakes,
            result : Deliveries, balance : Collections]

(* What the store keeps of one order: the intake whose acceptance receipt  *)
(* and anchors it holds, the intake whose settlement its payment names,    *)
(* the delivery it recorded and the receipt it issued.                     *)
Job == [accepted : Intakes, intake : Intakes,
        result : Deliveries \cup {None}, receipt : Receipt \cup {None}]

Anchors == [kind : RequiredKinds, order : Orders, by : Requests]

ASSUME RequestsAssumption ==
  /\ Intakes \cap Deliveries = {}
  /\ Intakes \cap Collections = {}
  /\ Deliveries \cap Collections = {}
  /\ Order \in [Requests -> Orders]
  /\ Malformed \subseteq Intakes \cup Deliveries

ASSUME NoneAssumption == None \notin Requests /\ None \notin Receipt /\ None \notin Job

ASSUME BoundsAssumption ==
  OneAtATime \in BOOLEAN /\ Faults \subseteq FaultKinds /\ MaxCrashes \in Nat

VARIABLES
  mem,       \* the store's jobs in memory
  disk,      \* the jobs in the store file
  topic,     \* the anchors that reached consensus
  inflight,  \* anchors submitted that have not (perhaps never will)
  settled,   \* requests whose transfer is on the ledger
  registry,  \* settlements recorded and not claimed
  pc,        \* where each request stands
  held,      \* the job each collection's handler has read
  crashes,   \* crashes so far
  happened,  \* history: the kinds of fault that have happened
  accepts,   \* history: intakes whose acceptance receipt was handed out
  receipts   \* history: delivery receipts handed out

vars == <<mem, disk, topic, inflight, settled, registry, pc, held, crashes,
          happened, accepts, receipts>>

(* A request waiting for an anchor is at the anchor's kind.                *)
Waiting == RequiredKinds
UnderWay == {"gated", "settled", "paid"} \cup Waiting
Ended == {"done",      \* 200 or 201, with what was asked for
          "refused",   \* 400, 402, 404 or 409 before anything was paid
          "rejected",  \* 422, with a rejected receipt
          "failed",    \* 409 after payment, 500 or 502
          "lost"}      \* the connection died with the process
ProgramCounters == {"idle"} \cup UnderWay \cup Ended

Init ==
  /\ mem = [m \in Orders |-> None]
  /\ disk = [m \in Orders |-> None]
  /\ topic = <<>>
  /\ inflight = {}
  /\ settled = {}
  /\ registry = {}
  /\ pc = [r \in Requests |-> "idle"]
  /\ held = [c \in Collections |-> None]
  /\ crashes = 0
  /\ happened = {}
  /\ accepts = {}
  /\ receipts = {}
-----------------------------------------------------------------------------
(* Helpers.                                                                *)

Fault(k) == k \in Faults /\ happened' = happened \cup {k}

Goto(r, p) == pc' = [pc EXCEPT ![r] = p]

MayArrive(r) ==
  /\ pc[r] = "idle"
  /\ OneAtATime => \A q \in Requests : Order[q] = Order[r] => pc[q] \notin UnderWay

(* anchor(): submit one anchor and await its consensus position.           *)
Submit(r, k) ==
  /\ inflight' = inflight \cup {Anchor(k, Order[r], r)}
  /\ Goto(r, k)

(* Mutant: the submission is not awaited.                                  *)
AcknowledgedEarly(r, k) == pc[r] = k

(* The awaited submission came back with a position.                       *)
Acknowledged(r, k) == pc[r] = k /\ OnTopic(topic, Anchor(k, Order[r], r))

(* Mutant: put without flush.                                              *)
PutUnflushed(m, job) ==
  /\ mem' = [mem EXCEPT ![m] = job]
  /\ UNCHANGED disk

(* JobStore.put: memory first, then the whole store is written to a        *)
(* temporary file that replaces the old one.                               *)
Put(m, job) ==
  /\ mem' = [mem EXCEPT ![m] = job]
  /\ disk' = mem'

(* Mutant: the file is written before the map is set.                      *)
PutFileFirst(m, job) ==
  /\ Fault("flush")
  /\ UNCHANGED <<mem, disk>>

(* The write or the rename throws: the file is as it was, memory is not.   *)
PutUnwritten(m, job) ==
  /\ Fault("flush")
  /\ mem' = [mem EXCEPT ![m] = job]
  /\ UNCHANGED disk

Delivered(job) == job # None /\ job.result # None

storeVars == <<mem, disk>>
logVars == <<topic, inflight>>
moneyVars == <<settled, registry>>
faultVars == <<crashes, happened>>
answers == <<accepts, receipts>>
-----------------------------------------------------------------------------
(* The payment gate, in front of both paid routes.  It settles before the  *)
(* handler runs; the hook onAfterSettle records the settlement under the   *)
(* request's payment header, which no two requests share.                  *)

GateRefuses(r) ==       \* 402: no payment, or one the facilitator refuses
  /\ pc[r] = "gated"
  /\ Goto(r, "refused")
  /\ UNCHANGED <<storeVars, logVars, moneyVars, held, faultVars, answers>>

GateSettles(r) ==
  /\ pc[r] = "gated"
  /\ settled' = settled \cup {r}
  /\ Goto(r, "settled")
  /\ UNCHANGED <<storeVars, logVars, registry, held, faultVars, answers>>

GateLosesAnswer(r) ==
  /\ Fault("gate")
  /\ pc[r] = "settled"
  /\ Goto(r, "failed")
  /\ UNCHANGED <<storeVars, logVars, moneyVars, held, crashes, answers>>

RecordSettlement(r) ==
  /\ pc[r] = "settled"
  /\ registry' = registry \cup {r}
  /\ Goto(r, "paid")
  /\ UNCHANGED <<storeVars, logVars, settled, held, faultVars, answers>>

SettlementExpires(r) ==
  /\ Fault("expiry")
  /\ r \in registry
  /\ registry' = registry \ {r}
  /\ UNCHANGED <<storeVars, logVars, settled, pc, held, crashes, answers>>

Claim(r) == registry' = registry \ {r}

(* Mutant: the handler returns without answering.                          *)
UnclaimedSilently(r) ==
  /\ pc[r] = "paid"
  /\ r \notin registry
  /\ UNCHANGED vars

(* 500: claim() found no settlement for the request.                       *)
Unclaimed(r) ==
  /\ pc[r] = "paid"
  /\ r \notin registry
  /\ r \in Collections => Delivered(mem[Order[r]])
  /\ Goto(r, "failed")
  /\ UNCHANGED <<storeVars, logVars, moneyVars, held, faultVars, answers>>
-----------------------------------------------------------------------------
(* POST /mandates: paid intake of a work order.                            *)

SendIntake(i) ==
  /\ MayArrive(i)
  /\ Goto(i, "gated")
  /\ UNCHANGED <<storeVars, logVars, moneyVars, held, faultVars, answers>>

IntakeStarts(i) == pc[i] = "paid" /\ i \in registry /\ Claim(i)

IntakeRefused(i) ==     \* 422: the payment is kept, nothing is anchored
  /\ IntakeStarts(i)
  /\ i \in Malformed
  /\ Goto(i, "rejected")
  /\ UNCHANGED <<storeVars, logVars, settled, held, faultVars, answers>>

IntakeRepeated(i) ==    \* 200: the order is known, its receipt comes back
  /\ IntakeStarts(i)
  /\ i \notin Malformed
  /\ mem[Order[i]] # None
  /\ accepts' = accepts \cup {mem[Order[i]].accepted}
  /\ Goto(i, "done")
  /\ UNCHANGED <<storeVars, logVars, settled, held, faultVars, receipts>>

(* Mutant: the store is not asked whether it knows the order.              *)
IntakeBeginsUnasked(i) ==
  /\ IntakeStarts(i)
  /\ i \notin Malformed
  /\ Submit(i, "mandate_in")
  /\ UNCHANGED <<storeVars, topic, settled, held, faultVars, answers>>

IntakeBegins(i) ==
  /\ IntakeStarts(i)
  /\ i \notin Malformed
  /\ mem[Order[i]] = None
  /\ Submit(i, "mandate_in")
  /\ UNCHANGED <<storeVars, topic, settled, held, faultVars, answers>>

(* Mutant: the acceptance is anchored before the payment.                  *)
MandateAnchoredSwapped(i) ==
  /\ Acknowledged(i, "mandate_in")
  /\ Submit(i, "accepted")
  /\ UNCHANGED <<storeVars, topic, moneyVars, held, faultVars, answers>>

MandateAnchored(i) ==
  /\ Acknowledged(i, "mandate_in")
  /\ Submit(i, "payment_intake")
  /\ UNCHANGED <<storeVars, topic, moneyVars, held, faultVars, answers>>

IntakePaymentAnchored(i) ==
  /\ Acknowledged(i, "payment_intake")
  /\ Submit(i, "accepted")
  /\ UNCHANGED <<storeVars, topic, moneyVars, held, faultVars, answers>>

NewJob(i) == [accepted |-> i, intake |-> i, result |-> None, receipt |-> None]

(* Mutant: the acceptance goes out before its anchor has a position.       *)
IntakeStoredEarly(i) ==
  /\ pc[i] = "accepted"
  /\ Put(Order[i], NewJob(i))
  /\ accepts' = accepts \cup {i}
  /\ Goto(i, "done")
  /\ UNCHANGED <<logVars, moneyVars, held, faultVars, receipts>>

IntakeStored(i) ==      \* 201
  /\ Acknowledged(i, "accepted")
  /\ Put(Order[i], NewJob(i))
  /\ accepts' = accepts \cup {i}
  /\ Goto(i, "done")
  /\ UNCHANGED <<logVars, moneyVars, held, faultVars, receipts>>

IntakeUnwritten(i) ==   \* 500
  /\ Acknowledged(i, "accepted")
  /\ PutUnwritten(Order[i], NewJob(i))
  /\ Goto(i, "failed")
  /\ UNCHANGED <<logVars, moneyVars, held, crashes, answers>>
-----------------------------------------------------------------------------
(* POST /mandates/:id/deliver: the contractor records its delivery.        *)

DeliverUnknown(d) ==    \* 404
  /\ MayArrive(d)
  /\ mem[Order[d]] = None
  /\ Goto(d, "refused")
  /\ UNCHANGED <<storeVars, logVars, moneyVars, held, faultVars, answers>>

DeliverRepeated(d) ==   \* 200: what was anchored the first time
  /\ MayArrive(d)
  /\ Delivered(mem[Order[d]])
  /\ Goto(d, "done")
  /\ UNCHANGED <<storeVars, logVars, moneyVars, held, faultVars, answers>>

DeliverRefused(d) ==    \* the links in the body are not usable
  /\ MayArrive(d)
  /\ mem[Order[d]] # None /\ ~ Delivered(mem[Order[d]])
  /\ d \in Malformed
  /\ Goto(d, "refused")
  /\ UNCHANGED <<storeVars, logVars, moneyVars, held, faultVars, answers>>

DeliverBegins(d) ==
  /\ MayArrive(d)
  /\ mem[Order[d]] # None /\ ~ Delivered(mem[Order[d]])
  /\ d \notin Malformed
  /\ Submit(d, "delivered")
  /\ UNCHANGED <<storeVars, topic, moneyVars, held, faultVars, answers>>

(* The update applies to the job as it is now, not as it was read.         *)
WithResult(d) == [mem[Order[d]] EXCEPT !.result = d]

(* Mutant: the delivery is stored before its anchor has a position.        *)
DeliveryStoredEarly(d) ==
  /\ pc[d] = "delivered"
  /\ Put(Order[d], WithResult(d))
  /\ Goto(d, "done")
  /\ UNCHANGED <<logVars, moneyVars, held, faultVars, answers>>

DeliveryStored(d) ==    \* 200
  /\ Acknowledged(d, "delivered")
  /\ Put(Order[d], WithResult(d))
  /\ Goto(d, "done")
  /\ UNCHANGED <<logVars, moneyVars, held, faultVars, answers>>

DeliveryUnwritten(d) == \* 500
  /\ Acknowledged(d, "delivered")
  /\ PutUnwritten(Order[d], WithResult(d))
  /\ Goto(d, "failed")
  /\ UNCHANGED <<logVars, moneyVars, held, crashes, answers>>
-----------------------------------------------------------------------------
(* GET /mandates/:id/receipt: a guard in front of the gate, then the paid  *)
(* release of the delivery receipt.                                        *)

GuardRefuses(c) ==      \* 404, or 409 while there is nothing to release
  /\ MayArrive(c)
  /\ ~ Delivered(mem[Order[c]])
  /\ mem[Order[c]] # None => mem[Order[c]].receipt = None
  /\ Goto(c, "refused")
  /\ UNCHANGED <<storeVars, logVars, moneyVars, held, faultVars, answers>>

GuardRepeats(c) ==      \* 200: the receipt already issued, unpaid
  /\ MayArrive(c)
  /\ mem[Order[c]] # None /\ mem[Order[c]].receipt # None
  /\ receipts' = receipts \cup {mem[Order[c]].receipt}
  /\ Goto(c, "done")
  /\ UNCHANGED <<storeVars, logVars, moneyVars, held, faultVars, accepts>>

(* Mutants: a guard that does not look for an issued receipt, and one that *)
(* does not look for a result.                                             *)
GuardPassesIssued(c) ==
  /\ MayArrive(c)
  /\ Delivered(mem[Order[c]])
  /\ Goto(c, "gated")
  /\ UNCHANGED <<storeVars, logVars, moneyVars, held, faultVars, answers>>

GuardPassesUndelivered(c) ==
  /\ MayArrive(c)
  /\ mem[Order[c]] # None
  /\ mem[Order[c]].receipt = None
  /\ Goto(c, "gated")
  /\ UNCHANGED <<storeVars, logVars, moneyVars, held, faultVars, answers>>

GuardPasses(c) ==
  /\ MayArrive(c)
  /\ Delivered(mem[Order[c]])
  /\ mem[Order[c]].receipt = None
  /\ Goto(c, "gated")
  /\ UNCHANGED <<storeVars, logVars, moneyVars, held, faultVars, answers>>

CollectTooEarly(c) ==   \* 409 although paid: the store changed under us
  /\ pc[c] = "paid"
  /\ ~ Delivered(mem[Order[c]])
  /\ Goto(c, "failed")
  /\ UNCHANGED <<storeVars, logVars, moneyVars, held, faultVars, answers>>

(* The handler does not look at job.receipt again.                         *)
CollectBegins(c) ==
  /\ pc[c] = "paid"
  /\ Delivered(mem[Order[c]])
  /\ c \in registry
  /\ Claim(c)
  /\ held' = [held EXCEPT ![c] = mem[Order[c]]]
  /\ Submit(c, "payment_balance")
  /\ UNCHANGED <<storeVars, topic, settled, faultVars, answers>>

(* Mutant: the receipt is anchored before the balance has a position.      *)
BalanceAnchoredEarly(c) ==
  /\ pc[c] = "payment_balance"
  /\ Submit(c, "receipt")
  /\ UNCHANGED <<storeVars, topic, moneyVars, held, faultVars, answers>>

BalanceAnchored(c) ==
  /\ Acknowledged(c, "payment_balance")
  /\ Submit(c, "receipt")
  /\ UNCHANGED <<storeVars, topic, moneyVars, held, faultVars, answers>>

(* Mutant: the stored payment, without its balance leg, is sealed.         *)
ReceiptOfUnpaid(c) == [order |-> Order[c], mandate |-> held[c].accepted,
                       intake |-> held[c].intake, result |-> held[c].result,
                       balance |-> None]

(* The receipt is sealed from the job read before the awaits.              *)
ReceiptOf(c) == [order |-> Order[c], mandate |-> held[c].accepted,
                 intake |-> held[c].intake, result |-> held[c].result,
                 balance |-> c]

(* The update keeps the current job but for its payment and receipt.       *)
WithReceipt(c) == [mem[Order[c]] EXCEPT !.intake = held[c].intake,
                                        !.receipt = ReceiptOf(c)]

(* Mutant: the receipt goes out before its anchor has a position.          *)
ReceiptStoredEarly(c) ==
  /\ pc[c] = "receipt"
  /\ Put(Order[c], WithReceipt(c))
  /\ receipts' = receipts \cup {ReceiptOf(c)}
  /\ Goto(c, "done")
  /\ UNCHANGED <<logVars, moneyVars, held, faultVars, accepts>>

ReceiptStored(c) ==     \* 200
  /\ Acknowledged(c, "receipt")
  /\ Put(Order[c], WithReceipt(c))
  /\ receipts' = receipts \cup {ReceiptOf(c)}
  /\ Goto(c, "done")
  /\ UNCHANGED <<logVars, moneyVars, held, faultVars, accepts>>

ReceiptUnwritten(c) ==  \* 500
  /\ Acknowledged(c, "receipt")
  /\ PutUnwritten(Order[c], WithReceipt(c))
  /\ Goto(c, "failed")
  /\ UNCHANGED <<logVars, moneyVars, held, crashes, answers>>
-----------------------------------------------------------------------------
(* The surroundings: consensus, submissions that fail, and crashes.        *)

(* A submitted anchor reaches consensus, whether anyone still waits for it *)
(* or not.                                                                 *)
Land(a) ==
  /\ inflight' = inflight \ {a}
  /\ topic' = Append(topic, a)
  /\ UNCHANGED <<storeVars, moneyVars, pc, held, faultVars, answers>>

(* AnchorFailure, 502: the submission threw.  A submission that timed out  *)
(* locally may have landed, or land later, or never.                       *)
AnchorFails(r) ==
  /\ Fault("anchor")
  /\ pc[r] \in Waiting
  /\ Goto(r, "failed")
  /\ UNCHANGED <<storeVars, logVars, moneyVars, held, crashes, answers>>

(* The process dies and main() opens the store file again.                 *)
Crash ==
  /\ Fault("crash")
  /\ crashes < MaxCrashes
  /\ crashes' = crashes + 1
  /\ mem' = disk
  /\ registry' = {}
  /\ pc' = [r \in Requests |-> IF pc[r] \in UnderWay THEN "lost" ELSE pc[r]]
  /\ UNCHANGED <<disk, logVars, settled, held, answers>>
-----------------------------------------------------------------------------
Gate(r) ==
  \/ GateRefuses(r) \/ GateSettles(r) \/ GateLosesAnswer(r)
  \/ RecordSettlement(r) \/ Unclaimed(r)

Intake(i) ==
  \/ SendIntake(i) \/ IntakeRefused(i) \/ IntakeRepeated(i) \/ IntakeBegins(i)
  \/ MandateAnchored(i) \/ IntakePaymentAnchored(i)
  \/ IntakeStored(i) \/ IntakeUnwritten(i)

Deliver(d) ==
  \/ DeliverUnknown(d) \/ DeliverRepeated(d) \/ DeliverRefused(d)
  \/ DeliverBegins(d) \/ DeliveryStored(d) \/ DeliveryUnwritten(d)

Collect(c) ==
  \/ GuardRefuses(c) \/ GuardRepeats(c) \/ GuardPasses(c)
  \/ CollectTooEarly(c) \/ CollectBegins(c) \/ BalanceAnchored(c)
  \/ ReceiptStored(c) \/ ReceiptUnwritten(c)

Next ==
  \/ \E r \in Paid : Gate(r) \/ SettlementExpires(r)
  \/ \E i \in Intakes : Intake(i)
  \/ \E d \in Deliveries : Deliver(d)
  \/ \E c \in Collections : Collect(c)
  \/ \E a \in inflight : Land(a)
  \/ \E r \in Requests : AnchorFails(r)
  \/ Crash

Spec == Init /\ [][Next]_vars
-----------------------------------------------------------------------------
(* Properties.                                                             *)

TypeOK ==
  /\ mem \in [Orders -> Job \cup {None}]
  /\ disk \in [Orders -> Job \cup {None}]
  /\ topic \in Seq(Anchors)
  /\ inflight \subseteq Anchors
  /\ settled \subseteq Paid
  /\ registry \subseteq Paid
  /\ pc \in [Requests -> ProgramCounters]
  /\ held \in [Collections -> Job \cup {None}]
  /\ crashes \in 0..MaxCrashes
  /\ happened \subseteq Faults
  /\ accepts \subseteq Intakes
  /\ receipts \subseteq Receipt

(* An anchor for the order of `a`, of kind k, reached consensus before the *)
(* n-th anchor `a` did.                                                    *)
Earlier(n, k) ==
  \E p \in 1..(n - 1) : topic[p].kind = k /\ topic[p].order = topic[n].order

EarlierOwn(n, k) ==
  \E p \in 1..(n - 1) : topic[p] = Anchor(k, topic[n].order, topic[n].by)

(* Every anchor on the public log is preceded by the steps it presupposes, *)
(* in consensus order: an intake's own mandate_in, payment_intake and      *)
(* accepted; a delivery after an acceptance of the order; a balance after  *)
(* a delivery; a receipt after its own balance.  No interleaving, crash or *)
(* late landing of an abandoned submission puts an effect before its       *)
(* cause.                                                                  *)
TrailCausality ==
  \A n \in DOMAIN topic :
    /\ topic[n].kind = "payment_intake"  => EarlierOwn(n, "mandate_in")
    /\ topic[n].kind = "accepted"        => EarlierOwn(n, "payment_intake")
    /\ topic[n].kind = "delivered"       => Earlier(n, "accepted")
    /\ topic[n].kind = "payment_balance" => Earlier(n, "delivered")
    /\ topic[n].kind = "receipt"         => EarlierOwn(n, "payment_balance")

(* The balance is never taken for work that is not on record: when a       *)
(* collection has settled, a delivery of its order is on the topic; and a  *)
(* payment anchor always stands for a transfer that settled.               *)
BalanceFollowsDelivery ==
  /\ \A c \in settled \cap Collections :
       \E n \in DOMAIN topic :
         topic[n].kind = "delivered" /\ topic[n].order = Order[c]
  /\ \A n \in DOMAIN topic :
       topic[n].kind \in {"payment_intake", "payment_balance"} => topic[n].by \in settled

(* The anchors of an acceptance, one after the other.                      *)
AcceptanceOnTopic(i) ==
  LET A(k) == Anchor(k, Order[i], i)
  IN  /\ Precedes(topic, A("mandate_in"), A("payment_intake"))
      /\ Precedes(topic, A("payment_intake"), A("accepted"))

(* The six anchors of the documents a delivery receipt rests on, one after *)
(* the other.                                                              *)
ReceiptOnTopic(rc) ==
  LET A(k, r) == Anchor(k, rc.order, r)
  IN  /\ Order[rc.mandate] = rc.order /\ AcceptanceOnTopic(rc.mandate)
      /\ Order[rc.intake] = rc.order /\ AcceptanceOnTopic(rc.intake)
      /\ \E i \in Intakes :
           Precedes(topic, A("accepted", i), A("delivered", rc.result))
      /\ Precedes(topic, A("delivered", rc.result), A("payment_balance", rc.balance))
      /\ Precedes(topic, A("payment_balance", rc.balance), A("receipt", rc.balance))

(* A receipt that is not anchored cannot be proven later, so none is       *)
(* issued: whatever was handed out, acceptance or delivery, has its whole  *)
(* chain of anchors on the topic.                                          *)
IssuedIsAnchored ==
  /\ \A i \in accepts : AcceptanceOnTopic(i)
  /\ \A rc \in receipts : ReceiptOnTopic(rc)

(* What survives a restart rests on the public log too: a job in memory or *)
(* in the file names only steps whose anchors landed, so the release of a  *)
(* receipt days later never builds on a step that is not on record.        *)
JobOnTopic(m, job) ==
  /\ Order[job.accepted] = m /\ AcceptanceOnTopic(job.accepted)
  /\ Order[job.intake] = m /\ AcceptanceOnTopic(job.intake)
  /\ job.result # None => OnTopic(topic, Anchor("delivered", m, job.result))
  /\ job.receipt # None => ReceiptOnTopic(job.receipt)

StoreIsAnchored ==
  \A m \in Orders :
    /\ mem[m] # None => JobOnTopic(m, mem[m])
    /\ disk[m] # None => JobOnTopic(m, disk[m])

(* A delivery receipt paid by one account checks out for every stranger    *)
(* unless the order's trail became ambiguous: a step anchored twice is the *)
(* only way in which retries, crashes and overlapping requests can spoil   *)
(* the verdict on a receipt the contractor issued.                         *)
UnambiguousVerifies ==
  \A rc \in receipts :
    ~ Ambiguous(topic, rc.order) /\ Payer[rc.balance] = PayerOf(rc)
      => Verifies(topic, settled, rc)

(* Every delivery receipt the contractor hands out checks out for a        *)
(* stranger: both transfers are on the ledger with the payer, the payee    *)
(* and the amounts the receipt states.                                     *)
EveryReceiptVerifies == \A rc \in receipts : Verifies(topic, settled, rc)
-----------------------------------------------------------------------------
(* The service keeps its promise: with its store, its requests under way   *)
(* and its faults hidden, every step is one OrderPromise allows.           *)
Promise == INSTANCE OrderPromise WITH
  log <- topic, paid <- settled, accepted <- accepts, released <- receipts

PromiseKept == Promise!Spec
-----------------------------------------------------------------------------
(* Properties of an order whose requests do not overlap (OneAtATime).      *)

(* Nothing on file is taken back: while requests of one order do not       *)
(* overlap, no fault, crash or failed write makes the store file forget a  *)
(* job, or replace its acceptance, its delivery or its receipt.            *)
Keeps(old, new) ==
  old # None =>
    /\ new # None
    /\ new.accepted = old.accepted
    /\ old.result # None => new.result = old.result
    /\ old.receipt # None => new.receipt = old.receipt

FileKeepsJobs == [][\A m \in Orders : Keeps(disk[m], disk'[m])]_vars

(* Everything needed to issue the second receipt lives in the store: as    *)
(* long as every write of the file worked, an acceptance a customer holds  *)
(* is the one on file, and so is a delivery receipt (a repeat collection   *)
(* returns the same bytes), across crashes and abandoned requests.         *)
AnswersOnFile ==
  "flush" \notin happened =>
    /\ \A i \in accepts : disk[Order[i]] # None /\ disk[Order[i]].accepted = i
    /\ \A rc \in receipts : disk[rc.order] # None /\ disk[rc.order].receipt = rc

(* No step of an order is put on the permanent log twice, unless a         *)
(* submission was abandoned: lost settlements, expired ones and failed     *)
(* writes never repeat an anchor.                                          *)
AnchoredOnce ==
  happened \cap {"anchor", "crash"} = {} =>
    \A m \in Orders : ~ Ambiguous(topic, m)

(* The customer is asked to pay only for a receipt that has not been paid  *)
(* for: an order's balance is charged once, unless the earlier charge was  *)
(* lost on the way to its receipt.                                         *)
BalancePaidOnce ==
  happened \subseteq {"flush"} =>
    \A b, c \in settled \cap Collections : Order[b] = Order[c] => b = c

(* Without faults, a customer who paid the balance leaves with a receipt   *)
(* that accounts for that very payment and checks out for a stranger.      *)
BalanceEarnsReceipt ==
  happened = {} =>
    \A c \in settled \cap Collections :
      pc[c] \in Ended =>
        \E rc \in receipts : rc.balance = c /\ Verifies(topic, settled, rc)

(* The guard keeps a customer from paying for what it cannot receive: when *)
(* the paid handler starts, the deliverable is still there.                *)
PaidIsReleasable ==
  \A c \in Collections : pc[c] = "paid" => Delivered(mem[Order[c]])
-----------------------------------------------------------------------------
(* Liveness.  The event loop runs every handler that can run; the          *)
(* facilitator and the network answer within their clients' timeouts, the  *)
(* network by consensus or by an error.  Nothing forces a request to be    *)
(* sent, a payment to be made, a fault to happen or an abandoned           *)
(* submission to land.                                                     *)

Settles(r) == GateRefuses(r) \/ GateSettles(r)
Registers(r) == RecordSettlement(r) \/ GateLosesAnswer(r)

Handles(r) ==
  \/ r \in Paid /\ Unclaimed(r)
  \/ r \in Intakes /\ \/ IntakeRefused(r) \/ IntakeRepeated(r) \/ IntakeBegins(r)
                      \/ MandateAnchored(r) \/ IntakePaymentAnchored(r)
                      \/ IntakeStored(r) \/ IntakeUnwritten(r)
  \/ r \in Deliveries /\ (DeliveryStored(r) \/ DeliveryUnwritten(r))
  \/ r \in Collections /\ \/ CollectTooEarly(r) \/ CollectBegins(r)
                          \/ BalanceAnchored(r)
                          \/ ReceiptStored(r) \/ ReceiptUnwritten(r)

NetworkAnswers(r) ==
  \/ \E a \in inflight : a = Anchor(pc[r], Order[r], r) /\ Land(a)
  \/ AnchorFails(r)

Fairness ==
  /\ \A r \in Paid : WF_vars(Settles(r)) /\ WF_vars(Registers(r))
  /\ \A r \in Requests : WF_vars(Handles(r)) /\ WF_vars(NetworkAnswers(r))

FairSpec == Spec /\ Fairness

(* Every request that was sent is answered, or dies with the process: no   *)
(* handler waits for ever, whatever fails.                                 *)
EveryRequestEnds ==
  \A r \in Requests : pc[r] \in UnderWay ~> pc[r] \in Ended

(* "Settle succeeds but anchoring fails": the settled payment of a request *)
(* whose handler reached its anchor is eventually on the topic.            *)
PaymentEventuallyAnchored ==
  /\ \A i \in Intakes :
       pc[i] = "payment_intake" ~> OnTopic(topic, Anchor("payment_intake", Order[i], i))
  /\ \A c \in Collections :
       pc[c] = "payment_balance" ~> OnTopic(topic, Anchor("payment_balance", Order[c], c))
=============================================================================
