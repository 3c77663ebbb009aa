------------------------- MODULE ContractorInvariant -------------------------
(***************************************************************************)
(* The inductive invariant of the contractor: what is true of the public   *)
(* log, of the submissions still on their way to it, of the store and of   *)
(* every handler, in every state whatever overlaps or fails.               *)
(***************************************************************************)
EXTENDS Contractor

(* An anchor, landed or not, was submitted by a request of its own kind    *)
(* for its own order, past the payment gate.                               *)
Genuine(a) ==
  /\ a = Anchor(a.kind, Order[a.by], a.by)
  /\ a.kind \in {"mandate_in", "payment_intake", "accepted"} => a.by \in Intakes
  /\ a.kind = "delivered" => a.by \in Deliveries
  /\ a.kind \in {"payment_balance", "receipt"} => a.by \in Collections
  /\ a.by \in Collections => held[a.by] # None
  /\ a.by \in Paid => a.by \in settled

(* The steps an anchor presupposes have landed.                            *)
Supported(a) ==
  /\ a.kind = "payment_intake"  => OnTopic(topic, Anchor("mandate_in", a.order, a.by))
  /\ a.kind = "accepted"        => OnTopic(topic, Anchor("payment_intake", a.order, a.by))
  /\ a.kind = "delivered"       => \E i \in Intakes : OnTopic(topic, Anchor("accepted", a.order, i))
  /\ a.kind = "payment_balance" => OnTopic(topic, Anchor("delivered", a.order, held[a.by].result))
  /\ a.kind = "receipt"         => OnTopic(topic, Anchor("payment_balance", a.order, a.by))

(* The steps a landed anchor presupposes landed before it.                 *)
Caused(n) ==
  LET a == topic[n]
      Before(b) == \E p \in 1..(n - 1) : topic[p] = b
  IN  /\ a.kind = "payment_intake"  => Before(Anchor("mandate_in", a.order, a.by))
      /\ a.kind = "accepted"        => Before(Anchor("payment_intake", a.order, a.by))
      /\ a.kind = "delivered"       => \E i \in Intakes : Before(Anchor("accepted", a.order, i))
      /\ a.kind = "payment_balance" => Before(Anchor("delivered", a.order, held[a.by].result))
      /\ a.kind = "receipt"         => Before(Anchor("payment_balance", a.order, a.by))

SubmissionsSupported == \A a \in inflight : Genuine(a) /\ Supported(a)

LogCaused == \A n \in DOMAIN topic : Genuine(topic[n]) /\ Caused(n)

(* A job rests on anchors of its own order that landed.                    *)
Grounded(m, job) ==
  /\ Order[job.accepted] = m /\ OnTopic(topic, Anchor("accepted", m, job.accepted))
  /\ Order[job.intake] = m /\ OnTopic(topic, Anchor("accepted", m, job.intake))
  /\ job.result # None => OnTopic(topic, Anchor("delivered", m, job.result))

(* A receipt was sealed by its own collection from the job it read, and    *)
(* its anchor landed.                                                      *)
Sealed(rc) ==
  /\ Order[rc.balance] = rc.order
  /\ held[rc.balance] # None
  /\ rc = ReceiptOf(rc.balance)
  /\ OnTopic(topic, Anchor("receipt", rc.order, rc.balance))

JobSound(m, job) ==
  /\ Grounded(m, job)
  /\ job.receipt # None => job.receipt.order = m /\ Sealed(job.receipt)

StoreSound ==
  \A m \in Orders :
    /\ mem[m] # None => JobSound(m, mem[m])
    /\ disk[m] # None => JobSound(m, disk[m])

(* What a collection's handler read, it read after the delivery.           *)
HeldSound ==
  \A c \in Collections :
    held[c] # None => held[c].result # None /\ Grounded(Order[c], held[c])

(* Money moves at the gate only, and for a collection only once a delivery *)
(* of the order is on the log.                                             *)
MoneySound ==
  /\ registry \subseteq settled
  /\ \A r \in Paid : pc[r] \in {"settled", "paid"} \cup Waiting => r \in settled
  /\ \A c \in Collections :
       c \in settled \/ pc[c] = "gated" =>
         \E d \in Deliveries : OnTopic(topic, Anchor("delivered", Order[c], d))

(* A collection reads its job once: until then nothing of it is submitted, *)
(* and afterwards what it read stays.  A handler that found a job still    *)
(* finds one when it updates the store.                                    *)
HandlersSound ==
  /\ \A c \in Collections :
       /\ pc[c] \in {"idle", "gated", "settled", "paid"} => held[c] = None
       /\ pc[c] \in Waiting => held[c] # None
  /\ \A r \in Deliveries \cup Collections :
       pc[r] \in Waiting => mem[Order[r]] # None

(* A handler waits only for kinds of anchor of its own route.              *)
RoutesSound ==
  \A r \in Requests : pc[r] \in Waiting =>
    /\ r \in Intakes => pc[r] \in {"mandate_in", "payment_intake", "accepted"}
    /\ r \in Deliveries => pc[r] = "delivered"
    /\ r \in Collections => pc[r] \in {"payment_balance", "receipt"}

AnswersSound ==
  /\ \A i \in accepts : OnTopic(topic, Anchor("accepted", Order[i], i))
  /\ \A rc \in receipts : Sealed(rc)

(* The inductive invariant: it implies every safety property above that    *)
(* does not depend on what overlapped or failed.                           *)
IInv ==
  /\ TypeOK
  /\ SubmissionsSupported
  /\ LogCaused
  /\ StoreSound
  /\ HeldSound
  /\ MoneySound
  /\ HandlersSound
  /\ RoutesSound
  /\ AnswersSound
-----------------------------------------------------------------------------
(* What each request does at most once, whatever overlaps or fails.        *)

(* A request that stands at p has not submitted its anchor of kind k.      *)
NotYet(p, k) ==
  \/ p \in {"idle", "gated", "settled", "paid"}
  \/ p = "mandate_in" /\ k \in {"payment_intake", "accepted"}
  \/ p = "payment_intake" /\ k = "accepted"
  \/ p = "payment_balance" /\ k = "receipt"

(* An anchor is submitted once and lands at most once.                     *)
SubmittedOnce ==
  /\ \A a \in inflight : ~ OnTopic(topic, a) /\ ~ NotYet(pc[a.by], a.kind)
  /\ \A n \in DOMAIN topic : ~ NotYet(pc[topic[n].by], topic[n].kind)
  /\ \A n, o \in DOMAIN topic : topic[n] = topic[o] => n = o

(* Money has moved only for requests that went through the gate.           *)
SettledPastGate == \A r \in settled : pc[r] \notin {"idle", "gated"}
-----------------------------------------------------------------------------
(* What is true besides while the requests of an order do not overlap.     *)

Exclusive ==
  \A q, r \in Requests :
    Order[q] = Order[r] /\ pc[q] \in UnderWay /\ pc[r] \in UnderWay => q = r

(* A handler finds the store as it was when it looked.                     *)
HandlersAlone ==
  /\ \A i \in Intakes : pc[i] \in Waiting => mem[Order[i]] = None
  /\ \A d \in Deliveries : pc[d] \in Waiting => mem[Order[d]].result = None
  /\ \A c \in Collections : pc[c] \in UnderWay =>
       /\ Delivered(mem[Order[c]])
       /\ mem[Order[c]].receipt = None
       /\ pc[c] \in Waiting => held[c] = mem[Order[c]]

(* Memory has all that the file has, and no more if every write worked.    *)
FileBehind ==
  /\ \A m \in Orders : Keeps(disk[m], mem[m])
  /\ "flush" \notin happened =>
       /\ mem = disk
       /\ \A m \in Orders : mem[m] # None /\ mem[m].receipt # None => mem[m].receipt \in receipts

(* What a request came for is in memory.                                   *)
Finished(r) ==
  LET job == mem[Order[r]]
  IN  /\ job # None
      /\ r \in Intakes => job.accepted = r
      /\ r \in Deliveries => job.result = r
      /\ r \in Collections => job.receipt # None /\ job.receipt.balance = r

(* Unless a handler was cut off, whoever submitted an anchor is still at   *)
(* work or has finished.                                                   *)
SubmittersFinish ==
  happened \cap {"anchor", "crash"} = {} =>
    /\ \A a \in inflight : pc[a.by] \in Waiting \/ Finished(a.by)
    /\ \A n \in DOMAIN topic : pc[topic[n].by] \in Waiting \/ Finished(topic[n].by)

(* Unless a payment was lost, so is whoever paid a balance.                *)
PayersFinish ==
  happened \subseteq {"flush"} =>
    /\ \A c \in settled \cap Collections : pc[c] \in UnderWay \/ Finished(c)
    /\ \A r \in Paid : pc[r] = "paid" => r \in registry

(* Inductive while the requests of an order come one after the other; it   *)
(* implies the properties of such orders.                                  *)
OrderlyInv ==
  /\ IInv
  /\ SubmittedOnce
  /\ SettledPastGate
  /\ Exclusive
  /\ HandlersAlone
  /\ FileBehind
  /\ AnswersOnFile
  /\ SubmittersFinish
  /\ PayersFinish
=============================================================================
