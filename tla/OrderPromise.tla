---------------------------- MODULE OrderPromise ----------------------------
(***************************************************************************)
(* What the contractor promises the public and its customers, without      *)
(* saying how: which anchor may go on the log, which payment may be taken  *)
(* and which receipt may be handed out, given what is already on the log.  *)
(* There is no store, no request under way and no process that could fail. *)
(***************************************************************************)
EXTENDS AuditTopic

CONSTANTS Orders, Intakes, Deliveries, Collections, Order

VARIABLES
  log,       \* the anchors of all orders, in consensus order
  paid,      \* requests whose payment was taken
  accepted,  \* intakes whose acceptance receipt was handed out
  released   \* delivery receipts handed out

promiseVars == <<log, paid, accepted, released>>

Step(k, r) == Anchor(k, Order[r], r)

(* Some request took this step of order m.                                 *)
Taken(k, m) == PositionsOf(log, m, k) # {}

Init ==
  /\ log = <<>>
  /\ paid = {}
  /\ accepted = {}
  /\ released = {}

Charge(r) ==
  /\ r \in Intakes \/ (r \in Collections /\ Taken("delivered", Order[r]))
  /\ paid' = paid \cup {r}
  /\ UNCHANGED <<log, accepted, released>>

RecordIntake(i, k) ==
  /\ \/ k = "mandate_in"
     \/ k = "payment_intake" /\ i \in paid /\ OnTopic(log, Step("mandate_in", i))
     \/ k = "accepted" /\ OnTopic(log, Step("payment_intake", i))
  /\ log' = Append(log, Step(k, i))
  /\ UNCHANGED <<paid, accepted, released>>

RecordDelivery(d) ==
  /\ Taken("accepted", Order[d])
  /\ log' = Append(log, Step("delivered", d))
  /\ UNCHANGED <<paid, accepted, released>>

RecordRelease(c, k) ==
  /\ \/ k = "payment_balance" /\ c \in paid /\ Taken("delivered", Order[c])
     \/ k = "receipt" /\ OnTopic(log, Step("payment_balance", c))
  /\ log' = Append(log, Step(k, c))
  /\ UNCHANGED <<paid, accepted, released>>

Accept(i) ==
  /\ OnTopic(log, Step("accepted", i))
  /\ accepted' = accepted \cup {i}
  /\ UNCHANGED <<log, paid, released>>

(* A delivery receipt names one order throughout, and everything it names  *)
(* is on the log, itself included.                                         *)
Release(rc) ==
  /\ \A r \in {rc.mandate, rc.intake, rc.result, rc.balance} : Order[r] = rc.order
  /\ OnTopic(log, Step("accepted", rc.mandate))
  /\ OnTopic(log, Step("payment_intake", rc.intake))
  /\ Precedes(log, Step("delivered", rc.result), Step("payment_balance", rc.balance))
  /\ OnTopic(log, Step("receipt", rc.balance))
  /\ released' = released \cup {rc}
  /\ UNCHANGED <<log, paid, accepted>>

Receipts == [order : Orders, mandate : Intakes, intake : Intakes,
             result : Deliveries, balance : Collections]

Next ==
  \/ \E r \in Intakes \cup Collections : Charge(r)
  \/ \E i \in Intakes :
       Accept(i) \/ \E k \in {"mandate_in", "payment_intake", "accepted"} : RecordIntake(i, k)
  \/ \E d \in Deliveries : RecordDelivery(d)
  \/ \E c \in Collections : \E k \in {"payment_balance", "receipt"} : RecordRelease(c, k)
  \/ \E rc \in Receipts : Release(rc)

Spec == Init /\ [][Next]_promiseVars
=============================================================================
