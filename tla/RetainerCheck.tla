--------------------------- MODULE RetainerCheck ----------------------------
(***************************************************************************)
(* Check 7 of the verifier (src/verifier/retainer.ts): was a retainer held *)
(* on the ledger, and released only after the delivery?                    *)
(*                                                                         *)
(* The hash of a retainer anchor covers the schedule and, once released,   *)
(* its transfer, which has the schedule's transaction id; the `ref` of the *)
(* anchor names the same.  Both are abstracted to `by`, the schedule.  The *)
(* amount is fixed in the scheduled transfer and left out.                 *)
(***************************************************************************)
EXTENDS AuditTopic

HasAnchor(topic, m, k) == PositionsOf(topic, m, k) # {}

Held(topic, m) == HasAnchor(topic, m, "retainer_scheduled")
PaidOut(topic, m) == HasAnchor(topic, m, "retainer_released")

(* The schedule and the transfer a verifier has to look up.                *)
RetainerLookups(topic, m) ==
  [schedule |-> IF Held(topic, m) THEN {FirstOf(topic, m, "retainer_scheduled").by} ELSE {},
   release |-> IF PaidOut(topic, m) THEN {FirstOf(topic, m, "retainer_released").by} ELSE {}]

(* The schedule the first anchor names stands, and the payer created it.   *)
Authorised(scheduled, schedule, payer) ==
  \E s \in schedule :
    /\ s.id = scheduled.by
    /\ ~ s.deleted
    /\ s.creator = payer

(* The transfer moved the money between the two parties.                   *)
ReleasedAmount(release, payer, payee) ==
  \E t \in release : t.transfer.payer = payer /\ t.transfer.payee = payee

(* Mutant: any delivery will do, whenever it was.                          *)
DeliveredAtAll(topic, m, release) == HasAnchor(topic, m, "delivered")

(* The release reached consensus after the delivery.                       *)
ReleasedAfterDelivery(topic, m, release) ==
  /\ HasAnchor(topic, m, "delivered")
  /\ \A t \in release : t.at > FirstOf(topic, m, "delivered").at

(* The anchored release is the transfer this schedule executed, and both   *)
(* anchors cover it.                                                       *)
ReleaseStands(topic, m, schedule, release, payer, payee) ==
  LET scheduled == FirstOf(topic, m, "retainer_scheduled")
      released == FirstOf(topic, m, "retainer_released")
  IN  /\ scheduled.at < released.at
      /\ ReleasedAmount(release, payer, payee)
      /\ \A t \in release :
           /\ t.transfer.result = "SUCCESS"
           /\ t.transfer.scheduled
           /\ \A s \in schedule : s.executed = t.at
      /\ ReleasedAfterDelivery(topic, m, release)
      /\ released.by = scheduled.by

(* Most orders carry no retainer: the check then decides nothing.          *)
CheckRetainer(topic, m, schedule, release, payer, payee) ==
  IF ~ Held(topic, m) /\ ~ PaidOut(topic, m) THEN "n/a"
  ELSE IF /\ Held(topic, m)
          /\ Authorised(FirstOf(topic, m, "retainer_scheduled"), schedule, payer)
          /\ IF PaidOut(topic, m)
               THEN ReleaseStands(topic, m, schedule, release, payer, payee)
               ELSE \A s \in schedule : s.executed = 0
       THEN "pass" ELSE "fail"
=============================================================================
