--------------------------- MODULE EscrowPromise ----------------------------
(***************************************************************************)
(* What a retainer promises (src/docs/extras/retainer.md): money that is   *)
(* authorised moves at most once, or lapses and stays with the customer,   *)
(* and a release is put on record only for a transfer that happened and    *)
(* that credited the contractor.                                           *)
(***************************************************************************)
CONSTANTS
  Schedules,  \* authorisations that can be created
  Payable     \* those that credit the contractor

VARIABLES
  money,    \* what became of each authorisation
  recorded  \* those whose release is on record

vars == <<money, recorded>>

(* Some may have been created before.                                      *)
Init ==
  /\ money \in [Schedules -> {"none", "held"}]
  /\ recorded = {}

Become(s, from, to) ==
  /\ money[s] = from
  /\ money' = [money EXCEPT ![s] = to]
  /\ UNCHANGED recorded

Authorise(s) == Become(s, "none", "held")
Release(s) == Become(s, "held", "paid")
Lapse(s) == Become(s, "held", "lapsed")

Record(s) ==
  /\ s \in Payable
  /\ money[s] = "paid"
  /\ recorded' = recorded \cup {s}
  /\ UNCHANGED money

Next == \E s \in Schedules : Authorise(s) \/ Release(s) \/ Lapse(s) \/ Record(s)

Spec == Init /\ [][Next]_vars
=============================================================================
