----------------------------- MODULE AuditTopic -----------------------------
(***************************************************************************)
(* The audit trail of x402 work receipts: an append-only public consensus  *)
(* topic that several orders share.  An anchor carries the kind of step it *)
(* proves, the order it belongs to and the hash of one document.           *)
(*                                                                         *)
(* A document is written by exactly one request of the contractor, and a   *)
(* request writes at most one document of each kind, so the hash of an     *)
(* anchor is abstracted to `by`, the request whose document was hashed.    *)
(* The position of an anchor in the sequence is its consensus sequence     *)
(* number; the network assigns consensus timestamps in the same order.     *)
(***************************************************************************)
EXTENDS Naturals, Sequences

RequiredKinds == {"mandate_in", "payment_intake", "accepted",
                "delivered", "payment_balance", "receipt"}

(* Mutant: the steps in the order in which the kinds are declared.         *)
DeclaredSteps == <<"mandate_in", "accepted", "delivered",
                   "payment_intake", "payment_balance", "receipt">>

(* The six anchors every order must have, in the only order they can       *)
(* legitimately appear.                                                    *)
ExpectedSteps == <<"mandate_in", "payment_intake", "accepted",
                   "delivered", "payment_balance", "receipt">>

Anchor(k, m, r) == [kind |-> k, order |-> m, by |-> r]

(* `a` reached consensus.                                                  *)
OnTopic(topic, a) == \E n \in DOMAIN topic : topic[n] = a

(* `a` reached consensus before `b` did.                                   *)
Precedes(topic, a, b) ==
  \E i, j \in DOMAIN topic : i < j /\ topic[i] = a /\ topic[j] = b

(* Sequence numbers of the anchors of one kind that one order has.         *)
PositionsOf(topic, m, k) ==
  {n \in DOMAIN topic : topic[n].order = m /\ topic[n].kind = k}

(* Mutant: the last anchor of a kind counts.                               *)
LastOf(topic, m, k) ==
  topic[CHOOSE n \in PositionsOf(topic, m, k) :
          \A o \in PositionsOf(topic, m, k) : o <= n]

(* The first anchor of a kind of an order; only asked for when there is    *)
(* one.                                                                    *)
FirstOf(topic, m, k) ==
  topic[CHOOSE n \in PositionsOf(topic, m, k) :
          \A o \in PositionsOf(topic, m, k) : n <= o]

(* Some kind of step was anchored twice for this order.                    *)
Ambiguous(topic, m) ==
  \E k \in RequiredKinds : \E i, j \in PositionsOf(topic, m, k) : i # j
=============================================================================
