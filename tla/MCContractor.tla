---------------------------- MODULE MCContractor ----------------------------
(***************************************************************************)
(* Instances of the contractor for TLC: one order, whose intakes carry     *)
(* different signed envelopes, paid by one account or by two.  Requests    *)
(* are model values; symmetry is not used, because the runs check temporal *)
(* properties and single out the malformed requests.                       *)
(***************************************************************************)
EXTENDS ContractorInvariant

CONSTANTS m1, i1, i2, d1, d2, c1, c2, alice, bob

OneOrder == [r \in Requests |-> m1]
OwnEnvelope == [i \in Intakes |-> i]
OnePayer == [r \in Paid |-> alice]
TwoPayers == [r \in Paid |-> IF r \in Intakes THEN alice ELSE bob]
=============================================================================
