----------------------------- MODULE MCRetainer -----------------------------
(***************************************************************************)
(* An instance of the retainer for TLC.                                    *)
(***************************************************************************)
EXTENDS RetainerProperties

CONSTANTS topic, m1, customer, agency, bob

(* Somebody else's schedule, which the contractor is made to sign.         *)
Others == <<[id |-> 0, creator |-> bob, payee |-> bob]>>
=============================================================================
