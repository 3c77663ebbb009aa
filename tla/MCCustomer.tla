----------------------------- MODULE MCCustomer -----------------------------
(***************************************************************************)
(* An instance of the customer and the contractor for TLC.                 *)
(***************************************************************************)
EXTENDS CustomerProperties

CONSTANTS customerKey, contractorKey, otherKey, payer, agency, ok, bad

(***************************************************************************)
(* Environments.                                                           *)
(***************************************************************************)
Pays == ("PAYER_ACCOUNT_ID" :> payer) @@ ("PAYER_PRIVATE_KEY" :> ok)
Signs == "CUSTOMER_SIGNING_KEY" :> customerKey
Plain == Pays @@ Signs
Auto == ("CUSTOMER_UAID" :> [scheme |-> "auto"]) @@ ("HEDERA_NETWORK" :> "testnet") @@ Plain
Blanked == ("CUSTOMER_ACCOUNT_ID" :> Blank) @@ Plain
Sells ==
  ("ANCHOR_TOPIC_ID" :> ok) @@ ("CONTRACTOR_DELIVER_TOKEN" :> ok)
    @@ ("CONTRACTOR_SIGNING_KEY" :> contractorKey) @@ ("RECEIVER_ACCOUNT_ID" :> agency)
Dear == ("INTAKE_TINYBARS" :> 9) @@ Sells

(* An agent with an identifier; a price above its cap; an account that is  *)
(* set to nothing, in front of one that could pay.                         *)
MachineSet ==
  {[customer |-> Auto, contractor |-> Sells], [customer |-> Plain, contractor |-> Dear],
   [customer |-> Blanked, contractor |-> Sells]}

(***************************************************************************)
(* What is asked for.                                                      *)
(***************************************************************************)
Story == [readable |-> TRUE, acceptance |-> {"criterion"}]
Invocation(verb, via, story, base) ==
  [verb |-> verb, via |-> via, story |-> story, base |-> base, card |-> via = "cli"]

InvocationSet ==
  {Invocation("order", "cli", Story, "contractor"),
   Invocation("order", "mcp", [Story EXCEPT !.acceptance = {}], "contractor"),
   Invocation("order", "mcp", [Story EXCEPT !.readable = FALSE], "contractor"),
   Invocation("order", "mcp", Story, "elsewhere"),
   Invocation("collect", "mcp", Story, "contractor"),
   Invocation("collect", "cli", Story, "elsewhere"),
   Invocation("demo", "cli", Story, "contractor")}

(* A service that is not the contractor: no receipt, one whose signature   *)
(* does not hold, ones about another work order.                           *)
OtherOrder ==
  SignEnvelope([schema |-> "mandate.v1", from |-> Handle("client"), to |-> Handle("other"),
                thread |-> 1,
                data |-> [order |-> 1, acceptance |-> {"other"}, issuer |-> Handle("client")]],
               otherKey)
Odd(kind) ==
  SignEnvelope([schema |-> "receipt.v1", from |-> Handle("other"), to |-> Handle("client"),
                thread |-> 1,
                data |-> [kind |-> kind, order |-> 1, mandate |-> OtherOrder, payer |-> payer]],
               otherKey)
OddSet == {{}, {[Odd("delivered") EXCEPT !.sig.pub = bad]}, {Odd("accepted")}, {Odd("delivered")}}

(* Nobody goes by another's name, and no signature is forged.              *)
ASSUME IdentityAssumption == OwnIdentifiers /\ NothingForged
=============================================================================
