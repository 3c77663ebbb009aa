------------------------------- MODULE Wallet -------------------------------
(***************************************************************************)
(* What an agent reads from its environment (src/customer/wallet.ts,       *)
(* contractorConfigFromEnv in src/contractor/server.ts).  An environment   *)
(* is a function of the variables that are set; a variable may be set to   *)
(* nothing.  What is loaded is a set of at most one configuration: it is   *)
(* empty when the program refuses to start.  Which texts the patterns      *)
(* accept is a constant.                                                   *)
(***************************************************************************)
EXTENDS Documents, TLC

CONSTANTS
  Blank,      \* the text of a variable that is set to nothing
  Accounts,   \* well-formed account ids
  Amounts,    \* well-formed amounts
  Networks    \* names of networks, in the form it is used in

Value(env, name) == IF name \in DOMAIN env THEN env[name] ELSE Blank

(* `a?.trim() || b`: the first that is not blank.                          *)
Filled(env, name, default) == IF Value(env, name) # Blank THEN Value(env, name) ELSE default

(* `a ?? b`: the first that is set, blank or not.                          *)
FirstSet(env, name, other) == IF name \in DOMAIN env THEN env[name] ELSE Value(env, other)

(* `a ?? default`.                                                         *)
Given(env, name, default) == IF name \in DOMAIN env THEN env[name] ELSE default

Handle(name) == [scheme |-> "handle", target |-> name, id |-> name, params |-> <<>>]

Some(value, condition) == IF condition THEN {value} ELSE {}

(* A handle, or an identifier that is well-formed.                         *)
IsAgentRef(ref) == ref.scheme = "handle" \/ IsUaid(ref)

(* Another parameter of an identifier: the account on the ledger, if one   *)
(* is known.                                                               *)
HederaNativeId(account) ==
  [name \in IF account = Blank THEN {} ELSE {"nativeId"} |-> account]

SelfIssued(key, account) ==
  UaidFromPublicKey(key, [uid |-> "0", registry |-> "self", proto |-> "rest"]
                           @@ HederaNativeId(account))

(***************************************************************************)
(* The customer.                                                           *)
(***************************************************************************)
(* "auto" derives the identifier from the key; any other must be           *)
(* well-formed, and is not compared with the key.                          *)
CustomerUaid(env, key) ==
  LET ref == Value(env, "CUSTOMER_UAID")
      account == Filled(env, "CUSTOMER_ACCOUNT_ID", Value(env, "PAYER_ACCOUNT_ID"))
  IN  CASE ref = Blank -> {}
        [] ref # Blank /\ ref.scheme = "auto" ->
             {SelfIssued(key, account)}
        [] OTHER -> {ref}

LoadSigningIdentity(env) ==
  LET handle == Filled(env, "CUSTOMER_HANDLE", Handle("client-y-agent"))
      counterparty == Filled(env, "CONTRACTOR_UAID",
                             Filled(env, "CONTRACTOR_AGENT", Handle("agency-x-agent")))
      key == FirstSet(env, "CUSTOMER_SIGNING_KEY", "CUSTOMER_ED25519_PRIVATE_KEY")
      uaid == CustomerUaid(env, key)
      agent == Filled(env, "CUSTOMER_AGENT", handle)
  IN  Some([handle |-> handle, counterparty |-> counterparty, key |-> key,
            from |-> IF uaid = {} THEN agent ELSE CHOOSE u \in uaid : TRUE],
           /\ handle.scheme = "handle"
           /\ IsAgentRef(counterparty)
           /\ key \in Keys
           /\ \A u \in uaid : IsUaid(u))

LoadPaymentIdentity(env) ==
  LET account == FirstSet(env, "CUSTOMER_ACCOUNT_ID", "PAYER_ACCOUNT_ID")
      cap == Filled(env, "CUSTOMER_MAX_TINYBARS_PER_PAYMENT", 5)
      network == Filled(env, "HEDERA_NETWORK", "testnet")
  IN  Some([account |-> account, cap |-> cap, network |-> network, asset |-> "HBAR"],
           /\ account \in Accounts
           /\ FirstSet(env, "CUSTOMER_PRIVATE_KEY", "PAYER_PRIVATE_KEY") # Blank
           /\ cap \in Amounts
           /\ network \in Networks)

LoadCustomerConfig(env) ==
  {[signing |-> s, payment |-> p] : s \in LoadSigningIdentity(env), p \in LoadPaymentIdentity(env)}

(***************************************************************************)
(* The contractor.  Only what it cannot do without is required.            *)
(***************************************************************************)
ContractorConfigFromEnv(env) ==
  LET payTo == FirstSet(env, "CONTRACTOR_ACCOUNT_ID", "RECEIVER_ACCOUNT_ID")
      intake == Filled(env, "INTAKE_TINYBARS", 1)
      balance == Filled(env, "BALANCE_TINYBARS", 4)
  IN  Some([payTo |-> payTo, intake |-> intake, balance |-> balance,
            network |-> Given(env, "X402_NETWORK", "testnet"),
            asset |-> Given(env, "X402_ASSET", "HBAR"),
            uaid |-> Value(env, "CONTRACTOR_UAID"), key |-> Value(env, "CONTRACTOR_SIGNING_KEY")],
           /\ \A name \in {"ANCHOR_TOPIC_ID", "CONTRACTOR_SIGNING_KEY",
                           "CONTRACTOR_DELIVER_TOKEN"} : Value(env, name) # Blank
           /\ payTo # Blank \/ "CONTRACTOR_ACCOUNT_ID" \in DOMAIN env
           /\ {intake, balance} \subseteq Amounts)

(* Configured, or derived from the key that signs the receipts.            *)
ContractorUaid(config) ==
  IF config.uaid # Blank THEN config.uaid
  ELSE SelfIssued(config.key, config.payTo)

(* The card the service publishes about itself.                            *)
AgentCard(config) == [did |-> ContractorUaid(config), signingKey |-> config.key]
=============================================================================
