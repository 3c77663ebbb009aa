----------------------------- MODULE Documents ------------------------------
(***************************************************************************)
(* Signed envelopes and agent identifiers (src/protocol), and the checks   *)
(* of the verifier that need nothing but the documents.                    *)
(*                                                                         *)
(* A signature is a record of the key that made it and of the body it      *)
(* covers; canonicalization and hashing are injective, so an envelope is   *)
(* its own hash.  An identifier is split into the parts its text has; a    *)
(* did:key id is the multibase tag, the codec and the key it encodes.      *)
(* What may be absent is a set of at most one value.                       *)
(***************************************************************************)
EXTENDS Naturals, Sequences

CONSTANT Keys  \* acceptable Ed25519 public keys

(***************************************************************************)
(* Identifiers (src/protocol/identity.ts).                                 *)
(***************************************************************************)
ParamOrder == <<"uid", "registry", "proto", "nativeId", "domain", "src">>

DidKeyFromPublicKey(key) == [tag |-> "z", codec |-> "ed25519", key |-> key]

(* The key inside a did:key id; none for another key type or DID method.   *)
PublicKeyFromDidKey(id) ==
  {k \in Keys : id.tag = "z" /\ id.codec = "ed25519" /\ id.key = k}

(* Parameters are written in the standard's order, each at its place in    *)
(* it, `uid` always.                                                       *)
FormatUaid(target, id, params) ==
  LET written == {k \in DOMAIN ParamOrder :
                    ParamOrder[k] = "uid" \/ ParamOrder[k] \in DOMAIN params}
      Value(name) == IF name \in DOMAIN params THEN params[name] ELSE "0"
  IN  [scheme |-> "uaid", target |-> target, id |-> id,
       params |-> [k \in written |-> <<ParamOrder[k], Value(ParamOrder[k])>>]]

UaidFromPublicKey(key, params) == FormatUaid("did", DidKeyFromPublicKey(key), params)

(* Well-formed: scheme, target, and parameters with a name and a value,    *)
(* no name twice.  A handle has another scheme.                            *)
IsUaid(text) ==
  /\ text.scheme = "uaid"
  /\ text.target \in {"aid", "did"}
  /\ \A j \in DOMAIN text.params :
       /\ text.params[j][1] # "" /\ text.params[j][2] # ""
       /\ \A k \in DOMAIN text.params : text.params[j][1] = text.params[k][1] => j = k

(* The identifier breaks a "shall" that a reader can see from its text.    *)
HasUaidProblems(text) ==
  \/ ~ IsUaid(text)
  \/ \A k \in DOMAIN text.params : text.params[k][1] # "uid"
  \/ /\ text.target = "did"
     /\ text.id.tag = "z" /\ text.id.codec = "ed25519"
     /\ PublicKeyFromDidKey(text.id) = {}

(* The key an identifier commits to; only a did:key commits to one.        *)
PublicKeyForUaid(text) ==
  IF IsUaid(text) /\ text.target = "did" THEN PublicKeyFromDidKey(text.id) ELSE {}

(***************************************************************************)
(* Envelopes (src/protocol/envelope.ts).                                   *)
(***************************************************************************)
SignEnvelope(body, key) == [body |-> body, sig |-> [pub |-> key, over |-> body]]

VerifyEnvelope(env) == env.sig.pub \in Keys /\ env.sig.over = env.body

(***************************************************************************)
(* Reading a document (src/verifier/cli.ts): a parsed value is an envelope *)
(* of the right schema whose receipt is valid, or it is an input error.    *)
(***************************************************************************)
AsEnvelope(value) == {"body", "sig"} \subseteq DOMAIN value

ParseReceipt(value) ==
  AsEnvelope(value) /\ value.body.schema = "receipt.v1+payment.v1" /\ value.body.valid

ParseMandate(value) == AsEnvelope(value) /\ value.body.schema = "mandate.v1"

(***************************************************************************)
(* Checks of the documents alone (src/verifier/checks.ts).                 *)
(***************************************************************************)
Result(ok) == IF ok THEN "pass" ELSE "fail"

(* Check 1.                                                                *)
CheckReceiptSignature(receipt) == Result(VerifyEnvelope(receipt))

(* The receipt answers the agent that sent the work order, and that agent  *)
(* is the key that signed it.                                              *)
CounterpartyAgrees(receipt, mandate) ==
  \A m \in mandate :
    /\ \A k \in PublicKeyForUaid(m.body.from) : k = m.sig.pub
    /\ receipt.body.to = m.body.from

(* Check 2: the identifier the receipt comes from is the key that signed   *)
(* it.  A handle, or an identifier that would have to be resolved, makes   *)
(* no claim to check.                                                      *)
CheckAgentIdentity(receipt, mandate) ==
  LET from == receipt.body.from
      to == receipt.body.to
      claimed == PublicKeyForUaid(from)
  IN  IF ~ IsUaid(from) THEN "n/a"
      ELSE IF HasUaidProblems(from) \/ (to.scheme = "uaid" /\ ~ IsUaid(to)) THEN "fail"
      ELSE IF claimed = {} THEN "n/a"
      ELSE Result(claimed = {receipt.sig.pub} /\ CounterpartyAgrees(receipt, mandate))
=============================================================================
