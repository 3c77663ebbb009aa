------------------------ MODULE CustomerProperties -------------------------
(***************************************************************************)
(* What the customer must be able to rely on, and the inductive invariant  *)
(* below it.                                                               *)
(***************************************************************************)
EXTENDS Customer

Started == {c \in Calls : calls[c].pc # "off"}
Sent == UNION {{[call |-> c, nr |-> k] : k \in DOMAIN calls[c].sent} : c \in Started}
Request(s) == calls[s.call].sent[s.nr]

(* "Takes a settlement, removing it so one payment cannot pay for two      *)
(* requests": what a request takes is a transfer on the ledger that was    *)
(* made for it, even if the request was sent twice, and no other request   *)
(* takes it.                                                               *)
PaymentBuysOnce ==
  \A s \in Sent : \A p \in Request(s).took :
    /\ p.tx \in ledger
    /\ p.tx = Request(s).header
    /\ \A t \in Sent : p \in Request(t).took => t = s

(* A request that paid is answered "no settled payment" only if it came    *)
(* later than the lifetime of its settlement.                              *)
SettlementFound ==
  \A s \in Sent : Request(s).answer.status = 500 => Request(s).age > Ttl

(* However an invocation ends and whatever becomes of its requests, it     *)
(* pays each leg at most once.                                             *)
ChargedOnce ==
  \A t, u \in ledger : t.by = u.by /\ t.leg = u.leg => t = u

(* An intake that was paid from the command line belongs to an order whose *)
(* id was printed: killed at any moment, the order can still be collected. *)
PaidOrderIsKnown ==
  \A t \in ledger :
    t.leg = "intake" /\ calls[t.by].args.via = "cli" => t.by \in known

(* The intake fee is never spent on a document that is refused, nor on an  *)
(* order that the contractor knows: the customer validates what it signs,  *)
(* and each invocation makes an order of its own.                          *)
IntakeBuysNewOrder ==
  \A s \in Sent : Request(s).leg = "intake" => Request(s).answer.status \notin {200, 422}

(* What is kept can be shown: an acceptance answers the very envelope that *)
(* is kept next to it, a receipt is signed, says delivered, and is about   *)
(* the order it is filed under and about a payment somebody made.          *)
FiledUnderItsOrder ==
  \A m \in Orders :
    /\ \A r \in files[m].accepted :
         VerifyEnvelope(r) /\ files[m].mandate = {r.body.data.mandate}
    /\ \A r \in files[m].receipt :
         VerifyEnvelope(r) /\ r.body.data.order = m /\ r.body.data.kind = "delivered"
           /\ r.body.data.payer \in Accounts

(* The two documents of an order that was paid for pass the verifier's     *)
(* check of identities, by whatever names the two agents address each      *)
(* other.                                                                  *)
IdentityHolds ==
  \A m \in Orders :
    \A r \in files[m].receipt \cup files[m].accepted :
      (\E s \in config.service : r.sig.pub = s.config.key) =>
        CheckAgentIdentity(r, files[m].mandate) # "fail"

(* A receipt that was issued is collected free of charge, as often as      *)
(* needed: after a crash of either side, a lost answer or a repeat.        *)
OwnedReceiptIsFree ==
  \A c \in Started :
    calls[c].args.verb = "collect" /\ calls[c].args.base = "contractor" /\ calls[c].owned =>
      /\ \A t \in ledger : t.by # c
      /\ calls[c].exit # 1

(* Whatever happens, every invocation comes to an end.                     *)
InvocationsEnd == []<>(\A c \in Calls : ~ Running(c))

(***************************************************************************)
(* The inductive invariant.                                                *)
(***************************************************************************)
CallFields == {"pc", "args", "order", "envelope", "leg", "owned", "polls", "signed", "sent",
               "got", "exit"}
RequestFields == {"leg", "stage", "age", "took", "answer", "header"}
JobFields == {"envelope", "payer", "delivered", "receipt"}
FileFields == {"mandate", "accepted", "receipt"}

(* A finite sequence, whatever is in it.                                   *)
IsRow(s) == s \in Seq({s[k] : k \in DOMAIN s})

RequestForm(r) ==
  /\ DOMAIN r = RequestFields
  /\ r.leg \in {"intake", "balance"}
  /\ r.stage \in {"guard", "gate", "claim", "work", "answered", "dead"}
  /\ r.age \in 0..(Ttl + 1)

(* The documents in it are the matter of the parts below.                  *)
CallForm(call) ==
  /\ DOMAIN call = CallFields
  /\ call.pc \in {"refused", "gate", "sign", "ask", "wait", "save", "saved", "deliver", "ended"}
  /\ call.args \in Invocations
  /\ call.order \in Orders
  /\ call.leg \in {"intake", "balance"}
  /\ call.polls \in 0..MaxPolls
  /\ call.signed \in Nat
  /\ call.exit \in {0, 1, Killed}
  /\ IsRow(call.sent)
  /\ \A k \in DOMAIN call.sent : RequestForm(call.sent[k])

TypeOK ==
  /\ synced \in BOOLEAN
  /\ calls = [c \in Calls |-> calls[c]]
  /\ \A c \in Calls : calls[c].pc # "off" => CallForm(calls[c])
  /\ jobs = [m \in Orders |-> jobs[m]]
  /\ \A m \in Orders : \A job \in jobs[m] : DOMAIN job = JobFields
  /\ files = [m \in Orders |-> files[m]]
  /\ \A m \in Orders : DOMAIN files[m] = FileFields
  /\ \A h \in DOMAIN registry :
       DOMAIN registry[h] = {"payment", "age"} /\ registry[h].age \in 0..(Ttl + 1)
  /\ known \subseteq Calls
  /\ faults \in 0..MaxFaults

(* Both agents sign with keys, and the customer has one configuration.     *)
ConfigSound ==
  /\ \A x, y \in config.customer : x = y
  /\ \A cfg \in config.customer : "key" \in DOMAIN cfg.signing /\ cfg.signing.key \in Keys
  /\ \A s \in config.service : s.config.key \in Keys

(* Only its own order is signed by an invocation, once, and as a document  *)
(* that the contractor does not refuse; its id is printed before.          *)
EnvelopeSound(c, call) ==
  /\ \A x, y \in call.envelope : x = y
  /\ \A e \in call.envelope : ~ Refuse(e) /\ e.body.data.order = c
  /\ call.envelope # {} => config.customer # {}
  /\ call.envelope # {} /\ call.args.via = "cli" => c \in known

(* How far each kind of invocation can be.                                 *)
StepSound(c, call) ==
  /\ IF call.args.verb = "collect"
       THEN call.leg = "balance" /\ call.pc \in {"refused", "ask", "wait", "save", "ended"}
       ELSE call.order = c /\ call.pc # "refused"
  /\ call.pc \in {"gate", "sign", "saved", "deliver"} => call.leg = "intake"
  /\ call.leg = "intake" /\ call.pc \notin {"gate", "sign", "ended"} => call.envelope # {}

ReceiptSound(r, m) ==
  /\ VerifyEnvelope(r)
  /\ r.body.data.order = m
  /\ r.body.data.kind = "delivered"
  /\ r.body.data.payer \in Accounts

(* What waits to be filed is about the order and the document that is      *)
(* filed next to it.                                                       *)
AnswerSound(c, call) ==
  /\ call.pc \in {"save", "saved"} /\ call.leg = "intake" =>
       \A r \in call.got : VerifyEnvelope(r) /\ r.body.data.mandate \in call.envelope
  /\ call.pc = "save" /\ call.leg = "balance" =>
       \A r \in call.got : ReceiptSound(r, call.order)
  /\ call.pc = "saved" => files[c].mandate = call.envelope
  /\ files[c].accepted # {} => call.leg = "balance" \/ call.pc \in {"deliver", "ended"}

(* One request for each leg, and one for every repeat.                     *)
SendingSound(call) ==
  /\ Len(call.sent) <= faults + 2
  /\ call.leg = "intake" \/ call.pc = "ask" => Len(call.sent) <= faults + 1
  /\ call.leg = "intake" /\ call.pc \in {"gate", "sign", "ask"} => call.sent = <<>>

(* No money has moved for this leg, and no request of it is under way.     *)
Unpaid(c, call, leg) ==
  /\ \A t \in ledger : t.by = c => t.leg # leg
  /\ \A k \in DOMAIN call.sent : call.sent[k].leg # leg

(* A leg is not paid before it is asked for, nor the balance before the    *)
(* intake is done; all that is sent of a leg carries the one payment that  *)
(* was or will be settled for it.                                          *)
SpendingSound(c, call) ==
  /\ call.pc \in {"gate", "sign", "ask"} => Unpaid(c, call, call.leg)
  /\ call.leg = "intake" => Unpaid(c, call, "balance")
  /\ \A k \in DOMAIN call.sent :
       /\ \A j \in DOMAIN call.sent :
            call.sent[j].leg = call.sent[k].leg => call.sent[j].header = call.sent[k].header
       /\ \A t \in ledger : t.by = c /\ t.leg = call.sent[k].leg => t = call.sent[k].header

(* A receipt that was there is there; nothing is paid for it.              *)
OwnedSound(c, call) ==
  call.args.verb = "collect" /\ call.args.base = "contractor" /\ call.owned =>
    /\ Collectable(call.order)
    /\ call.pc \in {"ask", "save", "ended"}
    /\ call.sent = <<>>
    /\ call.exit # 1
    /\ \A t \in ledger : t.by # c

(* Has or had the settlement of its payment.                               *)
Holds(r) == r.stage = "claim" \/ r.took # {}

(* A request knows its payment, and the settlement that it still has to    *)
(* claim can be claimed unless it came too late.  An intake that is under  *)
(* way is the first of its order.                                          *)
RequestSound(c, r) ==
  /\ r.header.by = c
  /\ r.header.leg = r.leg
  /\ config.service # {}
  /\ Holds(r) => r.header \in ledger
  /\ r.stage = "work" => r.took # {}
  /\ \A p \in r.took : p.tx = r.header
  /\ r.stage \in {"guard", "gate"} => r.age = 0
  /\ r.stage = "claim" =>
       r.age > Ttl \/ (r.header \in DOMAIN registry /\ registry[r.header].age <= r.age)
  /\ r.answer.status = 500 => r.age > Ttl
  /\ r.leg = "intake" =>
       /\ r.answer.status \notin {200, 422}
       /\ r.stage \in {"claim", "work"} => jobs[c] = {}

RequestsSound(c, call) ==
  /\ \A k \in DOMAIN call.sent :
       /\ RequestSound(c, call.sent[k])
       /\ call.sent[k].leg = "intake" => call.args.verb # "collect" /\ call.envelope # {}
  /\ \A j, k \in DOMAIN call.sent :
       Holds(call.sent[j]) /\ Holds(call.sent[k]) /\ call.sent[j].leg = call.sent[k].leg => j = k

CallSound(c, call) ==
  /\ EnvelopeSound(c, call)
  /\ StepSound(c, call)
  /\ AnswerSound(c, call)
  /\ SendingSound(call)
  /\ SpendingSound(c, call)
  /\ OwnedSound(c, call)
  /\ RequestsSound(c, call)

CallsSound == \A c \in Calls : calls[c].pc # "off" => CallSound(c, calls[c])

(* A settlement is kept under the payment that made it.                    *)
RegistrySound == \A h \in DOMAIN registry : registry[h].payment.tx = h

(* One transfer for each leg; an intake is paid for a signed order.        *)
LedgerSound ==
  /\ ChargedOnce
  /\ \A t \in ledger :
       /\ t.by \in Started
       /\ t.leg = "intake" => calls[t.by].envelope # {}

(* A job was paid for, between two agents that are configured.             *)
JobsSound ==
  \A m \in Orders :
    /\ \A x, y \in jobs[m] : x = y
    /\ \A job \in jobs[m] :
         /\ job.envelope.body.data.order = m
         /\ \A r \in job.receipt : ReceiptSound(r, m)
    /\ jobs[m] # {} =>
         /\ \E t \in ledger : t.by = m /\ t.leg = "intake"
         /\ config.service # {} /\ config.customer # {}

FilesSound ==
  /\ FiledUnderItsOrder
  /\ \A m \in Orders : files[m].accepted # {} => m \in Started

IInv ==
  /\ TypeOK
  /\ ConfigSound
  /\ CallsSound
  /\ RegistrySound
  /\ LedgerSound
  /\ JobsSound
  /\ FilesSound

(***************************************************************************)
(* Identities.                                                             *)
(***************************************************************************)
(* What the environment has an agent called, if it is not derived from the *)
(* agent's key: no other agent's identifier.  The programs do not look.    *)
NamesItself(name, key) == IsAgentRef(name) /\ PublicKeyForUaid(name) \subseteq {key}

OwnIdentifiers ==
  \A m \in Machines :
    /\ \A cfg \in LoadCustomerConfig(m.customer) :
         LET ref == Value(m.customer, "CUSTOMER_UAID")
         IN  (ref # Blank /\ ref.scheme = "auto") \/ NamesItself(cfg.signing.from, cfg.signing.key)
    /\ \A s \in ContractorConfigFromEnv(m.contractor) :
         s.uaid # Blank /\ IsUaid(s.uaid) =>
           ~ HasUaidProblems(s.uaid) /\ PublicKeyForUaid(s.uaid) \subseteq {s.key}

(* What another service answers is not signed with the contractor's key.   *)
NothingForged ==
  \A m \in Machines, body \in OddBodies : \A r \in body :
    VerifyEnvelope(r) => \A s \in ContractorConfigFromEnv(m.contractor) : r.sig.pub # s.key

(* The two agents go by names that are theirs.                             *)
NamesSound ==
  /\ \A cfg \in config.customer :
       "from" \in DOMAIN cfg.signing /\ NamesItself(cfg.signing.from, cfg.signing.key)
  /\ \A s \in config.service : IsUaid(s.agent) =>
       ~ HasUaidProblems(s.agent) /\ PublicKeyForUaid(s.agent) \subseteq {s.config.key}

ByContractor(r) == \E s \in config.service : r.sig.pub = s.config.key

FromCustomer(e) ==
  \E cfg \in config.customer : e.body.from = cfg.signing.from /\ e.sig.pub = cfg.signing.key

(* What the contractor signs is from it, and to the customer.              *)
ToCustomer(r) ==
  ByContractor(r) =>
    \E s \in config.service, cfg \in config.customer :
      r.sig.pub = s.config.key /\ r.body.from = s.agent /\ r.body.to = cfg.signing.from

CallNamed(call) ==
  /\ \A e \in call.envelope : FromCustomer(e)
  /\ \A r \in call.got : ToCustomer(r)
  /\ \A k \in DOMAIN call.sent : \A r \in call.sent[k].answer.body : ToCustomer(r)

JobNamed(job) == FromCustomer(job.envelope) /\ \A r \in job.receipt : ToCustomer(r)

FileNamed(file) ==
  /\ \A e \in file.mandate : FromCustomer(e)
  /\ \A r \in file.accepted \cup file.receipt : ToCustomer(r)

(* Every document anywhere names the two agents.                           *)
DocumentsNamed ==
  /\ NamesSound
  /\ \A body \in OddBodies : \A r \in body : VerifyEnvelope(r) => ~ ByContractor(r)
  /\ \A c \in Calls : calls[c].pc # "off" => CallNamed(calls[c])
  /\ \A m \in Orders : \A job \in jobs[m] : JobNamed(job)
  /\ \A m \in Orders : FileNamed(files[m])
=============================================================================
