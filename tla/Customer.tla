------------------------------ MODULE Customer ------------------------------
(***************************************************************************)
(* The customer agent (src/customer) and the contractor as it meets it.    *)
(*                                                                         *)
(* `order` signs a work order and pays the intake fee, `collect` pays the  *)
(* balance and takes the receipt.  Each runs from the command line or as a *)
(* tool of the MCP server (src/mcp/server.ts); the end-to-end demo         *)
(* (src/demo/run-e2e.ts) runs one after the other.  An invocation keeps    *)
(* nothing but the files it writes: it may be killed or lose its answer at *)
(* any time, after the money moved or before.                              *)
(*                                                                         *)
(* The contractor (src/contractor/server.ts) is taken at the grain of one  *)
(* paid request: guard, gate, settle hook, handler.  What a handler does   *)
(* with anchors and files is the matter of module Contractor; here it      *)
(* succeeds or fails after it took the payment.                            *)
(***************************************************************************)
EXTENDS FiniteSets, Settlements, Wallet

CONSTANTS
  Machines,     \* [customer, contractor]: the environments of the two agents
  Invocations,  \* what can be asked for: [verb, via, story, base, card]
  OddBodies,    \* what a service that is not the contractor may answer
  MaxCalls,     \* bound: invocations
  MaxRunning,   \* bound: invocations that run at a time
  MaxPolls,     \* times the demo asks for a price before its deadline
  MaxFaults     \* bound: crashes of the contractor and repeated requests

(* What can be asked for.                                                  *)
ASSUME InvocationsAssumption ==
  \A i \in Invocations : i.verb \in {"order", "collect", "demo"}

(* The contractor signs with a key.  (One with a malformed key does not    *)
(* start, unless it names itself in CONTRACTOR_UAID; then it fails         *)
(* whenever it seals a receipt, and issues none.)                          *)
ASSUME KeyAssumption ==
  \A m \in Machines : \A s \in ContractorConfigFromEnv(m.contractor) : s.key \in Keys

ASSUME BoundsAssumption ==
  MaxCalls \in Nat /\ MaxRunning \in Nat /\ MaxPolls \in Nat /\ MaxFaults \in Nat

VARIABLES
  config,    \* what the two agents load from their environments, fixed
  synced,    \* the gate has heard from the facilitator and can quote a price
  registry,  \* settlements recorded and not claimed
  jobs,      \* the contractor's job of each order, if any
  ledger,    \* transfers that settled: [by, leg, nr]
  calls,     \* the invocations
  known,     \* order ids that were printed or returned
  files,     \* the artifacts of each order
  faults     \* crashes and repeats so far

vars == <<config, synced, registry, jobs, ledger, calls, known, files, faults>>
service == <<synced, registry, jobs>>

(* An order is named by the invocation that makes it; 0 is nobody's order. *)
Calls == 1..MaxCalls
Orders == 0..MaxCalls

Off == [pc |-> "off"]
Killed == 137
Running(c) == calls[c].pc \notin {"off", "ended"}

Init ==
  /\ \E m \in Machines :
       config = [customer |-> LoadCustomerConfig(m.customer),
                 service |-> {[agent |-> ContractorUaid(s), config |-> s] :
                                s \in ContractorConfigFromEnv(m.contractor)}]
  /\ synced = FALSE
  /\ registry = Empty
  /\ jobs = [m \in Orders |-> {}]
  /\ ledger = {}
  /\ calls = [c \in Calls |-> Off]
  /\ known = {}
  /\ files = [m \in Orders |-> [mandate |-> {}, accepted |-> {}, receipt |-> {}]]
  /\ faults = 0

(***************************************************************************)
(* Documents.                                                              *)
(***************************************************************************)
(* A work order has acceptance criteria, or it is not valid.               *)
ValidMandate(mandate) == mandate.acceptance # {}

(* Mutant: what the card says is signed and paid for unseen.               *)
BuildUnchecked(m, story, identity) ==
  {[order |-> m, acceptance |-> story.acceptance, issuer |-> identity.handle]}

(* The criteria are copied; the result is validated before it is signed.   *)
BuildMandate(m, story, identity) ==
  LET mandate == [order |-> m, acceptance |-> story.acceptance, issuer |-> identity.handle]
  IN  Some(mandate, ValidMandate(mandate))

(* The thread is the order itself.                                         *)
BuildMandateEnvelope(mandate, identity) ==
  SignEnvelope([schema |-> "mandate.v1", from |-> identity.from, to |-> identity.counterparty,
                thread |-> mandate.order, data |-> mandate], identity.key)

(* The counterparty is addressed by the identifier on its card, if it      *)
(* shows a card with one.                                                  *)
ResolveCounterparty(identity, card) ==
  IF IsUaid(identity.counterparty) \/ card = {} \/ \E k \in card : ~ IsUaid(k.did) THEN identity
  ELSE [identity EXCEPT !.counterparty = (CHOOSE k \in card : TRUE).did]

(* A body is refused unless it is a signed, valid work order.              *)
Refuse(envelope) ==
  \/ envelope.body.schema # "mandate.v1"
  \/ ~ VerifyEnvelope(envelope)
  \/ ~ ValidMandate(envelope.body.data)

(* Mutant: the receipt goes to the handle in the document.                 *)
SealForIssuer(s, kind, envelope, payer) ==
  SignEnvelope([schema |-> IF kind = "delivered" THEN "receipt.v1+payment.v1" ELSE "receipt.v1",
                from |-> s.agent, to |-> envelope.body.data.issuer,
                thread |-> envelope.body.thread,
                data |-> [kind |-> kind, order |-> envelope.body.data.order,
                          mandate |-> envelope, payer |-> payer]], s.config.key)

(* A receipt answers the agent that sent the order, in its thread.         *)
SealReceipt(s, kind, envelope, payer) ==
  SignEnvelope([schema |-> IF kind = "delivered" THEN "receipt.v1+payment.v1" ELSE "receipt.v1",
                from |-> s.agent, to |-> envelope.body.from,
                thread |-> envelope.body.thread,
                data |-> [kind |-> kind, order |-> envelope.body.data.order,
                          mandate |-> envelope, payer |-> payer]], s.config.key)

(* What is refused is answered with a signed refusal.  (The customer sends *)
(* nothing of the kind.)                                                   *)
SealRefusal(s, envelope) == SealReceipt(s, "rejected", envelope, Blank)

(* A receipt envelope, its signature verified.                             *)
TakeReceipt(body) == {r \in body : VerifyEnvelope(r)}

(* Mutant: any acceptance of an order with this id.                        *)
ParseAnyAcceptance(body, envelope) ==
  {r \in TakeReceipt(body) : r.body.data.kind = "accepted"}

(* Accepted, this order, this very envelope.                               *)
ParseAcceptedResponse(body, envelope) ==
  {r \in TakeReceipt(body) : /\ r.body.data.kind = "accepted"
                             /\ r.body.data.order = envelope.body.data.order
                             /\ r.body.data.mandate = envelope}

(* Delivered, this order, and its payment has a payer.                     *)
ParseDeliveredResponse(body, m) ==
  {r \in TakeReceipt(body) : /\ r.body.data.kind = "delivered"
                             /\ r.body.data.order = m
                             /\ r.body.data.payer \in Accounts}

(***************************************************************************)
(* The paying fetch (src/customer/pay.ts).                                 *)
(***************************************************************************)
(* What comes back: status, what the payment header says, and the receipt  *)
(* in the body, if any.                                                    *)
Answer(status, payment, body) == [status |-> status, payment |-> payment, body |-> body]

NoAnswer == Answer(0, "none", {})

SpendControlsFor(payment) ==
  [network |-> payment.network, asset |-> payment.asset, max |-> payment.cap]

(* The price is one the wallet may pay.                                    *)
Permitted(payment, quote) ==
  LET controls == SpendControlsFor(payment)
  IN  /\ quote.network = controls.network
      /\ quote.asset = controls.asset
      /\ quote.amount <= controls.max

(* Mutant: what was not paid for is an error, whatever it is.              *)
PaidOnly(answer, allowUnpaid) ==
  answer.payment = "settled" /\ answer.status \in 200..399

(* Served and paid for, or served for free where that is expected.         *)
PayFor(answer, allowUnpaid) ==
  /\ answer.payment \notin {"settle_failed", "payment_required"}
  /\ answer.status \in 200..399
  /\ answer.payment = "settled" \/ allowUnpaid

(***************************************************************************)
(* An invocation.                                                          *)
(***************************************************************************)
Becomes(c, call) == calls' = [calls EXCEPT ![c] = call]
Goto(c, pc) == Becomes(c, [calls[c] EXCEPT !.pc = pc])

(* What is left of an invocation is its exit code, and its requests while  *)
(* the contractor is still working on one of them.                         *)
Over(r) == r.stage \in {"answered", "dead"}
Left(r) == IF Over(r) THEN [r EXCEPT !.stage = "dead", !.age = 0, !.answer = NoAnswer] ELSE r
LeftOf(sent) ==
  IF \A k \in DOMAIN sent : Over(sent[k]) THEN <<>> ELSE [k \in DOMAIN sent |-> Left(sent[k])]
Ended(call, code) ==
  [call EXCEPT !.pc = "ended", !.got = {}, !.polls = 0, !.signed = 0, !.exit = code,
               !.sent = LeftOf(call.sent)]
End(c, code) == Becomes(c, Ended(calls[c], code))

Collectable(m) == \E job \in jobs[m] : job.receipt # {}

FirstStep(verb) ==
  IF verb = "demo" THEN "gate"
  ELSE IF verb = "order" THEN "sign"
  ELSE IF config.customer = {} THEN "refused" ELSE "ask"

NewCall(invocation, m) ==
  [pc |-> FirstStep(invocation.verb), args |-> invocation, order |-> m, envelope |-> {},
   leg |-> IF invocation.verb = "collect" THEN "balance" ELSE "intake",
   owned |-> Collectable(m), polls |-> MaxPolls, signed |-> 0, sent |-> <<>>, got |-> {},
   exit |-> 0]

(* An order names itself; a collection names an order it was told about.   *)
Start(c, invocation, m) ==
  /\ calls[c].pc = "off"
  /\ \A d \in 1..(c - 1) : calls[d].pc # "off"
  /\ Cardinality({d \in Calls : Running(d)}) < MaxRunning
  /\ IF invocation.verb = "collect" THEN m \in known \cup {0} ELSE m = c
  /\ Becomes(c, NewCall(invocation, m))
  /\ UNCHANGED <<config, service, ledger, known, files, faults>>

(* Killed, or a connection that breaks: exit code 1 or none.  The request  *)
(* that was sent is not withdrawn.  (The demo dies with its contractor.)   *)
Throw(c) ==
  /\ Running(c)
  /\ calls[c].args.verb # "demo"
  /\ End(c, Killed)
  /\ UNCHANGED <<config, service, ledger, known, files, faults>>

(* The environment does not describe a usable agent: nothing is sent.      *)
Misconfigured(c) ==
  /\ calls[c].pc = "refused"
  /\ End(c, 1)
  /\ UNCHANGED <<config, service, ledger, known, files, faults>>

(* Mutant: the deadline is never looked at.                                *)
WaitForGateForever(c) ==
  /\ calls[c].pc = "gate"
  /\ IF synced THEN Goto(c, "sign") ELSE Becomes(c, [calls[c] EXCEPT !.polls = MaxPolls - calls[c].polls])
  /\ UNCHANGED <<config, service, ledger, known, files, faults>>

(* The demo asks the gate for a price until it can quote one.              *)
WaitForPaymentGate(c) ==
  /\ calls[c].pc = "gate"
  /\ IF synced THEN Goto(c, "sign")
     ELSE IF calls[c].polls > 0 THEN Becomes(c, [calls[c] EXCEPT !.polls = calls[c].polls - 1])
     ELSE End(c, 1)
  /\ UNCHANGED <<config, service, ledger, known, files, faults>>

CardOf(c) ==
  IF calls[c].args.card THEN {AgentCard(s.config) : s \in config.service} ELSE {}

SignedBy(c, identity) ==
  {BuildMandateEnvelope(mandate, identity) :
     mandate \in BuildMandate(c, calls[c].args.story, identity)}

SignedOrder(c) ==
  UNION {SignedBy(c, ResolveCounterparty(cfg.signing, CardOf(c))) : cfg \in config.customer}

(* Mutant: the id is told once the order is accepted.                      *)
SignQuietly(c) ==
  /\ calls[c].pc = "sign"
  /\ Becomes(c, [calls[c] EXCEPT !.pc = "ask", !.envelope = SignedOrder(c)])
  /\ UNCHANGED <<config, service, ledger, known, files, faults>>

(* Load the story, ask the contractor for its card, build, validate and    *)
(* sign the work order; the command prints its id, the tool does not.      *)
Sign(c) ==
  /\ calls[c].pc = "sign"
  /\ IF calls[c].args.story.readable /\ SignedOrder(c) # {}
       THEN /\ Becomes(c, [calls[c] EXCEPT !.pc = "ask", !.envelope = SignedOrder(c)])
            /\ known' = IF calls[c].args.via = "cli" THEN known \cup {c} ELSE known
       ELSE End(c, 1) /\ UNCHANGED known
  /\ UNCHANGED <<config, service, ledger, files, faults>>

(* The answer is an error, or what it carries is looked at before it is    *)
(* kept.                                                                   *)
ReceiptIn(call, answer) ==
  IF call.leg = "intake" THEN UNION {ParseAcceptedResponse(answer.body, e) : e \in call.envelope}
  ELSE ParseDeliveredResponse(answer.body, call.order)

Conclude(c, answer) ==
  LET receipt == ReceiptIn(calls[c], answer)
  IN  IF PayFor(answer, calls[c].leg = "balance") /\ receipt # {}
        THEN Becomes(c, [calls[c] EXCEPT !.pc = "save", !.got = receipt])
        ELSE End(c, 1)

(* The guard ahead of the gate: unknown, issued before, not delivered; or  *)
(* no answer yet.                                                          *)
GuardOf(job) ==
  IF job.receipt # {} THEN {Answer(200, "none", job.receipt)}
  ELSE IF job.delivered THEN {} ELSE {Answer(409, "none", {})}
Guard(leg, m) ==
  IF leg = "intake" THEN {}
  ELSE IF jobs[m] = {} THEN {Answer(404, "none", {})}
  ELSE UNION {GuardOf(job) : job \in jobs[m]}

Quote(s, leg) ==
  [network |-> s.config.network, asset |-> s.config.asset,
   amount |-> IF leg = "intake" THEN s.config.intake ELSE s.config.balance]

(* The gate can quote a price, and the wallet may pay it.                 *)
Payable(leg) ==
  /\ synced
  /\ \E s \in config.service, cfg \in config.customer : Permitted(cfg.payment, Quote(s, leg))

(* Each request that is paid for carries a payment of its own, signed for  *)
(* it; only the very same payment is refused a second time.                *)
NewPayment(c) == [by |-> c, leg |-> calls[c].leg, nr |-> calls[c].signed + 1]

NewRequest(c) ==
  [leg |-> calls[c].leg, stage |-> "guard", age |-> 0, took |-> {}, answer |-> NoAnswer,
   header |-> NewPayment(c)]

(* The call, after one more payment was signed.                            *)
Paying(c) == [calls[c] EXCEPT !.signed = @ + 1]

(* The first request, unpaid: answered by the guard, or with a price that  *)
(* is paid by sending the request again with a payment.                    *)
Ask(c) ==
  LET leg == calls[c].leg
      guarded == Guard(leg, calls[c].order)
  IN  /\ calls[c].pc = "ask"
      /\ calls[c].args.base = "contractor"
      /\ \/ config.service # {} /\ \E a \in guarded : Conclude(c, a)
         \/ /\ config.service # {} /\ guarded = {} /\ Payable(leg)
            /\ Becomes(c, [Paying(c) EXCEPT !.pc = "wait",
                                            !.sent = Append(calls[c].sent, NewRequest(c))])
         \/ /\ config.service = {} \/ (guarded = {} /\ ~ Payable(leg))
            /\ End(c, 1)
      /\ UNCHANGED <<config, service, ledger, known, files, faults>>

(* A service at the wrong address answers what it likes, paid or not.      *)
AskElsewhere(c, paid, body) ==
  /\ calls[c].pc = "ask"
  /\ calls[c].args.base = "elsewhere"
  /\ ledger' = ledger \cup IF paid THEN {NewPayment(c)} ELSE {}
  /\ Conclude(c, Answer(200, IF paid THEN "settled" ELSE "none", body))
  /\ UNCHANGED <<config, service, known, files, faults>>

Copies(c) ==
  IF calls[c].pc # "wait" THEN {}
  ELSE {k \in DOMAIN calls[c].sent : calls[c].sent[k].leg = calls[c].leg}

Serve(c, k, r) ==
  Becomes(c, [calls[c] EXCEPT !.sent = [calls[c].sent EXCEPT ![k] = r]])

(* Mutant: a request that was not answered is made again, and paid again.  *)
PayAgain(c) ==
  \E k \in Copies(c) :
    /\ Over(calls[c].sent[k])
    /\ IF calls[c].sent[k].stage = "dead" THEN Goto(c, "ask")
       ELSE Conclude(c, calls[c].sent[k].answer)
    /\ UNCHANGED <<config, service, ledger, known, files, faults>>

(* The answer, or a connection that the contractor's end broke.            *)
Receive(c) ==
  \E k \in Copies(c) :
    /\ Over(calls[c].sent[k])
    /\ Conclude(c, calls[c].sent[k].answer)
    /\ UNCHANGED <<config, service, ledger, known, files, faults>>

(* Mutant: the acceptance first, then the signed order.                    *)
SaveAcceptanceFirst(c) ==
  /\ calls[c].pc \in {"save", "saved"} /\ calls[c].leg = "intake"
  /\ \/ /\ calls[c].pc = "save"
        /\ files' = [files EXCEPT ![c] = [files[c] EXCEPT !.accepted = calls[c].got]]
        /\ Goto(c, "saved")
        /\ UNCHANGED known
     \/ /\ calls[c].pc = "saved"
        /\ files' = [files EXCEPT ![c] = [files[c] EXCEPT !.mandate = calls[c].envelope]]
        /\ known' = known \cup {c}
        /\ IF calls[c].args.verb = "demo" THEN Goto(c, "deliver") ELSE End(c, 0)
  /\ UNCHANGED <<config, service, ledger, faults>>

(* The signed order first, then its acceptance.                            *)
SaveOrderArtifacts(c) ==
  /\ calls[c].pc \in {"save", "saved"} /\ calls[c].leg = "intake"
  /\ \/ /\ calls[c].pc = "save"
        /\ files' = [files EXCEPT ![c] = [files[c] EXCEPT !.mandate = calls[c].envelope]]
        /\ Goto(c, "saved")
        /\ UNCHANGED known
     \/ /\ calls[c].pc = "saved"
        /\ files' = [files EXCEPT ![c] = [files[c] EXCEPT !.accepted = calls[c].got]]
        /\ known' = known \cup {c}
        /\ IF calls[c].args.verb = "demo" THEN Goto(c, "deliver") ELSE End(c, 0)
  /\ UNCHANGED <<config, service, ledger, faults>>

SaveReceiptArtifact(c) ==
  LET m == calls[c].order
  IN  /\ calls[c].pc = "save"
      /\ calls[c].leg = "balance"
      /\ files' = [files EXCEPT ![m] = [files[m] EXCEPT !.receipt = calls[c].got]]
      /\ End(c, 0)
      /\ UNCHANGED <<config, service, ledger, known, faults>>

(* The contractor's operator records the deliverable; a repeat changes     *)
(* nothing.                                                                *)
Delivered(m) == [jobs EXCEPT ![m] = {[job EXCEPT !.delivered = TRUE] : job \in jobs[m]}]

(* The demo plays the operator, then collects the order it made.           *)
DemoDelivers(c) ==
  /\ calls[c].pc = "deliver"
  /\ jobs' = Delivered(c)
  /\ IF jobs[c] = {} THEN End(c, 1)
     ELSE Becomes(c, [calls[c] EXCEPT !.pc = "ask", !.leg = "balance"])
  /\ UNCHANGED <<config, synced, registry, ledger, known, files, faults>>

(***************************************************************************)
(* The contractor.                                                         *)
(***************************************************************************)
(* The facilitator's `/supported` answer arrives.                          *)
Sync ==
  /\ ~ synced
  /\ synced' = TRUE
  /\ UNCHANGED <<config, registry, jobs, ledger, calls, known, files, faults>>

Operator(m) ==
  /\ \E job \in jobs[m] : ~ job.delivered
  /\ jobs' = Delivered(m)
  /\ UNCHANGED <<config, synced, registry, ledger, calls, known, files, faults>>

Reply(c, k, answer) ==
  Serve(c, k, [calls[c].sent[k] EXCEPT !.stage = "answered", !.answer = answer])

(* The paid request passes the same guard as the unpaid one did.           *)
Admit(c, k) ==
  LET r == calls[c].sent[k]
      guarded == Guard(r.leg, calls[c].order)
  IN  /\ r.stage = "guard"
      /\ IF guarded = {} THEN Serve(c, k, [r EXCEPT !.stage = "gate"])
         ELSE \E a \in guarded : Reply(c, k, a)
      /\ UNCHANGED <<config, service, ledger, known, files, faults>>

NotSettled == Answer(402, "settle_failed", {})

(* Mutant: the hook does not ask whether the settlement succeeded.         *)
RecordAttempt(c, k) ==
  LET r == calls[c].sent[k]
  IN  /\ r.stage = "gate"
      /\ \/ /\ r.header \notin ledger
            /\ ledger' = ledger \cup {r.header}
            /\ registry' = Record(registry, r.header, [tx |-> r.header, payer |-> "payer"])
            /\ Serve(c, k, [r EXCEPT !.stage = "claim"])
         \/ /\ registry' = Record(registry, r.header, [tx |-> <<>>, payer |-> Blank])
            /\ Reply(c, k, NotSettled)
            /\ UNCHANGED ledger
      /\ UNCHANGED <<config, synced, jobs, known, files, faults>>

(* The gate settles before the handler runs: a payment that is on the      *)
(* ledger already is refused, the answer of the facilitator may be lost,   *)
(* and the payer may be missing from it.  The hook records what succeeded. *)
Settle(c, k) ==
  LET r == calls[c].sent[k]
      account == (CHOOSE cfg \in config.customer : TRUE).payment.account
  IN  /\ r.stage = "gate"
      /\ \/ /\ r.header \notin ledger
            /\ ledger' = ledger \cup {r.header}
            /\ \/ /\ \E payer \in {account, Blank} :
                       registry' = Record(registry, r.header, [tx |-> r.header, payer |-> payer])
                  /\ Serve(c, k, [r EXCEPT !.stage = "claim"])
               \/ Reply(c, k, NotSettled) /\ UNCHANGED registry
         \/ Reply(c, k, NotSettled) /\ UNCHANGED <<ledger, registry>>
      /\ UNCHANGED <<config, synced, jobs, known, files, faults>>

Accepted(s, envelope) == SealReceipt(s, "accepted", envelope, Blank)

(* The handler takes its settlement, then looks at what was asked.  An     *)
(* order that is known is answered with its first acceptance.              *)
HandleRequest(c, k) ==
  LET r == calls[c].sent[k]
      m == calls[c].order
      claim == Claim(registry, r.header)
      refused == \E e \in calls[c].envelope : Refuse(e)
      Reject(status, body) ==
        Serve(c, k, [r EXCEPT !.took = claim, !.stage = "answered",
                              !.answer = Answer(status, "settled", body)])
  IN  /\ r.stage = "claim"
      /\ registry' = Claimed(registry, r.header)
      /\ \/ claim = {} /\ Reject(500, {})
         \/ /\ claim # {} /\ r.leg = "intake" /\ refused
            /\ Reject(422, {SealRefusal(s, e) : s \in config.service, e \in calls[c].envelope})
         \/ /\ claim # {} /\ r.leg = "intake" /\ ~ refused /\ jobs[m] # {}
            /\ Reject(200, {Accepted(s, job.envelope) : s \in config.service, job \in jobs[m]})
         \/ /\ claim # {} /\ (r.leg = "intake" => ~ refused /\ jobs[m] = {})
            /\ Serve(c, k, [r EXCEPT !.took = claim, !.stage = "work"])
      /\ UNCHANGED <<config, synced, jobs, ledger, known, files, faults>>

(* The anchors are there and the job is stored.                            *)
Accept(c, k) ==
  LET r == calls[c].sent[k]
      e == CHOOSE x \in calls[c].envelope : TRUE
      source == (CHOOSE t \in r.took : TRUE).payer
      job == [envelope |-> e, payer |-> source, delivered |-> FALSE, receipt |-> {}]
  IN  /\ r.stage = "work"
      /\ r.leg = "intake"
      /\ jobs' = [jobs EXCEPT ![e.body.data.order] = {job}]
      /\ Reply(c, k, Answer(201, "settled", {Accepted(s, e) : s \in config.service}))
      /\ UNCHANGED <<config, synced, registry, ledger, known, files, faults>>

(* The receipt names the payer of the intake for both legs; without one it *)
(* is not valid.                                                           *)
Issued(m) ==
  {SealReceipt(s, "delivered", job.envelope, job.payer) :
     s \in config.service, job \in {j \in jobs[m] : j.payer \in Accounts}}

Release(c, k) ==
  LET m == calls[c].order
      receipt == Issued(m)
  IN  /\ calls[c].sent[k].stage = "work"
      /\ calls[c].sent[k].leg = "balance"
      /\ IF receipt = {} THEN Reply(c, k, Answer(400, "settled", {})) /\ UNCHANGED jobs
         ELSE /\ jobs' = [jobs EXCEPT ![m] = {[job EXCEPT !.receipt = receipt] : job \in jobs[m]}]
              /\ Reply(c, k, Answer(200, "settled", receipt))
      /\ UNCHANGED <<config, synced, registry, ledger, known, files, faults>>

(* An anchor fails: nothing is stored, the payment is kept.                *)
Fail(c, k) ==
  /\ calls[c].sent[k].stage = "work"
  /\ Reply(c, k, Answer(502, "settled", {}))
  /\ UNCHANGED <<config, service, ledger, known, files, faults>>

(* Something between the two sends the same paid request once more.        *)
SentAgain(r) == [r EXCEPT !.stage = "guard", !.age = 0, !.took = {}, !.answer = NoAnswer]
Repeat(c) ==
  \E k \in Copies(c) :
    /\ faults < MaxFaults
    /\ faults' = faults + 1
    /\ Becomes(c, [calls[c] EXCEPT !.sent = Append(calls[c].sent, SentAgain(calls[c].sent[k]))])
    /\ UNCHANGED <<config, service, ledger, known, files>>

(* The process dies and starts again: jobs stay, the registry does not, no *)
(* request survives.  The demo is that process.                            *)
Dead(r) == IF r.stage = "answered" THEN r ELSE [r EXCEPT !.stage = "dead"]
Cut(call) == [call EXCEPT !.sent = [k \in DOMAIN call.sent |-> Dead(call.sent[k])]]
AfterCrash(c) ==
  IF calls[c].pc = "off" THEN calls[c]
  ELSE IF Running(c) /\ calls[c].args.verb = "demo" THEN Ended(Cut(calls[c]), Killed)
  ELSE Cut(calls[c])
Crash ==
  /\ faults < MaxFaults
  /\ faults' = faults + 1
  /\ synced' = FALSE
  /\ registry' = Empty
  /\ calls' = [c \in Calls |-> AfterCrash(c)]
  /\ UNCHANGED <<config, jobs, ledger, known, files>>

(* Time passes for the settlements that wait to be claimed.                *)
Waits(r) == IF r.stage = "claim" THEN [r EXCEPT !.age = Older(r.age)] ELSE r
Later(c) ==
  IF calls[c].pc = "off" THEN calls[c]
  ELSE [calls[c] EXCEPT !.sent = [k \in DOMAIN calls[c].sent |-> Waits(calls[c].sent[k])]]
Tick ==
  /\ DOMAIN registry # {}
  /\ registry' = Aged(registry)
  /\ calls' = [c \in Calls |-> Later(c)]
  /\ UNCHANGED <<config, synced, jobs, ledger, known, files, faults>>

-----------------------------------------------------------------------------
(* One request and its answer.                                             *)
Send(c) ==
  \/ Ask(c)
  \/ \E paid \in BOOLEAN, body \in OddBodies : AskElsewhere(c, paid, body)
  \/ Receive(c)

RunOrder(c) == Sign(c) \/ (calls[c].leg = "intake" /\ Send(c)) \/ SaveOrderArtifacts(c)

RunCollect(c) == Misconfigured(c) \/ (calls[c].leg = "balance" /\ Send(c)) \/ SaveReceiptArtifact(c)

(* The demo orders, delivers and collects (and verifies: module Verdict).  *)
RunDemo(c) == WaitForPaymentGate(c) \/ DemoDelivers(c)

Proceed(c) == calls[c].pc # "off" /\ (RunOrder(c) \/ RunCollect(c) \/ RunDemo(c))

ServeRequest(c) ==
  \E k \in 1..(MaxFaults + 2) :
    /\ calls[c].pc # "off"
    /\ k \in DOMAIN calls[c].sent
    /\ \/ Admit(c, k)
       \/ Settle(c, k)
       \/ HandleRequest(c, k)
       \/ Accept(c, k)
       \/ Release(c, k)
       \/ Fail(c, k)

Next ==
  \/ \E c \in Calls :
       \/ \E i \in Invocations, m \in Orders : Start(c, i, m)
       \/ Proceed(c)
       \/ Throw(c)
       \/ Repeat(c)
       \/ ServeRequest(c)
  \/ \E m \in Orders : Operator(m)
  \/ Sync
  \/ Crash
  \/ Tick

(* A client goes on until it has an answer or an error, and a handler      *)
(* answers: both bound what they wait for.                                 *)
Progress == \E c \in Calls : Proceed(c) \/ ServeRequest(c)

Spec == Init /\ [][Next]_vars /\ WF_vars(Progress)
=============================================================================
