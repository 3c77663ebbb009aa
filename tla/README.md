# Verification of x402 work receipts

TLA+ models, TLC runs and TLAPS proofs for the programs in this repository: work orders between two
agents, paid with x402, whose every step is anchored on a public consensus topic, and a verifier that
judges a receipt from public data alone.

    tlc -workers 2 -config overlapping.cfg MCContractor     # any run: see "Runs"
    tlapm ContractorProofs.tla                              # any module of "Proofs"

## The system

| Component | State it keeps | Operations | Hard because |
|---|---|---|---|
| contractor service (`contractor/server.ts`) | none of its own; handlers hold what they read across awaits | `POST /mandates` (paid), `POST /mandates/:id/deliver`, `GET /mandates/:id/receipt` (guard, then paid), `POST /verify` | handlers interleave at every await; a check before the awaits, a write after them; each await can fail on its own |
| job store (`contractor/store.ts`) | a map in memory, a JSON file | `open`, `get`, `put`, `update`, `flush` | memory changes before the file; the file is all that survives a crash |
| settlement registry and gate (`server.ts`) | unclaimed settlements by payment header, in memory, with a lifetime | `record`, `claim`, `prune`; the x402 middleware settles *before* the handler | money has moved before any check that can refuse; lost with the process |
| anchors (`anchor/`) | the topic, append-only and public | `submitAnchor` (deliberately no retry), `readAnchors` (polls), codec | a submission that failed locally may still land, at any later time; an empty answer is not an empty topic |
| documents (`contractor/receipts.ts`, `work.ts`) | none | build and seal receipts, hash payments and deliveries | they tie one step to the others |
| verifier (`verifier/`) | none | seven checks; mirror reads with paging and retries; exit code 0, 1 or 2 | the mirror node lags; reads are not atomic; "I could not look" is not "it does not check out" |
| retainer (`retainer/`) | a scheduled transaction on the ledger | create, release, status, each anchored | two systems changed one after the other, with a wait in between |
| customer (`customer/`), MCP server (`mcp/`) | artifacts on disk | order, collect, verify | charged before anything is saved |
| protocol (`protocol/`) | none | sign, verify, canonicalize, hash, validate, identifiers | who a document claims to be from, and who signed it |
| demo, verify page, spike | none | an end-to-end run, a static page, a proof of concept | the demo waits for the public record |

How they meet: the customer's request passes the payment gate, which settles through the facilitator and
records the settlement under the request's payment header; the handler claims it, anchors step by step and
writes the store. The verifier reads the topic and the ledger through a mirror node and never asks the
contractor.

What makes each correct: the log is causal and unambiguous; nothing is handed out or remembered that is not
on the log; money is taken only for what can be given; a receipt the contractor signs convinces a stranger;
memory, file and customer agree across failures; every request is answered; the verifier's verdict is
about the record and not about the read; a retainer moves once, and what its order is worth is then decided.

## Modules

| Module | What it is | Models |
|---|---|---|
| `AuditTopic` | operators: anchors, consensus order, doubled steps | `anchor/records.ts`, helpers of `checks.ts` |
| `VerifierChecks` | operators: checks 3 to 6, `Verifies` | `verifier/checks.ts` |
| `Contractor` | the service: state, one action per stretch of handler code between two awaits, faults, properties | `server.ts`, `store.ts`, the documents' contents |
| `OrderPromise` | abstract specification: what may be logged, charged and handed out, given the log | what a reader of the log may rely on |
| `ContractorInvariant` | the inductive invariant `IInv` | |
| `ContractorProofs`, `ContractorSafety`, `ContractorRefinement` | `IInv` is invariant; the safety properties follow; the refinement | |
| `ContractorOrderly` | the invariant `OrderlyInv` of requests that do not overlap, and what follows from it | |
| `LogLemmas` | lemmas on appending to sequences and on first positions, for all proofs | |
| `Documents` | operators: signed envelopes, identifiers, checks 1 and 2 | `protocol/envelope.ts`, `protocol/identity.ts`, `checks.ts`, the parsing in `verifier/cli.ts` |
| `Mirror` | operators: the ledger as the first n entries show it | `verifier/mirror.ts` |
| `RetainerCheck` | operators: check 7 | `verifier/retainer.ts` |
| `Verdict` | one verification, request by request, while the record grows; the library's polling reader | `verifier/cli.ts`, `mirror.ts`, `POST /verify`, the MCP tool `verify`, the demo's wait, `anchor/client.ts` |
| `VerdictProperties`, `VerdictProofs` | what an answer must be worth, and the `IInv` of the verification; the proofs | |
| `Retainer` | the three commands, the schedules and the topic | `retainer/` |
| `EscrowPromise` | abstract specification: what becomes of money that was authorised | `docs/extras/retainer.md` |
| `RetainerProperties`, `RetainerProofs` | the retainer's properties and its `IInv`; their proofs and the refinement | |
| `Settlements` | operators: the registry with time | `SettlementRegistry` in `server.ts` |
| `Wallet` | operators: from an environment to a configuration, or to a refusal | `customer/wallet.ts`, `contractorConfigFromEnv`, the agent card |
| `Customer` | invocations of the customer, by command line, MCP tool or demo, against the contractor at the grain of one paid request | `customer/cli.ts`, `pay.ts`, `mcp/server.ts`, `demo/run-e2e.ts`, gate and routes of `server.ts` |
| `CustomerProperties`, `CustomerProofs` | the customer's properties and its `IInv`; their proofs | |
| `MCContractor`, `MCVerdict`, `MCRetainer`, `MCCustomer` | instances for TLC; `MCVerdict` holds two properties that are about its ledgers and documents | |

`Verdict` composes `Mirror`, `Documents`, `VerifierChecks` and `RetainerCheck`; `Retainer` composes `Mirror`
and `RetainerCheck`, so that the commands are judged by the check that will judge them; `Customer` composes
`Settlements` and `Wallet`, which rests on `Documents`.

### How `Contractor` corresponds to the code

*Atomicity.* Node runs a handler without interruption between awaits, so one action is one such stretch. The
awaits are the payment gate and each `anchor(...)`. `Submit(r, k)` is the call; `Acknowledged(r, k)` is its
return with a position, which the network gives only after consensus. `JobStore.put` is synchronous, so it
is part of the action that calls it, together with the answer.

*Requests.* A request is a constant with an order, a payer and (for intakes) an envelope; `pc` says where it
stands, and a request waiting for an anchor is at the anchor's kind. Each request is sent at most once; a
retry is another request for the same order. `OneAtATime` restricts clients, not the service: with it, no
two requests of one order are under way together.

*State.* `mem` and `disk` are the store's map and file; `topic` is the consensus order, `inflight` what was
submitted and may land later or never; `settled` is the ledger; `registry` the unclaimed settlements;
`held` the job a collection read before its awaits (the code seals the receipt from it, but updates the job
as it is *after* the awaits: `WithReceipt`). `happened`, `accepts` and `receipts` are history.

*Faults*, each switched by the constant `Faults`: a submission is reported as failed whether it lands or not
(`AnchorFails`, with `Land` still possible for ever after); a write of the file fails (`...Unwritten`: memory
keeps the change, the caller gets 500); the facilitator's answer is lost after settlement; a settlement
outlives its lifetime; the process crashes and opens the file again.

*Data.* A document is written by one request, so the hash in an anchor is the request that wrote it (`by`).
A mandate envelope is a value of its own, since two intakes may carry the same or different ones. Amounts,
the payee, signatures and the network-fee payer are the same for all payments here and are left out of the
checks; the payer is not, because the code takes it from one request and states it for two.

*Abstracted.* The token and the rate limits of the delivery route (they only refuse); a crash between the
rename of the file and the answer (the same state as after the answer, with one receipt fewer handed out);
payment headers are distinct per request (`Customer` has two requests with one header).

### How `Verdict` corresponds to the code

The ledger is a sequence of what will reach consensus; `agreed` of it has, `indexed` of it can be read, and
both only grow. Every request of `verifyDocuments` is an action answered from the first `indexed` entries:
a page of the topic, the look at an empty topic, the two payments, the schedule, the release. A request may go
unanswered; it is repeated a bounded number of times (`Unanswered`), and then, as for an unknown topic or a
log of too many pages, the verification ends with exit code 2 (`GiveUp`). `Judge` evaluates all seven checks
on what was read. The demo reads anchors and payments until there are enough of them and starts over
(`PollAgain`); its parallel reads of the payments are modelled one after the other. `Shown` is what each
caller makes of the code. A document is a record; a signature names its key and the body it covers; an
identifier has the parts of its text. `ReadAnchors` is the library's reader: it asks until there is an anchor
or its window is over, and asks once more whether there is a topic before it returns nothing.

Anchors that were read are kept as the set of their positions, which are consensus times: the code appends page
after page and sorts by sequence number, and no check looks at anything but kinds, orders, references and times.

The ledgers of `MCVerdict` are whole lives of one order (with somebody else's messages, with a refused
duplicate of a payment, with a retainer) and lives in which one thing is wrong. The model starts when the
receipt is handed out, which the service does after its anchor reached consensus.

### How `Retainer` corresponds to the code

A command is a process: it has its arguments, a stage and an exit code, and shares nothing with the others but
the ledger. `ScheduleRetainer`, `ReleaseRetainer`, `WaitForExecution` and `SubmitAnchor` are its awaits, with the
effect and the receipt that reports it. `Throw` is every other end: a failure, a timeout, a kill. A transaction the
command had sent by then is not taken back: `late` keeps which one it was, and it reaches consensus at any later
time (`LandCreation`, `LandSignature`, `LandAnchor`) or never (`Expire`), as a submission of the contractor does in
`inflight`. What the mirror node shows never shrinks (`shown`). The network executes a schedule with its last signature, refuses one that is
executed or expired (`Refused`), and lets a pending one expire (`Lapse`). Amounts are fixed in the scheduled
transfer and left out; a schedule's id stands for its hash and its transaction id.

### How `Customer` corresponds to the code

An invocation goes through the steps of `runOrder` or `runCollect`: configuration, story, the contractor's
card, signing, the unpaid request, the paid one, the answer, the files. The demo waits for the gate first and
delivers in between. `Throw` kills an invocation anywhere; the request it sent is not withdrawn. The contractor
is taken at the grain of guard, gate, settle hook and handler: the gate settles, and its answer may be lost or
name no payer; the hook records; the handler claims, refuses, accepts, releases or fails after it claimed.
`Crash` loses the registry and the requests and keeps jobs. Each request an invocation pays for carries a payment
of its own, numbered by how many it has signed (`NewPayment`), and each payment that settles is an element of its
own in the ledger. `Repeat` sends a paid request a second time with the
same payment header. `AskElsewhere` is a service that is not the contractor. The facilitator settles one
payload once: the registry's "one payment cannot pay for two requests" rests on it.

Whether the card can be had is part of an invocation, since a discovery that times out is an order addressed
to a handle. Which texts are well-formed ids, amounts or keys is a constant.

## Runs

The first three are on one order, since orders share only the topic and the file, and every property is per
order; the proofs are for any number of orders. Two requests of a kind are enough to overlap or to repeat one; one
crash is enough to lose memory at every point of every handler. No action is left unfired: in each model the
passing runs take every disjunct of `Next`.

| Run | Bounds | What it shows |
|---|---|---|
| `overlapping` | 2 intakes, 1 delivery, 1 collection, all faults, 1 crash; 190 498 states | `TypeOK`, `IInv`, `TrailCausality`, `BalanceFollowsDelivery`, `StoreIsAnchored`, and the refinement `PromiseKept`, whatever overlaps and whatever fails |
| `overlapping_releases` | 2 intakes (one malformed), 2 deliveries, 2 collections, failing submissions and expiry; fair; 137 616 states | `IssuedIsAnchored`; `UnambiguousVerifies`: only a doubled step, or a second payer, can spoil the verdict on a receipt; `EveryRequestEnds` |
| `one_at_a_time` | 2 of each (one delivery malformed), all faults, 1 crash, no overlap; 845 698 states | `OrderlyInv`, `FileKeepsJobs`, `AnswersOnFile`, and which fault is needed for which damage: `AnchoredOnce` fails only after an abandoned submission, `BalancePaidOnce` only after a payment lost on its way to the receipt, `BalanceEarnsReceipt` only after some fault |
| `verdicts` | 15 ledgers of up to 14 entries, 17 questions and 4 reads of a topic, one per behaviour; pages of 3 messages, 3 pages, 2 attempts, 2 looks; 221 579 states | `IInv`; `VerdictOfOneRecord`: although it reads while the record grows, what a caller shows is the verdict on one state of it; `HonestOrderPasses` once it is indexed, whatever else is on the topic; `OnlySealedPasses`; `FlawedRecordFails`; `DemoWaitsForTheRecord`; `ReaderReturnsWholeLog`; `VerificationEnds` |
| `retainer` | one order, 3 commands of any kind, 2 of them under way at a time, 2 schedules and one of somebody else's, 1 look after the first, what was sent landing late or never; 421 490 states | `IInv`; `EscrowKept` (the refinement); `EarlyReleaseCaught`; `CarefulOrderPasses`; `ReleaseIsProvable`; `VerdictIsFinal`: once the money moved, an order with its release on the topic keeps its verdict, and one without, that nothing can still anchor, fails for good; `CommandsEnd` |
| `customer` | 2 invocations one after the other (a killed one's request goes on), 3 environments, one crash or repeated request, lifetime 1; 478 099 states | `IInv`; `ChargedOnce`, `PaymentBuysOnce`, `SettlementFound`, `IntakeBuysNewOrder`: what is paid, and for what; `PaidOrderIsKnown`, `OwnedReceiptIsFree`: killed at any moment, the order can be collected, and a receipt that was issued is free; `FiledUnderItsOrder`, `IdentityHolds`; `InvocationsEnd` |

The bounds of the last three: a log of three full pages is already refused, one of two has a boundary inside
the order's anchors; three commands are a creation, a release and one that repeats or overlaps either (what
one that is gone had sent counts as under way); a second invocation is a repeated order, a collection, a
repeated collection or a collection after a kill. Two collections at the same moment are the matter of
`Contractor`, whose runs have them.

The runs below end in a counterexample. Each checks one sentence of the repository's documents or comments
against what the code does.

| Run | The sentence | What happens |
|---|---|---|
| `paid_twice` | `server.ts:447-448` "The customer is asked to pay only for a receipt that exists and has not been paid for" | both collections pass the guard before either has its receipt; both pay |
| `paid_conflict` | `README.md:194-195` "never sees a `402` for something it already owns or cannot receive" | an overlapping intake replaces the delivered job during the payment; the paid collection gets 409 |
| `recorded_twice` | `README.md:191-192` "one order leaves exactly six records on the topic, however many times it is submitted" | two intakes find no job and both anchor |
| `payment_not_anchored` | `docs/specs/2026-09-04-work-order-receipts-design.md:47` "retry anchor with backoff" | one failed submission and the payment is never anchored (the code says why: a blind retry could double the anchor) |
| `lagging_mirror` | `verifier/cli.ts:16` "at least one check failed — the evidence contradicts the receipt", and `docs/specs/2026-09-04-work-order-receipts-design.md:48` "verifier retries reads for up to 30 s before declaring a missing message" | only failed requests are repeated: a mirror node that is behind answers with the start of the log, and a complete order exits with 1 |
| `two_payers` | `docs/schemas/README.md:38` "the intake and balance transfers exist on the ledger with the stated payer" | the receipt states the intake's payer for the balance that another account paid |

*Deadlock* checking is off in every run: requests, questions, commands and invocations are bounded, so a system
in which all have ended rightly stops.

*Fairness* (`Fairness` in `Contractor`): the event loop runs every handler that can run (`Handles`); the
facilitator answers (`Settles`, `Registers`) and the network answers a submission someone waits for, with
consensus or with an error (`NetworkAnswers`), because the clients in front of both have timeouts. Nothing
forces a request to be sent, a payment to be made, a fault to happen, or an abandoned submission to land.
In `Verdict` a verification that was started goes on (`WF_vars(Verify \/ Follow)`): each of its requests is
answered or times out. Nothing forces the mirror node to catch up. In `Retainer` each command goes on
(`WF_vars(Proceed(c))`), for the same reason; in `Customer` clients and handlers do (`WF_vars(Progress)`): a
client's request is answered, or fails with its connection.

*Mutants.* Next to the definition it changes, each property has a version of the code it would catch: a
missing await, an early return dropped, a write before the map, steps in the wrong order.

## Proofs

Checked by TLAPS for every value of the constants: any number of orders, requests, commands and invocations,
every subset of faults, every bound on crashes, polls and lifetimes, any ledgers and documents, every page size. Each component's proofs start from the
named assumptions of its module, which TLC evaluates on each of its runs.

| Component | Assumptions |
|---|---|
| `Contractor` | the kinds of requests are disjoint and every request names an order; `None` is none of the values it stands next to; the bounds have their types |
| `Retainer` | schedules are numbers, those of somebody else are a finite list of others; `None` and the bounds as above; a page holds a message (`Mirror`) |
| `Customer` | invocations are one of the three; the contractor signs with a key, on every machine whose environment loads; the bounds; a lifetime is a number (`Settlements`) |
| `Verdict` | each ledger is one that the network and the two agents can have written (`IsLedger`) and has a receipt's anchor; a reader starts at a number; the bounds have their types |

`IsLedger` has two parts. The network's (`NetworkOrdered`): a topic is created before it is written to, the id of
a schedule is not used again, a schedule is executed once. The agents' (`AnchoredAfterwards`): where an anchor
names a payment, a schedule or a release that succeeds at all, one that succeeded stands before it. The service
anchors a payment once the gate has settled it (`BalanceFollowsDeliveryHolds` has a settled transfer below each
payment anchor), the retainer's commands anchor a schedule once it exists and a release once the mirror node
shows it (`ReleaseIsProvableHolds`). Other messages may be anything, and what is not anchored at all may come in
any order; a stranger who writes to the topic the anchor of a transfer that is yet to come is left out.

The second of the customer's is what the code checks at start-up, but for one case: a contractor that names
itself in `CONTRACTOR_UAID` loads with a malformed key. It fails at every seal and issues nothing, so it can break
none of these properties; the model leaves it out.

### Contractor

* `InvariantHolds`: `Spec => []IInv`. The properties are not inductive: that an anchor's cause is on the log
  when it lands depends on when it was *submitted*, that a stored job rests on the log depends on what its
  handler was waiting for, and that a sealed receipt is complete depends on the job read two awaits earlier.
  `IInv` adds those three links: every anchor submitted or landed is supported by earlier ones
  (`SubmissionsSupported`, `LogCaused`), every waiting handler has its earlier steps on the log
  (`HandlersSound`, `RoutesSound`), and every job in memory, in the file or held by a handler is grounded
  (`StoreSound`, `HeldSound`); with money (`MoneySound`) and answers (`AnswersSound`) on top. One lemma
  per action, then the step.
* `TypeCorrect`, `CausalityHolds`, `BalanceFollowsDeliveryHolds`, `IssuedIsAnchoredHolds`,
  `StoreIsAnchoredHolds`: from `IInv`.
* `UnambiguousVerifiesHolds`: where no step is doubled, the first anchor of a kind is the only one, and the
  causal chain below a sealed receipt fixes all six in order.
* `ContractorKeepsPromise`: `Spec => PromiseKept`. Landings are records, settlements are charges, answers are
  acceptances and releases; everything else, crashes included, leaves the public state alone.

For clients that send the requests of an order one after the other, `ContractorOrderly` proves from
`OneAtATime`:

* `OrderlyHolds`: `Spec => []OrderlyInv`. On top of `IInv`: a submission lands at most once
  (`SubmittedOnce`), only one request of an order is past the gate, and its handler finds the job as it was when
  it looked (`Exclusive`, `HandlersAlone`, `SettledPastGate`); the file lacks only what a failed write kept from
  it (`FileBehind`, `AnswersOnFile`); and whoever anchored or paid is at work or has finished, unless a fault cut
  it off (`SubmittersFinish`, `PayersFinish`). A crash is the step that needs all of it: memory becomes the file.
* `FileKeepsJobsHolds` (an action property), `AnswersOnFileHolds`, `AnchoredOnceHolds`, `BalancePaidOnceHolds`
  follow, each with the faults it needs to exclude in its own statement.
* `BalanceEarnsReceiptHolds` also assumes that an order is paid by one account: the run `two_payers` shows
  that the receipt of another one does not check out.

### Retainer

* `InvariantHolds`: `Spec => []IInv`. The network executes what was created and did not lapse, and once
  (`LedgerSound`). An anchor of the retainer comes from a command that is over, and that of a release stands
  after the transfer the mirror node had shown (`AnchorsSound`). A command that is about to anchor has created
  the schedule or seen its execution, and so had one whose anchor is still under way; one that reports success has
  its anchor on the record (`CommandsSound`).
* `ReleaseIsProvableHolds`, and `EarlyReleaseCaughtHolds` and `CarefulOrderPassesHolds`, which unfold
  check 7 on the whole record: the verdict is decided by the first anchor of each kind, and where all anchors of
  the order name one schedule, by its one execution.
* `VerdictIsFinalHolds`: the verdict is on the first retainer an order has on the topic, and the first anchors of
  a kind stay the first, the execution of a schedule its only one. So with the release on the topic nothing that
  is anchored later is looked at. Without it, the network refuses a second signature, and every way to the anchor of
  that release leads through a step the premise excludes: a command that waits or anchors, or an anchor that was
  sent by one that is gone. The exception is real: with such an anchor under way a failing order may still pass.
* `EscrowIsKept`: `Spec => EscrowKept`. A step that appends to the ledger is an authorisation, a delivery, an
  execution, or of no concern to the escrow; every other step leaves the ledger and is a lapse or a stutter.

### Customer

* `InvariantHolds`: `Spec => []IInv`. Of the requests with one payment header, at most one took
  the settlement or still can, and one that still can finds a registry entry no older than itself, so pruning for
  others leaves it (`CallsSound`, `RegistrySound`); a signed order is one the contractor accepts, and its id is
  printed before it is paid for (`CallsSound`, `LedgerSound`); a job was paid for, under configurations that both loaded (`JobsSound`); what
  waits to be filed answers what is filed next to it (`FilesSound`); a collection whose receipt was there when
  it began never gets to a payment; and an invocation that still has to pay a leg has no transfer for it on the
  ledger, whatever number its next payment gets (`SpendingSound`).
* `ChargedOnceHolds`, `PaymentBuysOnceHolds`, `SettlementFoundHolds`, `PaidOrderIsKnownHolds`,
  `IntakeBuysNewOrderHolds`, `FiledUnderItsOrderHolds`, `OwnedReceiptIsFreeHolds`: each from `IInv`.
* `IdentityHoldsForItsOwn`: `IdentityHolds`, under two hypotheses that the code does not enforce and
  `MCCustomer` has TLC evaluate. An identifier that the environment gives an agent (`CUSTOMER_UAID`,
  `CONTRACTOR_UAID`) does not name another key: the programs do not compare the two (`OwnIdentifiers`). And a
  service at a wrong address answers nothing that is signed with the contractor's key (`NothingForged`), which
  leaves out one that plays back genuine receipts of other customers. Check 2 compares a receipt with the order
  filed beside it, and the two came there on different ways; so the proof follows every document.
  `DocumentsNamed`: whatever the contractor signed, in an answer under way, in an invocation's hands, in a job or
  in a file, is from its agent and to the customer's, and whatever the customer signed is from the customer's, by
  an identifier that names the key below it. It is inductive next to `IInv`, a lemma per action. Identifiers that
  the programs make themselves (`SelfIssuedNames`), the contractor's without `CONTRACTOR_UAID` and the customer's
  with `auto`, need no hypothesis.

### Verdict

* `InvariantHolds`: `Spec => []IInv`. After each page, what was read is all the anchors up to the last message on
  it, and there are no more messages than the pages hold (`PagesSound`): a page that is not full ends the log as it
  is now, a full one leaves a position to go on from. So a log that was read to its end is the log at one number
  `n` of entries (`LogSound`), and a topic whose messages were read exists. Payments, schedule and release are each
  those of some later time (`OrderSound`). The demo asks only after what it waits for was there (`WaitSound`).
* `VerdictOfOneRecordHolds`. The log is of `n`, the rest of later times, and a verdict must be that of one time.
  If a payment's anchor is on the log, its transfer succeeded before it, and the transfer that `ReadTransaction`
  picks is then the same for ever; if its anchor is not there, the sequence of anchors fails at `n` whatever the
  ledger says. A schedule and an execution that an anchor names were there before it, too. So a pass is a pass at
  `n`, and, without a retainer, a fail is a fail at `n`. With one, the schedule may have been executed between the
  log and the look at it, which is why that failure is excepted if the record grew.
* `OnlySealedPassesHolds`: a pass evaluates checks 1, 3 and 6 on the log of `n`, and the first receipt anchor of an
  order stays the first.
* `ReaderReturnsWholeLogHolds`, `DemoWaitsHolds`: from `IInv`; for the demo, what was complete stays complete while
  the record grows, so that the verdict is on a record that has all it needs.

### Model-checked only

* Liveness (`EveryRequestEnds`, `VerificationEnds`, `CommandsEnd`, `InvocationsEnd`): out of the prover's reach.
* `HonestOrderPasses` and `FlawedRecordFails`: they say of the ledgers and documents of `MCVerdict`, each an honest
  life of an order or one in which one thing is wrong, what the checks make of them.

## Where the documents and the code part

Besides the runs that end in a counterexample, modelling met these; none is a property of a run.

* `docs/extras/retainer.md` says `waitForSchedule` covers the mirror node's lag; only an integration test calls
  it, and `status` right after `create` exits with 1.
* `mcp/server.ts:134` says the intake payment is absent "when this mandate_id was already paid for"; the tool
  always makes a new order, and `payFor` takes an unpaid answer for an error there.
* A retainer that has lapsed verifies as "still pending"; a verification between the execution of a retainer and
  the anchor of its release fails, and passes when it is repeated.
* The demo records a verification that could not look as `FAIL`.
* A work order whose data is `null` passes `parseMandate`; check 3 then throws out of `verifyDocuments`.
* An order whose intake settlement names no payer is charged at every collection and never yields a receipt:
  the receipt without a payer is not valid (`Release` in `Customer`).
* `contractorConfigFromEnv` accepts a `CONTRACTOR_ACCOUNT_ID` that is set to nothing as the account to pay.

## Not modelled

* Text: canonical JSON, hashing, signatures as arithmetic, JSON schemas beyond the conditions callers depend on,
  the wording of reports, links, dates, the shape of ids and paths.
* Limits that refuse before anything happens: rate limits, the delivery token, the bounds of a retainer's
  amount, window and memo, malformed options.
* `waitForSchedule` and creating a topic: called by tests and by hand only.
* The verify page, which is static, and the spike, which nothing uses.

## Plan

1. (done) Topic, checks, contractor, abstract promise, proofs of safety and refinement.
2. (done) Reads and verdicts; the polling reader; the demo's wait.
3. (done) The retainer and the escrow it promises.
4. (done) The customer, the MCP tools and the demo, with the settlement registry and time.
5. (done) Proofs: requests that do not overlap; the retainer, for any number of commands and schedules; the
   customer, a settlement claimed at most once among the rest.
6. (done) Proofs about `Verdict`: pages as sets of positions, what a reader knows at each request, and a verdict
   that is one record's on every ledger where what an anchor vouches for comes before it.
7. (done) `IdentityHolds` of the customer: where every document in the system comes from and whom it is for.
