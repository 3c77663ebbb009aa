----------------------------- MODULE MCVerdict ------------------------------
(***************************************************************************)
(* Instances of the verification for TLC, and what it must make of them.   *)
(* The order m1 is sealed with the contractor's did:key identifier; m2 is  *)
(* an older one, from before agents published identifiers.                 *)
(***************************************************************************)
EXTENDS VerdictProperties, TLC

CONSTANTS
  audit, other, mistyped,      \* topics: the order's, an empty one, no topic
  m1, m2, m3,                  \* orders; m3 is a neighbour on the topic
  i1, i2, i3, d1, d2, c1, c2, c3, s1,
  contractorKey, customerKey, strangerKey, brokenKey,
  alice, bob, agency

Parties == {contractorKey, customerKey, strangerKey}

PayerMap == (i1 :> alice) @@ (c1 :> alice) @@ (i2 :> alice) @@ (c2 :> alice)

ContractorId == UaidFromPublicKey(contractorKey, [registry |-> "self", proto |-> "rest"])
CustomerId == UaidFromPublicKey(customerKey, [registry |-> "self"])
StrangerId == UaidFromPublicKey(strangerKey, [registry |-> "self"])
BrokenId == UaidFromPublicKey(brokenKey, [registry |-> "self"])
AgencyAid == FormatUaid("aid", [tag |-> "hash", codec |-> "none", key |-> "none"], [uid |-> "0"])
Handle(name) == [scheme |-> "handle", target |-> name, id |-> name, params |-> <<>>]

(***************************************************************************)
(* Documents.                                                              *)
(***************************************************************************)
Mandate(m, from, key) ==
  SignEnvelope([schema |-> "mandate.v1", valid |-> TRUE, from |-> from,
                to |-> Handle("agency"), data |-> [mandate_id |-> m]], key)

EnvelopeMap ==
  (i1 :> Mandate(m1, CustomerId, customerKey)) @@ (i2 :> Mandate(m2, Handle("client"), customerKey))
    @@ (i3 :> Mandate(m3, CustomerId, strangerKey))

FirstData == [order |-> m1, mandate |-> i1, intake |-> i1, result |-> d1, balance |-> c1]
OlderData == [order |-> m2, mandate |-> i2, intake |-> i2, result |-> d2, balance |-> c2]

Body(data, from, to) ==
  [schema |-> "receipt.v1+payment.v1", valid |-> TRUE, from |-> from, to |-> to, data |-> data]

Sealed == SignEnvelope(Body(FirstData, ContractorId, CustomerId), contractorKey)
Older == SignEnvelope(Body(OlderData, Handle("agency"), Handle("client")), contractorKey)

IssuedMap == (c1 :> Sealed) @@ (c2 :> Older) @@ (c3 :> Sealed)

OtherResult == [FirstData EXCEPT !.result = d2]

(* Not what was sealed: edited after signing, issued anew, from another    *)
(* key under the contractor's name or under its own, from names that say   *)
(* nothing, from a name that is broken.                                    *)
Spurious ==
  {[Sealed EXCEPT !.body.data = OtherResult],
   SignEnvelope(Body(OtherResult, ContractorId, CustomerId), contractorKey),
   SignEnvelope(Body(FirstData, ContractorId, CustomerId), strangerKey),
   SignEnvelope(Body(FirstData, StrangerId, CustomerId), strangerKey),
   SignEnvelope(Body(FirstData, AgencyAid, CustomerId), strangerKey),
   SignEnvelope(Body(FirstData, BrokenId, CustomerId), brokenKey)}

(***************************************************************************)
(* Ledgers.                                                                *)
(***************************************************************************)
Paid(id) == Transfer(id, alice, agency, "SUCCESS")
On(k, m, r) == Message(audit, Anchor(k, m, r))

Life(m, i, d, c) ==
  <<Paid(i), On("mandate_in", m, i), On("payment_intake", m, i), On("accepted", m, i),
    On("delivered", m, d), Paid(c), On("payment_balance", m, c), On("receipt", m, c)>>

Start == <<TopicCreated(other), TopicCreated(audit)>>

Insert(s, k, e) == SubSeq(s, 1, k) \o e \o SubSeq(s, k + 1, Len(s))

Clean == Start \o Life(m1, i1, d1, c1)
Older2 == Start \o Life(m2, i2, d2, c2)

(* Somebody else's messages, a refused duplicate of the payment.           *)
Busy == Insert(Insert(Clean, 4, <<Message(audit, Chatter), On("accepted", m3, i3)>>),
               2, <<Transfer(i1, alice, agency, "DUPLICATE_TRANSACTION")>>)
Long == Insert(Busy, 8, <<Message(audit, Chatter)>>)

(* The retainer: authorised by the payer after the order was accepted.     *)
HeldBy(creator) == <<ScheduleCreated(s1, creator), On("retainer_scheduled", m1, s1)>>
Execution == <<ScheduleExecuted(s1, alice, agency)>>
Release == <<On("retainer_released", m1, s1)>>

Pending == Insert(Clean, 6, HeldBy(alice))
ReleasedBefore == Insert(Pending, 9, Execution \o Release)
ReleasedAfter == Pending \o Execution \o Release
HonestLedgers == {Clean, Older2, Busy, Long, Pending, ReleasedBefore, ReleasedAfter}

(* What the checks are there to notice.                                    *)
Doubled == Insert(Clean, 6, <<On("accepted", m1, i1)>>)
Early == Insert(Pending, 8, Execution \o Release)
Unanchored == Insert(Pending, 9, Execution)
Stranger == Insert(Clean, 6, HeldBy(bob))
Withdrawn == Insert(Pending, 8, <<ScheduleDeleted(s1)>>)
Unauthorised == Insert(Clean, 7, Release)
Unpaid == SelectSeq(Clean, LAMBDA e : e # Paid(c1))
FlawedLedgers == {Doubled, Early, Unanchored, Stranger, Withdrawn, Unauthorised, Unpaid}

(* Collected twice, after the first receipt was handed out.                *)
Overtaken == Clean \o <<Paid(c3), On("payment_balance", m1, c3), On("receipt", m1, c3)>>

(***************************************************************************)
(* Questions.                                                              *)
(***************************************************************************)
Question(caller, topic, receipt, mandate) ==
  [caller |-> caller, topic |-> topic, receipt |-> receipt, mandate |-> mandate]

Genuine ==
  {Question("cli", audit, Sealed, {}), Question("route", Unnamed, Sealed, {EnvelopeMap[i1]}),
   Question("demo", audit, Sealed, {EnvelopeMap[i1]}),
   Question("mcp", audit, Older, {EnvelopeMap[i2]})}

Forged ==
  {Question("cli", audit, r, {}) : r \in Spurious}
    \cup {Question("cli", audit, Sealed, {Mandate(m1, CustomerId, strangerKey)}),
          Question("cli", audit, Sealed, {Mandate(m1, Handle("client"), customerKey)}),
          Question("mcp", audit, Older, {Mandate(m2, Handle("client"), strangerKey)})}

Unusable ==
  {Question("cli", mistyped, Sealed, {}), Question("route", other, Sealed, {}),
   Question("mcp", audit, [body |-> "none"], {}), Question("cli", audit, Sealed, {Sealed})}

(* All of a topic, or what came after the order was accepted.              *)
Watched ==
  {[caller |-> "library", topic |-> t, from |-> 0] : t \in {audit, other, mistyped}}
    \cup {[caller |-> "library", topic |-> audit, from |-> 6]}

(* Every document is tried on the two plain ledgers; elsewhere the command *)
(* asks about the receipt of the order, and the demo if no one else wrote. *)
AllRequests ==
  [l \in HonestLedgers \cup FlawedLedgers \cup {Overtaken} |->
     {q \in Genuine \cup Forged \cup Unusable :
        CASE l = Clean -> q.receipt # Older
          [] l = Older2 -> q.receipt = Older
          [] OTHER -> q \in Genuine /\ q.receipt = Sealed /\ q.caller \in {"cli", "demo"}}
     \cup IF l \in {Clean, Long} THEN Watched ELSE {}]

PlainRequest == Clean :> {Question("cli", audit, Sealed, {})}

(***************************************************************************)
(* Properties of these ledgers and documents.                              *)
(***************************************************************************)
(* An honest order, asked about when the mirror node had indexed all of    *)
(* it, is never said to fail, whatever else is on the topic; and nothing   *)
(* is wrong with it once all that the demo waits for can be read.          *)
HonestOrderPasses ==
  ledger \in HonestLedgers =>
    \A k \in DOMAIN answers :
      answers[k].q \in Genuine =>
        /\ answers[k].since = Len(ledger) => answers[k].code # Failed
        /\ answers[k].q.caller = "demo" /\ ~ HasRetainer => InOrder(answers[k].q)

(* A record in which something is wrong is never vouched for: a step that  *)
(* was anchored twice, a payment that is not there, a retainer that was    *)
(* released too early, never authorised, withdrawn or not accounted for.   *)
FlawedRecordFails ==
  ledger \in FlawedLedgers => \A k \in DOMAIN answers : answers[k].code # Ok
=============================================================================
