------------------------------ MODULE Verdict -------------------------------
(***************************************************************************)
(* A verification, from the question to the answer (src/verifier/cli.ts,   *)
(* mirror.ts), for the four that ask: the command, the contractor's        *)
(* POST /verify, the verify tool of the MCP server and the end-to-end      *)
(* demo.  The verifier reads the public record one request at a time while *)
(* the record grows and the mirror node lags behind it; then it judges     *)
(* what it has read.  The anchor library has a reader of its own, that     *)
(* polls a topic (src/anchor/client.ts).                                   *)
(*                                                                         *)
(* The record is one of a set of given ledgers, that each hold the life of *)
(* one order; `agreed` of its entries have reached consensus and `indexed` *)
(* of them can be read.  The model starts when a receipt is handed out,    *)
(* which the contractor does once its anchor reached consensus.  A request *)
(* that gets no answer is asked again, a bounded number of times.          *)
(***************************************************************************)
EXTENDS FiniteSetsExt, Mirror, VerifierChecks, RetainerCheck, Documents

CONSTANTS
  Requests,    \* for each ledger the questions: [caller, topic, receipt, mandate],
               \* or [caller, topic, from] for the library's reader
  Unnamed,     \* instead of a topic: none was given
  ServiceTopic,  \* the topic the contractor writes to
  Issued,      \* the receipt each collection sealed
  Payee,       \* the account of the contractor
  Attempts,    \* times a request is asked before it is given up
  MaxPolls,    \* times the demo looks before its deadline
  MaxAnswers,  \* bound: verifications and reads in one behaviour
  ExpectedAnchors

VARIABLES
  ledger,   \* everything that will reach consensus
  agreed,   \* length of what has
  indexed,  \* length of what the mirror node has indexed
  reader,   \* the verification under way
  answers,  \* those that were given
  returned  \* what the library's reader returned

vars == <<ledger, agreed, indexed, reader, answers, returned>>
record == <<ledger, agreed, indexed>>

Idle == [pc |-> "idle"]

(* A verification starts from the anchors; the demo waits for them first.  *)
(* The anchors that were read are kept by their consensus times.           *)
Reading(q, polls, since) ==
  [pc |-> "anchors", q |-> q, polls |-> polls, since |-> since, tries |-> 0,
   pages |-> 0, after |-> 0, anchors |-> {},
   tx |-> [leg \in {} |-> {}], schedule |-> {}, release |-> {}]

Data(q) == q.receipt.body.data

Waiting(r) == r.polls > 0

(* The anchor of the first receipt.                                        *)
IsReceipt(e) == e.type = "message" /\ e.anchor.kind = "receipt"

(* Each ledger holds an order whose receipt was anchored.                  *)
ASSUME LedgersAssumption ==
  \A l \in DOMAIN Requests : IsLedger(l) /\ \E i \in DOMAIN l : IsReceipt(l[i])

ASSUME RequestsAssumption ==
  \A l \in DOMAIN Requests : \A q \in Requests[l] : q.caller = "library" => q.from \in Nat

ASSUME BoundsAssumption ==
  /\ Attempts \in Nat \ {0}
  /\ MaxPolls \in Nat \ {0}
  /\ MaxAnswers \in Nat
  /\ ExpectedAnchors \in Nat

Init ==
  /\ ledger \in DOMAIN Requests
  /\ agreed = CHOOSE n \in DOMAIN ledger :
                IsReceipt(ledger[n]) /\ \A k \in 1..(n - 1) : ~ IsReceipt(ledger[k])
  /\ indexed \in 0..agreed
  /\ reader = Idle
  /\ answers = <<>>
  /\ returned = {}

(***************************************************************************)
(* The verdict on what was read.                                           *)
(***************************************************************************)
(* Check 3 with the work order at hand: it is this order, and it is the    *)
(* envelope that the receipt names.                                        *)
MandateFileAgrees(rc, mandate) ==
  \A m \in mandate : m.body.data.mandate_id = rc.order /\ m = Envelope[rc.mandate]

(* Mutant: it covers some receipt of this order.                           *)
OrderAnchored(topic, receipt) ==
  PositionsOf(topic, receipt.body.data.order, "receipt") # {}

(* Check 6: the first receipt anchor of the order covers these very bytes. *)
ReceiptAnchored(topic, receipt) ==
  LET m == receipt.body.data.order
  IN  /\ PositionsOf(topic, m, "receipt") # {}
      /\ Issued[FirstOf(topic, m, "receipt").by] = receipt

(* A leg that moved the money of the receipt's payer.                      *)
SettledLegs(tx, rc) ==
  {leg \in DOMAIN tx :
     \E t \in tx[leg] : t.result = "SUCCESS" /\ t.payer = PayerOf(rc) /\ t.payee = Payee}

RunChecks(q, anchors, tx, schedule, release) ==
  LET rc == Data(q)
  IN  <<CheckReceiptSignature(q.receipt),
        CheckAgentIdentity(q.receipt, q.mandate),
        Result(MandateLinkage(anchors, rc) /\ MandateFileAgrees(rc, q.mandate)),
        Result(AnchorSequence(anchors, rc)),
        Result(PaymentsOnLedger(anchors, SettledLegs(tx, rc), rc)),
        Result(ReceiptAnchored(anchors, q.receipt)),
        CheckRetainer(anchors, rc.order, schedule, release, PayerOf(rc), Payee)>>

Passed(checks) == \A k \in DOMAIN checks : checks[k] # "fail"

(* Exit codes: verified, a check failed, could not look.                   *)
Ok == 0
Failed == 1
Error == 2

(* What each caller makes of a code: the demo records all but a pass as    *)
(* FAIL, the others tell "could not look" from "does not check out".       *)
DemoShows(code) == IF code = Ok THEN "pass" ELSE "fail"

ToolShows(code) == CASE code = Ok -> "pass" [] code = Failed -> "fail" [] OTHER -> "unknown"

(* A 502 is no verdict.                                                    *)
ServiceShows(code) == IF code = Error THEN "unknown" ELSE DemoShows(code)

(* The command ends with the code.                                         *)
Shown(caller, code) ==
  CASE caller = "demo" -> DemoShows(code)
    [] caller = "route" -> ServiceShows(code)
    [] OTHER -> ToolShows(code)

(* Who asks the contractor without naming a topic asks about its own.      *)
TopicOf(q) == IF q.caller = "route" /\ q.topic = Unnamed THEN ServiceTopic ELSE q.topic

Answer(q, since, code) ==
  /\ answers' = Append(answers, [q |-> q, since |-> since, upTo |-> indexed, code |-> code,
                                 shown |-> Shown(q.caller, code)])
  /\ reader' = Idle

(* The demo gives up before it asked: its wait for the record failed.      *)
GiveUp(r) ==
  IF Waiting(r) THEN reader' = Idle /\ UNCHANGED answers
  ELSE Answer(r.q, r.since, Error)

(***************************************************************************)
(* The world: consensus, and the mirror node behind it.                    *)
(***************************************************************************)
ReachConsensus ==
  /\ agreed < Len(ledger)
  /\ agreed' = agreed + 1
  /\ UNCHANGED <<ledger, indexed, reader, answers, returned>>

Index ==
  /\ indexed < agreed
  /\ indexed' = indexed + 1
  /\ UNCHANGED <<ledger, agreed, reader, answers, returned>>

(***************************************************************************)
(* One verification.                                                       *)
(***************************************************************************)
MayAsk == reader = Idle /\ Len(answers) + Cardinality(returned) < MaxAnswers

Ask(q) ==
  /\ q.caller # "library"
  /\ MayAsk
  /\ IF ParseReceipt(q.receipt) /\ \A m \in q.mandate : ParseMandate(m)
       THEN /\ reader' = Reading(q, IF q.caller = "demo" THEN MaxPolls ELSE 0, indexed)
            /\ UNCHANGED answers
       ELSE Answer(q, indexed, Error)
  /\ UNCHANGED <<record, returned>>

Entries(r) == ToAnchorEntries(ledger, r.anchors)

(* What the order's retainer anchors point at.                             *)
Lookups == RetainerLookups(Entries(reader), Data(reader.q).order)

(* Mutant: asked again for ever.                                           *)
Insistent ==
  /\ reader.pc \in {"anchors", "topic", "intake", "balance"}
  /\ reader' = [reader EXCEPT !.tries = (@ + 1) % Attempts]
  /\ UNCHANGED <<record, answers, returned>>

(* A network error, a 5xx, a rate limit: asked again until the attempts    *)
(* run out.                                                                *)
Unanswered ==
  /\ \/ reader.pc \in {"anchors", "topic", "intake", "balance"}
     \/ reader.pc = "schedule" /\ Lookups.schedule # {}
     \/ reader.pc = "release" /\ Lookups.release # {}
  /\ IF reader.tries + 1 < Attempts
       THEN reader' = [reader EXCEPT !.tries = @ + 1] /\ UNCHANGED answers
       ELSE GiveUp(reader)
  /\ UNCHANGED <<record, returned>>

Continue(r) == reader' = [r EXCEPT !.tries = 0] /\ UNCHANGED answers

(* The mirror node does not know the topic and says so.                    *)
TopicUnknown ==
  /\ reader.pc \in {"anchors", "topic"}
  /\ ~ TopicExists(ledger, indexed, TopicOf(reader.q))
  /\ GiveUp(reader)
  /\ UNCHANGED <<record, returned>>

(* Mutant: a log that still has pages is judged on the ones that were      *)
(* read.                                                                   *)
AfterTruncated(r, more) ==
  Continue([r EXCEPT !.pc = IF more /\ r.pages < MaxPages THEN "anchors" ELSE "intake"])

(* Another page, or a refusal to judge a truncated log, or the payments;   *)
(* an empty log is looked into first.                                      *)
AfterPage(r, more) ==
  IF more /\ r.pages < MaxPages THEN Continue(r)
  ELSE IF more THEN GiveUp(r)
  ELSE Continue([r EXCEPT !.pc = IF r.anchors = {} THEN "topic" ELSE "intake"])

(* The next page, from the last message that was read on.                  *)
NextPage(r) == MessagePage(ledger, indexed, TopicOf(r.q), r.after)

(* Mutant: a page takes the place of the one before it.                    *)
WithLastPage(r) ==
  LET read == NextPage(r).messages
  IN  [r EXCEPT !.pages = @ + 1, !.after = Max(read \cup {@}),
                !.anchors = AnchorsAmong(ledger, read)]

(* What is read so far, with the anchors of one more page.                 *)
WithPage(r) ==
  LET read == NextPage(r).messages
  IN  [r EXCEPT !.pages = @ + 1, !.after = Max(read \cup {@}),
                !.anchors = @ \cup AnchorsAmong(ledger, read)]

(* A topic that does not exist has an empty list of messages.              *)
ReadTopicAnchors ==
  /\ reader.pc = "anchors"
  /\ AfterPage(WithPage(reader), NextPage(reader).next)
  /\ UNCHANGED <<record, returned>>

AssertTopicExists ==
  /\ reader.pc = "topic"
  /\ TopicExists(ledger, indexed, TopicOf(reader.q))
  /\ Continue([reader EXCEPT !.pc = "intake"])
  /\ UNCHANGED <<record, returned>>

WithTx(r, leg) ==
  [r EXCEPT !.tx = [l \in DOMAIN @ \cup {leg} |->
                      IF l = leg THEN ReadTransaction(ledger, indexed, leg) ELSE @[l]]]

ReadIntake ==
  /\ reader.pc = "intake"
  /\ Continue([WithTx(reader, Data(reader.q).intake) EXCEPT !.pc = "balance"])
  /\ UNCHANGED <<record, returned>>

ReadBalance ==
  /\ reader.pc = "balance"
  /\ Continue([WithTx(reader, Data(reader.q).balance)
                 EXCEPT !.pc = IF Waiting(reader) THEN "poll" ELSE "schedule"])
  /\ UNCHANGED <<record, returned>>

AnchorsFor(anchors, m) == {i \in anchors : ledger[i].anchor.order = m}

(* Mutant: one anchor too few is enough.                                   *)
PollAnchors ==
  LET mine == AnchorsFor(reader.anchors, Data(reader.q).order)
      enough == Cardinality(mine) + 1 >= ExpectedAnchors
      visible == \A leg \in DOMAIN reader.tx : reader.tx[leg] # {}
  IN  /\ reader.pc = "poll"
      /\ IF enough /\ visible THEN Continue(Reading(reader.q, 0, indexed))
         ELSE IF reader.polls > 1
           THEN Continue(Reading(reader.q, reader.polls - 1, reader.since))
         ELSE GiveUp(reader)
      /\ UNCHANGED <<record, returned>>

(* The demo: enough anchors of the order and all of its transfers are      *)
(* there, or it looks again, or its deadline is over.                      *)
PollAgain ==
  LET mine == AnchorsFor(reader.anchors, Data(reader.q).order)
      enough == Cardinality(mine) >= ExpectedAnchors
      visible == \A leg \in DOMAIN reader.tx : reader.tx[leg] # {}
  IN  /\ reader.pc = "poll"
      /\ IF enough /\ visible THEN Continue(Reading(reader.q, 0, indexed))
         ELSE IF reader.polls > 1
           THEN Continue(Reading(reader.q, reader.polls - 1, reader.since))
         ELSE GiveUp(reader)
      /\ UNCHANGED <<record, returned>>

(* Nothing is read for an order without a retainer.                        *)
ReadRetainerSchedule ==
  /\ reader.pc = "schedule"
  /\ Continue([reader EXCEPT !.pc = "release",
                 !.schedule = UNION {ReadSchedule(ledger, indexed, s) : s \in Lookups.schedule}])
  /\ UNCHANGED <<record, returned>>

ReadRetainerRelease ==
  /\ reader.pc = "release"
  /\ Continue([reader EXCEPT !.pc = "judge",
                 !.release = UNION {ReadScheduledTransaction(ledger, indexed, s) :
                                      s \in Lookups.release}])
  /\ UNCHANGED <<record, returned>>

Judge ==
  /\ reader.pc = "judge"
  /\ LET checks == RunChecks(reader.q, Entries(reader), reader.tx, reader.schedule,
                             reader.release)
     IN  Answer(reader.q, reader.since, IF Passed(checks) THEN Ok ELSE Failed)
  /\ UNCHANGED <<record, returned>>

(***************************************************************************)
(* The library's reader: it asks until there is an anchor or its window is *)
(* over, and once more then.                                               *)
(***************************************************************************)
Following(q, polls, since) ==
  [Reading(q, polls, since) EXCEPT !.pc = "follow", !.after = q.from]

ReadAnchors(q) ==
  /\ q.caller = "library"
  /\ MayAsk
  /\ reader' = Following(q, MaxPolls, indexed)
  /\ UNCHANGED <<record, answers, returned>>

Return(r) ==
  /\ returned' = returned \cup {[q |-> r.q, since |-> r.since, upTo |-> indexed, anchors |-> r.anchors]}
  /\ reader' = Idle

(* Nothing was found, or the read failed: the whole log again, or an error *)
(* that is thrown if this was the last time.                               *)
AskAgain(r) ==
  /\ reader' = IF Waiting(r) THEN Following(r.q, r.polls - 1, r.since) ELSE Idle
  /\ UNCHANGED returned

(* Mutant: each page with an anchor on it is an answer.                    *)
ReadFirstPage ==
  LET r == WithPage(reader)
  IN  /\ reader.pc = "follow"
      /\ CASE r.anchors # {} -> Return(r)
           [] r.anchors = {} /\ NextPage(reader).next -> reader' = r /\ UNCHANGED returned
           [] OTHER -> AskAgain(r)
      /\ UNCHANGED <<record, answers>>

(* One page.  A log that is too long is no answer, and an empty one is     *)
(* looked into when there is no time left to ask again.                    *)
ReadAnchorsOnce ==
  LET r == WithPage(reader)
      more == NextPage(reader).next
      Step(next) == reader' = next /\ UNCHANGED returned
  IN  /\ reader.pc = "follow"
      /\ CASE more /\ r.pages < MaxPages -> Step(r)
           [] ~ more /\ r.anchors # {} -> Return(r)
           [] ~ more /\ r.anchors = {} /\ ~ Waiting(r) -> Step([r EXCEPT !.pc = "confirm"])
           [] OTHER -> AskAgain(r)
      /\ UNCHANGED <<record, answers>>

(* There is a topic, and it is empty.                                      *)
ConfirmTopic ==
  /\ reader.pc = "confirm"
  /\ TopicExists(ledger, indexed, TopicOf(reader.q))
  /\ Return(reader)
  /\ UNCHANGED <<record, answers>>

(* A request fails, or the topic is unknown.                               *)
ReadFails ==
  /\ reader.pc \in {"follow", "confirm"}
  /\ AskAgain(reader)
  /\ UNCHANGED <<record, answers>>

-----------------------------------------------------------------------------
Verify ==
  \/ Unanswered
  \/ TopicUnknown
  \/ ReadTopicAnchors
  \/ AssertTopicExists
  \/ ReadIntake
  \/ ReadBalance
  \/ PollAgain
  \/ ReadRetainerSchedule
  \/ ReadRetainerRelease
  \/ Judge

Follow == ReadAnchorsOnce \/ ConfirmTopic \/ ReadFails

Next ==
  \/ ReachConsensus
  \/ Index
  \/ \E q \in Requests[ledger] : Ask(q) \/ ReadAnchors(q)
  \/ Verify
  \/ Follow

(* A verification under way goes on: every request of it is answered or    *)
(* fails within its timeout.                                               *)
Spec == Init /\ [][Next]_vars /\ WF_vars(Verify \/ Follow)
=============================================================================
