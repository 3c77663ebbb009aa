------------------------- MODULE VerdictProperties --------------------------
(***************************************************************************)
(* What an answer of the verifier must be worth, and the inductive         *)
(* invariant below it.                                                     *)
(***************************************************************************)
EXTENDS Verdict

(***************************************************************************)
(* The record as one snapshot, without requests.                           *)
(***************************************************************************)
MessagesAt(n, q) == MessagesOf(ledger, n, TopicOf(q), 0)
AnchorsAt(n, q) == AnchorsAmong(ledger, MessagesAt(n, q))
LegsOf(q) == {Data(q).intake, Data(q).balance}
LookupsAt(n, q) == RetainerLookups(ToAnchorEntries(ledger, AnchorsAt(n, q)), Data(q).order)

(* The log is there, and short enough to be read.                          *)
Readable(n, q) ==
  TopicExists(ledger, n, TopicOf(q)) /\ Cardinality(MessagesAt(n, q)) < MaxPages * PageSize

ChecksAt(n, q) ==
  RunChecks(q, ToAnchorEntries(ledger, AnchorsAt(n, q)),
            [leg \in LegsOf(q) |-> ReadTransaction(ledger, n, leg)],
            UNION {ReadSchedule(ledger, n, s) : s \in LookupsAt(n, q).schedule},
            UNION {ReadScheduledTransaction(ledger, n, s) : s \in LookupsAt(n, q).release})

(* The verdict on the first n entries.                                     *)
Snapshot(n, q) ==
  IF ~ Readable(n, q) THEN Error
  ELSE IF Passed(ChecksAt(n, q)) THEN Ok
  ELSE Failed

HasRetainer == \E i \in DOMAIN ledger : ledger[i].type = "schedule"

(* What the demo waits for can be read in the first n entries.             *)
Complete(n, q) ==
  /\ Cardinality(AnchorsFor(AnchorsAt(n, q), Data(q).order)) >= ExpectedAnchors
  /\ \A leg \in LegsOf(q) : ReadTransaction(ledger, n, leg) # {}

(* Nothing is wrong with the order when all of that is there.              *)
InOrder(q) == \A n \in 0..Len(ledger) : Complete(n, q) => Snapshot(n, q) = Ok

(***************************************************************************)
(* Properties.                                                             *)
(***************************************************************************)
(* Although it reads one thing after another while the record grows, a     *)
(* verification that reaches a verdict reaches that of one state of the    *)
(* record between the question and the answer: of the whole log of a known *)
(* topic, every request answered.  It is what the caller shows: only the   *)
(* demo records a FAIL when it could not look.  A failed verdict on an     *)
(* order with a retainer is excepted if the record grew meanwhile: the     *)
(* schedule is read after the anchors.                                     *)
Seen(a, code) == \E n \in a.since..a.upTo : Snapshot(n, a.q) = code

OfOneRecord(a) ==
  /\ a.shown = "pass" => Seen(a, Ok)
  /\ a.shown = "fail" /\ (HasRetainer => a.since = a.upTo) =>
       Seen(a, Failed) \/ (a.q.caller = "demo" /\ a.code = Error)

VerdictOfOneRecord == \A k \in DOMAIN answers : OfOneRecord(answers[k])

(* Only a receipt that was sealed, with the work order it names, passes,   *)
(* and only on the topic where the first anchor of its kind covers it: not *)
(* one that was edited, issued anew or signed by another key.              *)
SealedAt(i, q) ==
  /\ ledger[i].anchor.kind = "receipt"
  /\ ledger[i].anchor.order = Data(q).order
  /\ Issued[ledger[i].anchor.by] = q.receipt

WasSealed(n, q) ==
  /\ VerifyEnvelope(q.receipt)
  /\ \A m \in q.mandate : m = Envelope[Data(q).mandate]
  /\ \E i \in MessagesAt(n, q) :
       /\ SealedAt(i, q)
       /\ \A j \in PositionsOf(ToAnchorEntries(ledger, AnchorsAt(i, q)),
                               Data(q).order, "receipt") : j = i

OnlySealedPasses ==
  \A k \in DOMAIN answers : answers[k].code = Ok => WasSealed(answers[k].upTo, answers[k].q)

(* The demo waits until the record can be read: an order that is in order  *)
(* does not fail it because the mirror node is behind.  Its orders carry   *)
(* no retainer: the wait counts anchors, of whatever kind.                 *)
DemoWaitsForTheRecord ==
  \A k \in DOMAIN answers :
    answers[k].q.caller = "demo" /\ InOrder(answers[k].q) /\ ~ HasRetainer =>
      answers[k].code # Failed

(* What the library's reader returns is all that was on the topic at one   *)
(* time between the call and the answer; a topic that does not exist, or   *)
(* cannot be read, is never returned as one without anchors.               *)
WholeLog(a) ==
  /\ TopicExists(ledger, a.upTo, a.q.topic)
  /\ \E n \in a.since..a.upTo :
       a.anchors = AnchorsAmong(ledger, MessagesOf(ledger, n, a.q.topic, a.q.from))

ReaderReturnsWholeLog == \A a \in returned : WholeLog(a)

(* Every verification comes to an end, even if nothing is ever answered.   *)
VerificationEnds == reader # Idle ~> reader = Idle

(* "The evidence contradicts the receipt": the command says a check failed *)
(* only if the record, as it reached consensus, fails it.                  *)
FailedIsContradicted ==
  [][LET a == answers'[Len(answers')]
     IN  answers' # answers /\ a.code = Failed => Snapshot(agreed, a.q) = Failed]_vars

(***************************************************************************)
(* The inductive invariant.                                                *)
(***************************************************************************)
ReaderFields == {"pc", "q", "polls", "since", "tries", "pages", "after", "anchors", "tx",
                 "schedule", "release"}
OfTheLog == {"anchors", "topic", "follow", "confirm"}
OfTheOrder == {"intake", "balance", "poll", "schedule", "release", "judge"}

(* A verification or a read that is under way.                             *)
ReaderForm(r) ==
  /\ DOMAIN r = ReaderFields
  /\ r.pc \in OfTheLog \cup OfTheOrder
  /\ r.pc \in {"follow", "confirm"} <=> r.q.caller = "library"
  /\ r.q \in Requests[ledger]
  /\ r.polls \in 0..MaxPolls
  /\ r.since \in 0..indexed
  /\ r.tries \in 0..(Attempts - 1)
  /\ r.pages \in 0..MaxPages
  /\ r.after \in Nat

AnswerForm(a) ==
  /\ DOMAIN a = {"q", "since", "upTo", "code", "shown"}
  /\ a.q \in Requests[ledger]
  /\ a.upTo \in 0..indexed
  /\ a.since \in 0..a.upTo
  /\ a.code \in {Ok, Failed, Error}
  /\ a.shown = Shown(a.q.caller, a.code)

(* The mirror node shows nothing that did not reach consensus.             *)
TypeOK ==
  /\ ledger \in DOMAIN Requests
  /\ agreed \in 0..Len(ledger)
  /\ indexed \in 0..agreed
  /\ reader = Idle \/ ReaderForm(reader)
  /\ answers \in Seq({answers[k] : k \in DOMAIN answers})
  /\ \A k \in DOMAIN answers : AnswerForm(answers[k])
  /\ IsFiniteSet(returned)
  /\ Len(answers) + Cardinality(returned) <= MaxAnswers
  /\ reader # Idle => Len(answers) + Cardinality(returned) < MaxAnswers

(* The log that a read is about.                                           *)
From(q) == IF q.caller = "library" THEN q.from ELSE 0
LogAt(n, q) == MessagesOf(ledger, n, TopicOf(q), From(q))

(* The pages that were read have all that is on the topic up to the last   *)
(* message on them.                                                        *)
PagesSound(r) ==
  r.pc \in {"anchors", "follow"} =>
    /\ r.pages < MaxPages
    /\ r.after >= From(r.q)
    /\ r.after <= indexed \/ r.after = From(r.q)
    /\ r.anchors = AnchorsAmong(ledger, LogAt(r.after, r.q))
    /\ Cardinality(LogAt(r.after, r.q)) <= r.pages * PageSize

(* The log was read when it had n entries.                                 *)
LogRead(r, n) ==
  /\ r.anchors = AnchorsAmong(ledger, LogAt(n, r.q))
  /\ Cardinality(LogAt(n, r.q)) < MaxPages * PageSize

LogSound(r) ==
  r.pc \in {"topic", "confirm"} => r.anchors = {} /\ \E n \in r.since..indexed : LogRead(r, n)

LegsRead(r) ==
  IF r.pc \in OfTheLog \cup {"intake"} THEN {}
  ELSE IF r.pc = "balance" THEN {Data(r.q).intake}
  ELSE LegsOf(r.q)

(* What else was read since then, and after what.                          *)
ReadsSound(r, n) ==
  LET lookups == RetainerLookups(Entries(r), Data(r.q).order)
  IN  /\ \A leg \in DOMAIN r.tx :
           \E k \in n..indexed : r.tx[leg] = ReadTransaction(ledger, k, leg)
      /\ r.pc \in {"release", "judge"} =>
           \E k \in n..indexed :
             r.schedule = UNION {ReadSchedule(ledger, k, s) : s \in lookups.schedule}
      /\ r.pc = "judge" =>
           \E k \in n..indexed :
             r.release = UNION {ReadScheduledTransaction(ledger, k, s) : s \in lookups.release}

OrderSound(r) ==
  /\ DOMAIN r.tx = LegsRead(r)
  /\ r.pc \in OfTheOrder =>
       \E n \in r.since..indexed :
         LogRead(r, n) /\ TopicExists(ledger, n, TopicOf(r.q)) /\ ReadsSound(r, n)

(* The demo has waited before it verifies.                                 *)
WaitSound(r) ==
  /\ r.pc = "poll" => r.polls > 0
  /\ r.pc \in {"schedule", "release", "judge"} => r.polls = 0
  /\ r.q.caller = "demo" /\ r.polls = 0 => Complete(r.since, r.q)

Sound(r) == PagesSound(r) /\ LogSound(r) /\ OrderSound(r) /\ WaitSound(r)

ReaderSound == reader # Idle => Sound(reader)

Waited(a) == a.q.caller = "demo" /\ a.code # Error => Complete(a.since, a.q)

DemoWaited == \A k \in DOMAIN answers : Waited(answers[k])

IInv ==
  /\ TypeOK
  /\ ReaderSound
  /\ VerdictOfOneRecord
  /\ OnlySealedPasses
  /\ DemoWaited
  /\ ReaderReturnsWholeLog
=============================================================================
