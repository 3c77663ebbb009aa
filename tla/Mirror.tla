------------------------------- MODULE Mirror -------------------------------
(***************************************************************************)
(* The public record as a reader meets it.  The ledger is external: it is  *)
(* the sequence of what reached consensus, and a position in it is a       *)
(* consensus timestamp.  A mirror node indexes the ledger in that order    *)
(* and some time later, so a request is answered from the first n entries. *)
(* The readers of src/verifier/mirror.ts are operators of the ledger and   *)
(* of that n; what is read is a set of at most one record, empty when the  *)
(* ledger "does not have it".                                              *)
(***************************************************************************)
EXTENDS AuditTopic, FiniteSets

CONSTANTS
  PageSize,  \* messages in one page of a topic
  MaxPages   \* pages a reader follows before it refuses the log

ASSUME PagesAssumption == PageSize \in Nat \ {0} /\ MaxPages \in Nat \ {0}

(* What can reach consensus.                                               *)
TopicCreated(t) == [type |-> "topic", topic |-> t]
Message(t, a) == [type |-> "message", topic |-> t, anchor |-> a]
Transfer(id, payer, payee, result) ==
  [type |-> "transfer", id |-> id, payer |-> payer, payee |-> payee,
   result |-> result, scheduled |-> FALSE]
ScheduleCreated(s, creator) == [type |-> "schedule", id |-> s, creator |-> creator]
ScheduleDeleted(s) == [type |-> "deletion", id |-> s]

(* A schedule and the transfer it executes share one transaction id.       *)
ScheduleExecuted(s, payer, payee) ==
  [Transfer(s, payer, payee, "SUCCESS") EXCEPT !.scheduled = TRUE]

(* The kinds of anchors: the steps of an order, and the optional retainer. *)
AnchorKinds == RequiredKinds \cup {"retainer_scheduled", "retainer_released"}

(* A well-formed anchor of a kind that is known.                           *)
IsAnchorRecord(a) == a.kind \in AnchorKinds

(* A message that is no anchor: anyone may write to a topic.               *)
Chatter == Anchor("none", "none", "none")

Executes(e) == e.type = "transfer" /\ e.scheduled

(* What the network gives: a topic is created before its messages, and ids *)
(* of schedules are not used again; a schedule is executed once.           *)
NetworkOrdered(ledger) ==
  /\ \A i \in DOMAIN ledger : ledger[i].type = "message" =>
       \E k \in 1..(i - 1) : ledger[k].type = "topic" /\ ledger[k].topic = ledger[i].topic
  /\ \A i, j \in DOMAIN ledger :
       ledger[i].type = "schedule" /\ ledger[j].type = "schedule" /\ ledger[i].id = ledger[j].id
         => i = j
  /\ \A i, j \in DOMAIN ledger :
       Executes(ledger[i]) /\ Executes(ledger[j]) /\ ledger[i].id = ledger[j].id => i = j

(* The entry is what the anchor says has happened.                         *)
Vouches(a, e) ==
  \/ /\ a.kind \in {"payment_intake", "payment_balance"}
     /\ e.type = "transfer" /\ e.id = a.by /\ e.result = "SUCCESS"
  \/ a.kind = "retainer_scheduled" /\ e.type = "schedule" /\ e.id = a.by
  \/ a.kind = "retainer_released" /\ Executes(e) /\ e.id = a.by

(* What the two agents see to: they anchor what has happened, not what     *)
(* will.                                                                   *)
AnchoredAfterwards(ledger) ==
  \A i, j \in DOMAIN ledger :
    ledger[i].type = "message" /\ Vouches(ledger[i].anchor, ledger[j]) =>
      \E k \in 1..(i - 1) : Vouches(ledger[i].anchor, ledger[k])

(* A ledger that the network and the two agents can have written.          *)
IsLedger(ledger) ==
  /\ ledger \in Seq({ledger[i] : i \in DOMAIN ledger})
  /\ NetworkOrdered(ledger)
  /\ AnchoredAfterwards(ledger)

(***************************************************************************)
(* Requests.                                                               *)
(***************************************************************************)
TopicExists(ledger, n, t) ==
  \E i \in 1..n : ledger[i].type = "topic" /\ ledger[i].topic = t

(* The messages of a topic after a given position.                         *)
MessagesOf(ledger, n, t, after) ==
  {i \in 1..n : i > after /\ ledger[i].type = "message" /\ ledger[i].topic = t}

(* A page has the first of them; a full one links to the next.             *)
MessagePage(ledger, n, t, after) ==
  LET rest == MessagesOf(ledger, n, t, after)
  IN  [messages |-> {i \in rest : Cardinality({j \in rest : j < i}) < PageSize},
       next |-> Cardinality(rest) >= PageSize]

(* The messages that are anchors; anything else on the topic is skipped.   *)
AnchorsAmong(ledger, messages) == {i \in messages : IsAnchorRecord(ledger[i].anchor)}

(* An anchor as a reader has it, with its consensus time.                  *)
AnchorEntry(ledger, i) ==
  [kind |-> ledger[i].anchor.kind, order |-> ledger[i].anchor.order,
   by |-> ledger[i].anchor.by, at |-> i]

(* The anchors at some positions, by their consensus times.                *)
ToAnchorEntries(ledger, anchors) == [i \in anchors |-> AnchorEntry(ledger, i)]

(* Records that a transaction id has: a refused duplicate, the transfer, a *)
(* transfer that a schedule executed.                                      *)
RecordsOf(ledger, n, id) ==
  {i \in 1..n : ledger[i].type = "transfer" /\ ledger[i].id = id}

Earliest(ledger, positions) ==
  {ledger[i] : i \in {j \in positions : \A k \in positions : j <= k}}

(* Mutant: the first record, whatever became of it.                        *)
FirstRecord(ledger, n, id) == Earliest(ledger, RecordsOf(ledger, n, id))

(* The successful record is the one that moved the money.                  *)
ReadTransaction(ledger, n, id) ==
  LET all == RecordsOf(ledger, n, id)
      successful == {i \in all : ledger[i].result = "SUCCESS"}
  IN  Earliest(ledger, IF successful # {} THEN successful ELSE all)

(* A schedule says when it was executed, 0 while it is pending.            *)
ReadSchedule(ledger, n, s) ==
  LET executions == {i \in RecordsOf(ledger, n, s) : ledger[i].scheduled}
      deleted == \E i \in 1..n : ledger[i].type = "deletion" /\ ledger[i].id = s
  IN  {[id |-> s, creator |-> ledger[i].creator, deleted |-> deleted,
        executed |-> IF executions = {} THEN 0 ELSE CHOOSE j \in executions : TRUE] :
       i \in {j \in 1..n : ledger[j].type = "schedule" /\ ledger[j].id = s}}

At(ledger, positions) == {[at |-> i, transfer |-> ledger[i]] : i \in positions}

(* The transfer a schedule executed is the record flagged `scheduled`.     *)
ReadScheduledTransaction(ledger, n, id) ==
  At(ledger, {i \in RecordsOf(ledger, n, id) : ledger[i].scheduled})

ReadTransactionAtTimestamp(ledger, n, at) == At(ledger, {at} \cap 1..n)
=============================================================================
