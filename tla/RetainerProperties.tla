------------------------- MODULE RetainerProperties -------------------------
(***************************************************************************)
(* What the retainer's anchors must be worth.                              *)
(***************************************************************************)
EXTENDS Retainer

(***************************************************************************)
(* The inductive invariant: what is true of the ledger, and of what each   *)
(* command is about to put on it.                                          *)
(***************************************************************************)
Verbs == {"create", "release", "status"}

ScheduledAnchor(m, s) == Message(Topic, Anchor("retainer_scheduled", m, s))
ReleasedAnchor(m, s) == Message(Topic, Anchor("retainer_released", m, s))

(* Whatever can be on the ledger of the retainer.                          *)
ScheduleEntries ==
  {ScheduleCreated(s, Customer) : s \in Schedules}
    \cup {ScheduleCreated(Foreign[k].id, Foreign[k].creator) : k \in DOMAIN Foreign}
Executions == {ScheduleExecuted(s, Terms(s).creator, Terms(s).payee) : s \in AllSchedules}
Deliveries == {Message(Topic, Anchor("delivered", m, m)) : m \in Orders}
AnchorsOf(m) ==
  {ScheduledAnchor(m, s) : s \in AllSchedules} \cup {ReleasedAnchor(m, s) : s \in AllSchedules}

Entries ==
  {TopicCreated(Topic)} \cup ScheduleEntries \cup Executions \cup Deliveries
    \cup UNION {AnchorsOf(m) : m \in Orders}

(* An invocation of the command line.                                      *)
Call == [pc : {"off", "wait", "anchor", "ended"} \cup Verbs, verb : Verbs \cup {None},
         order : Orders \cup {None}, schedule : AllSchedules \cup {None},
         polls : 0..MaxPolls, exit : {0, 1}, late : Sending \cup {"none"}]

TypeOK ==
  /\ ledger \in Seq(Entries)
  /\ shown \in 1..Len(ledger)
  /\ lapsed \subseteq Schedules
  /\ command \in [Commands -> Call]

(* The network executes a schedule that was created, at most once, and     *)
(* not after it lapsed.                                                    *)
LedgerSound ==
  /\ \A i \in DOMAIN ledger : ledger[i].type = "transfer" => Created(ledger[i].id)
  /\ \A i, j \in DOMAIN ledger :
       ledger[i].type = "transfer" /\ ledger[j].type = "transfer" /\ ledger[i].id = ledger[j].id
         => i = j
  /\ \A s \in lapsed : Created(s) /\ ~ Executed(s)

(* The mirror node has shown the transfer of a schedule, to the contractor.*)
Seen(s, n) ==
  /\ Terms(s).payee = Agency
  /\ \E i \in 1..n : i <= shown /\ ledger[i].type = "transfer" /\ ledger[i].id = s

OnRecord(e) == \E i \in DOMAIN ledger : ledger[i] = e

(* An anchor of the retainer was put there by a command that is over; that *)
(* of a release, after the mirror node had shown the transfer.             *)
AnchorsSound ==
  \A i \in DOMAIN ledger : \A m \in Orders : \A s \in AllSchedules :
    /\ ledger[i] = ScheduledAnchor(m, s) =>
         \E c \in Commands : /\ command[c].pc = "ended" /\ command[c].verb = "create"
                             /\ command[c].order = m /\ command[c].schedule = s
    /\ ledger[i] = ReleasedAnchor(m, s) =>
         /\ Seen(s, i - 1)
         /\ \E c \in Commands : /\ command[c].pc = "ended" /\ command[c].verb = "release"
                                /\ command[c].order = m /\ command[c].schedule = s

(* A command anchors what it did, or what it saw, also when the anchor     *)
(* lands after it; one that says it succeeded has anchored it.             *)
CommandSound(call) ==
  /\ call.pc \in Verbs => call.verb = call.pc
  /\ call.verb \in {"create", "release"} => call.order \in Orders
  /\ call.verb = "release" => call.schedule \in AllSchedules
  /\ call.verb = "status" => call.order = None
  /\ call.pc = "off" => call.verb = None /\ call.order = None
  /\ call.pc = "wait" => call.verb = "release"
  /\ call.late # "none" => call.pc = "ended" /\ call.exit = 1
  /\ call.late \in Verbs => call.verb = call.late
  /\ call.pc = "anchor" \/ call.late = "anchor" =>
       \/ call.verb = "create" /\ call.schedule \in Schedules /\ Created(call.schedule)
       \/ call.verb = "release" /\ Seen(call.schedule, shown)
  /\ call.pc = "ended" /\ call.exit = 0 =>
       /\ call.verb = "create" =>
            /\ call.schedule \in Schedules /\ Created(call.schedule)
            /\ OnRecord(ScheduledAnchor(call.order, call.schedule))
       /\ call.verb = "release" => OnRecord(ReleasedAnchor(call.order, call.schedule))

CommandsSound == \A c \in Commands : CommandSound(command[c])

IInv == TypeOK /\ LedgerSound /\ AnchorsSound /\ CommandsSound

(***************************************************************************)
(* Check 7 on the whole record, by a reader that has all of it.  The check *)
(* asks only which anchor comes first, so each keeps the number it has on  *)
(* the ledger.                                                             *)
(***************************************************************************)
AnchorPositions ==
  {i \in DOMAIN ledger : ledger[i].type = "message" /\ IsAnchorRecord(ledger[i].anchor)}

AllAnchors == [i \in AnchorPositions |-> AnchorEntry(ledger, i)]

Verdict(m) ==
  LET n == Len(ledger)
      lookups == RetainerLookups(AllAnchors, m)
  IN  CheckRetainer(AllAnchors, m, UNION {ReadSchedule(ledger, n, s) : s \in lookups.schedule},
                    UNION {ReadScheduledTransaction(ledger, n, s) : s \in lookups.release},
                    Customer, Agency)

NamedBy(m, kind) == {AllAnchors[k].by : k \in PositionsOf(AllAnchors, m, kind)}
HeldFor(m) == NamedBy(m, "retainer_scheduled")
ReleasedFor(m) == NamedBy(m, "retainer_released")

(* The money of a schedule moved before a step was on the topic.           *)
PaidBefore(s, anchor) ==
  \E i \in RecordsOf(ledger, Len(ledger), s) :
    \A j \in 1..(i - 1) : ledger[j] # Message(Topic, anchor)

PaidBeforeDelivery(m, s) == PaidBefore(s, Anchor("delivered", m, m))

(***************************************************************************)
(* Properties.                                                             *)
(***************************************************************************)
(* Nothing in the release command looks at the order: a retainer that was  *)
(* released before the delivery is never vouched for, whoever anchors what *)
(* later, for an order that holds no other one.                            *)
EarlyReleaseCaught ==
  \A m \in Orders : \A s \in AllSchedules :
    HeldFor(m) = {s} /\ PaidBeforeDelivery(m, s) => Verdict(m) = "fail"

(* One retainer, created and released by commands that say they succeeded, *)
(* the release signed after the authorisation and the delivery were on the *)
(* topic: the order checks out, however far behind the mirror node was.    *)
Invoked(m) == {c \in Commands : command[c].order = m}

CarefulOrderPasses ==
  \A m \in Orders :
    /\ \A c \in Invoked(m) : command[c].pc = "ended" /\ command[c].exit = 0
    /\ \E c \in Invoked(m) :
         /\ command[c].verb = "create"
         /\ \A d \in Invoked(m) \ {c} :
              command[d].verb = "release" /\ command[d].schedule = command[c].schedule
         /\ ~ PaidBeforeDelivery(m, command[c].schedule)
         /\ ~ PaidBefore(command[c].schedule, RetainerAnchor(c))
         /\ Executed(command[c].schedule) => \E d \in Invoked(m) : command[d].verb = "release"
    => Verdict(m) = "pass"

(* A release is anchored only when a stranger can look it up.              *)
ReleaseIsProvable ==
  \A m \in Orders : \A s \in ReleasedFor(m) : ReadScheduledTransaction(ledger, shown, s) # {}

(* The verdict on a retainer whose money moved is final.  With its release *)
(* on the topic, no later command, delivery or late transaction can change *)
(* it.  Without, and with no anchor of it under way or in flight, there    *)
(* will be none: a second `release` is refused by the network, so the      *)
(* order fails check 7 for good.                                           *)
FirstHeld(m) == FirstOf(AllAnchors, m, "retainer_scheduled").by

Moved(m) == HeldFor(m) # {} /\ Executed(FirstHeld(m))

MayAnchor(call, s) ==
  (call.pc \in {"wait", "anchor"} \/ call.late = "anchor") /\ call.schedule = s

Accounted(m) == Moved(m) /\ FirstHeld(m) \in ReleasedFor(m)

Unrecorded(m) ==
  /\ Moved(m)
  /\ FirstHeld(m) \notin ReleasedFor(m)
  /\ \A c \in Commands : ~ MayAnchor(command[c], FirstHeld(m))

VerdictIsFinal ==
  [][\A m \in Orders :
       /\ Accounted(m) => Accounted(m)' /\ Verdict(m)' = Verdict(m)
       /\ Unrecorded(m) => Unrecorded(m)' /\ Verdict(m)' = "fail"]_vars

(* Every command ends, even if the mirror node never shows the execution:  *)
(* again and again none is under way.                                      *)
CommandsEnd == []<>(\A c \in Commands : ~ Running(c))

(* The commands keep the promise of an escrow.                             *)
MoneyOf(s) ==
  IF Executed(s) THEN "paid"
  ELSE IF s \in lapsed THEN "lapsed"
  ELSE IF Created(s) THEN "held"
  ELSE "none"

Escrow == INSTANCE EscrowPromise WITH
  Schedules <- AllSchedules,
  Payable <- {s \in AllSchedules : Terms(s).payee = Agency},
  money <- [s \in AllSchedules |-> MoneyOf(s)],
  recorded <- {s \in AllSchedules : \E m \in Orders :
                 OnRecord(ReleasedAnchor(m, s))}

EscrowKept == Escrow!Spec
=============================================================================
