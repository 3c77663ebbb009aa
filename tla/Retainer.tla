------------------------------ MODULE Retainer ------------------------------
(***************************************************************************)
(* The optional retainer (src/retainer): the customer authorises one       *)
(* transfer to the contractor as a scheduled transaction and anchors it,   *)
(* the contractor signs it after delivering and anchors the release.       *)
(*                                                                         *)
(* `create`, `release` and `status` are commands, each a process that ends *)
(* with an exit code.  They take their order and schedule as arguments,    *)
(* keep nothing between two invocations and know of each other only what   *)
(* the ledger says, which they read through a mirror node that lags.       *)
(*                                                                         *)
(* A command sends one transaction at a time and awaits its receipt        *)
(* (src/anchor/client.ts, src/retainer/schedule.ts and release.ts).  It    *)
(* may throw, time out or be killed at any step; what it had sent then     *)
(* reaches consensus later, or expires.                                    *)
(*                                                                         *)
(* The ledger's part is external: schedules, their expiry, their execution *)
(* by the last signature, and the topic.  Others may create schedules too, *)
(* and the contractor may be asked to sign one of theirs.                  *)
(***************************************************************************)
EXTENDS FiniteSets, Mirror, RetainerCheck

CONSTANTS
  Topic,      \* the audit topic
  Orders,
  Customer,   \* accounts of the two parties
  Agency,
  Schedules,  \* schedule ids the ledger can hand out to `create`, in their order
  Foreign,    \* sequence of the schedules of others: [id, creator, payee]
  MaxPolls,   \* times a release looks again for its execution, until its deadline
  MaxCommands, \* bound: invocations of the command line
  MaxUnderWay, \* bound: those that run, or left something under way, at a time
  None        \* no verb, no order, no schedule

ASSUME SchedulesAssumption ==
  /\ Schedules \subseteq Nat
  /\ Foreign \in Seq({Foreign[k] : k \in DOMAIN Foreign})
  /\ \A k \in DOMAIN Foreign : Foreign[k].id \in Nat \ Schedules
ASSUME NoneAssumption == None \notin Orders \cup {"create", "release", "status"}
ASSUME BoundsAssumption == MaxPolls \in Nat /\ MaxCommands \in Nat /\ MaxUnderWay \in Nat

VARIABLES
  ledger,   \* what reached consensus
  shown,    \* length of what the mirror node has shown to a command
  lapsed,   \* schedules whose deadline passed before the signature
  command   \* the invocations

vars == <<ledger, shown, lapsed, command>>

(* Invocations are numbered in the order in which they start.              *)
Commands == 1..MaxCommands

(* `late` is the step whose transaction is still under way although the    *)
(* command that sent it is gone.                                           *)
Off == [pc |-> "off", verb |-> None, order |-> None, schedule |-> None, polls |-> 0, exit |-> 0,
        late |-> "none"]

Running(c) == command[c].pc \notin {"off", "ended"}
UnderWay(c) == Running(c) \/ command[c].late # "none"

(* The schedules of others are there from the start.                       *)
Init ==
  /\ ledger = <<TopicCreated(Topic)>>
               \o [k \in DOMAIN Foreign |-> ScheduleCreated(Foreign[k].id, Foreign[k].creator)]
  /\ shown = Len(ledger)
  /\ lapsed = {}
  /\ command = [c \in Commands |-> Off]

(***************************************************************************)
(* The ledger.                                                             *)
(***************************************************************************)
AllSchedules == Schedules \cup {Foreign[k].id : k \in DOMAIN Foreign}

Terms(s) ==
  IF s \in Schedules THEN [id |-> s, creator |-> Customer, payee |-> Agency]
  ELSE Foreign[CHOOSE k \in DOMAIN Foreign : Foreign[k].id = s]

Created(s) == \E i \in DOMAIN ledger : ledger[i].type = "schedule" /\ ledger[i].id = s
Executed(s) == RecordsOf(ledger, Len(ledger), s) # {}
Pending(s) == Created(s) /\ ~ Executed(s) /\ s \notin lapsed

Agree(e) == ledger' = Append(ledger, e) /\ UNCHANGED <<shown, lapsed>>

(* The authorisation expires; the customer keeps the balance.  Those of    *)
(* others stand.                                                           *)
Lapse(s) ==
  /\ Pending(s)
  /\ lapsed' = lapsed \cup {s}
  /\ UNCHANGED <<ledger, shown, command>>

(* The order's own work: the contractor anchors the delivery, once.        *)
Delivered(m) == \E i \in DOMAIN ledger :
  ledger[i].type = "message" /\ ledger[i].anchor.kind = "delivered" /\ ledger[i].anchor.order = m

Deliver(m) ==
  /\ ~ Delivered(m)
  /\ Agree(Message(Topic, Anchor("delivered", m, m)))
  /\ UNCHANGED command

(***************************************************************************)
(* Commands.                                                               *)
(***************************************************************************)
Start(c, verb, m, s) ==
  /\ command[c].pc = "off"
  /\ \A d \in 1..(c - 1) : command[d].pc # "off"
  /\ Cardinality({d \in Commands : UnderWay(d)}) < MaxUnderWay
  /\ command' = [command EXCEPT ![c] = [pc |-> verb, verb |-> verb, order |-> m, schedule |-> s,
                                        polls |-> MaxPolls, exit |-> 0, late |-> "none"]]
  /\ UNCHANGED <<ledger, shown, lapsed>>

(* The schedule exists; an unknown one is refused, like one that is over.  *)
Create(c, m) == Start(c, "create", m, None)
Release(c, m, s) == Created(s) /\ Start(c, "release", m, s)
Status(c, s) == Created(s) /\ Start(c, "status", None, s)

Becomes(c, call) == command' = [command EXCEPT ![c] = call]
Goto(c, pc) == Becomes(c, [command[c] EXCEPT !.pc = pc])
End(c, code) == Becomes(c, [command[c] EXCEPT !.pc = "ended", !.exit = code, !.polls = 0])
PollAgain(c) == Becomes(c, [command[c] EXCEPT !.polls = command[c].polls - 1])

(* A malformed configuration or argument, a request that failed, a mirror  *)
(* node that does not answer, a receipt that did not come in time, a       *)
(* process that was killed: nothing is retried, the exit code is 1.  What  *)
(* was on its way to the network stays on its way.                         *)
Sending == {"create", "release", "anchor"}

Throw(c) ==
  /\ Running(c)
  /\ Becomes(c, [command[c] EXCEPT !.pc = "ended", !.exit = 1, !.polls = 0,
                    !.late = IF command[c].pc \in Sending THEN command[c].pc ELSE "none"])
  /\ UNCHANGED <<ledger, shown, lapsed>>

(* The ledger hands out the next schedule id.                              *)
Authorise(s) ==
  /\ \A t \in Schedules : Created(t) <=> t < s
  /\ Agree(ScheduleCreated(s, Customer))

(* The signature that was missing: the network executes the transfer at    *)
(* once.                                                                   *)
Sign(s) ==
  /\ Pending(s)
  /\ Agree(ScheduleExecuted(s, Terms(s).creator, Terms(s).payee))

(* The schedule exists; its id is known from the receipt only.             *)
ScheduleRetainer(c) ==
  /\ command[c].pc = "create"
  /\ \E s \in Schedules :
       Authorise(s) /\ Becomes(c, [command[c] EXCEPT !.pc = "anchor", !.schedule = s])

(* Mutant: the release is anchored once it is signed, seen or not.         *)
AnchorAtOnce(c) ==
  /\ command[c].pc = "release"
  /\ Sign(command[c].schedule)
  /\ Goto(c, "anchor")

ReleaseRetainer(c) ==
  /\ command[c].pc = "release"
  /\ Sign(command[c].schedule)
  /\ Goto(c, "wait")

(* The network refuses a schedule that was executed before or has expired, *)
(* and the command throws.  (Ids run out in the model only.)               *)
Refused(c) ==
  /\ \/ command[c].pc = "release" /\ ~ Pending(command[c].schedule)
     \/ command[c].pc = "create" /\ \A s \in Schedules : Created(s)
  /\ End(c, 1)
  /\ UNCHANGED <<ledger, shown, lapsed>>

(* The schedule, and once it reports an execution the transfer at that     *)
(* instant, as the first n entries have them.                              *)
RetainerStatus(n, s) ==
  LET schedule == ReadSchedule(ledger, n, s)
      Transfers(t) == IF t.executed = 0 THEN {}
                      ELSE ReadTransactionAtTimestamp(ledger, n, t.executed)
  IN  [schedule |-> schedule, transfer |-> UNION {Transfers(t) : t \in schedule}]

(* A transfer that does not credit the contractor is not anchored.         *)
Credits(status) == \E t \in status.transfer : t.transfer.payee = Agency

(* The mirror node has come this far since it was last asked.              *)
Look(n) == n \in shown..Len(ledger) /\ shown' = n /\ UNCHANGED <<ledger, lapsed>>

(* Mutant: whatever was executed is anchored.                              *)
ExecutedAtAll(c, n) ==
  /\ command[c].pc = "wait"
  /\ Look(n)
  /\ IF RetainerStatus(n, command[c].schedule).transfer # {} THEN Goto(c, "anchor") ELSE End(c, 1)

(* Mutant: the deadline is never looked at.                                *)
WaitForever(c, n) ==
  LET status == RetainerStatus(n, command[c].schedule)
  IN  /\ command[c].pc = "wait"
      /\ Look(n)
      /\ \/ status.transfer # {} /\ IF Credits(status) THEN Goto(c, "anchor") ELSE End(c, 1)
         \/ status.transfer = {} /\ Becomes(c, [command[c] EXCEPT !.polls = MaxPolls - @])

(* The contractor anchors nothing it cannot prove yet; the wait has a      *)
(* deadline.                                                               *)
WaitForExecution(c, n) ==
  LET status == RetainerStatus(n, command[c].schedule)
  IN  /\ command[c].pc = "wait"
      /\ Look(n)
      /\ \/ status.transfer # {} /\ Credits(status) /\ Goto(c, "anchor")
         \/ status.transfer # {} /\ ~ Credits(status) /\ End(c, 1)
         \/ status.transfer = {} /\ command[c].polls > 0 /\ PollAgain(c)
         \/ status.transfer = {} /\ command[c].polls = 0 /\ End(c, 1)

(* The anchor of this stage, which names the schedule.                     *)
RetainerAnchor(c) ==
  Anchor(IF command[c].verb = "create" THEN "retainer_scheduled" ELSE "retainer_released",
         command[c].order, command[c].schedule)

(* Mutant: a submission that failed is not noticed.                        *)
SubmitUnawares(c) ==
  /\ command[c].pc = "anchor"
  /\ \/ Agree(Message(Topic, RetainerAnchor(c)))
     \/ UNCHANGED <<ledger, shown, lapsed>>
  /\ End(c, 0)

(* The receipt says that the anchor is on the topic.                       *)
SubmitAnchor(c) ==
  /\ command[c].pc = "anchor"
  /\ Agree(Message(Topic, RetainerAnchor(c)))
  /\ End(c, 0)

(* Holds no keys, says what the mirror node shows.                         *)
RunStatus(c, n) ==
  /\ command[c].pc = "status"
  /\ Look(n)
  /\ End(c, IF RetainerStatus(n, command[c].schedule).schedule = {} THEN 1 ELSE 0)

(***************************************************************************)
(* What a command had sent and no longer waits for.                        *)
(***************************************************************************)
Settle(c) == Becomes(c, [command[c] EXCEPT !.late = "none"])

LandCreation(c) ==
  /\ command[c].late = "create"
  /\ \E s \in Schedules : Authorise(s)
  /\ Settle(c)

LandSignature(c) ==
  /\ command[c].late = "release"
  /\ Sign(command[c].schedule)
  /\ Settle(c)

LandAnchor(c) ==
  /\ command[c].late = "anchor"
  /\ Agree(Message(Topic, RetainerAnchor(c)))
  /\ Settle(c)

(* It never left, the network refuses it, or it has grown too old for it.  *)
Expire(c) ==
  /\ command[c].late # "none"
  /\ Settle(c)
  /\ UNCHANGED <<ledger, shown, lapsed>>

Proceed(c) ==
  \/ ScheduleRetainer(c)
  \/ ReleaseRetainer(c)
  \/ Refused(c)
  \/ SubmitAnchor(c)
  \/ \E n \in DOMAIN ledger : WaitForExecution(c, n) \/ RunStatus(c, n)

Next ==
  \/ \E m \in Orders : Deliver(m)
  \/ \E s \in Schedules : Lapse(s)
  \/ \E c \in Commands :
       \/ \E m \in Orders : Create(c, m) \/ \E s \in AllSchedules : Release(c, m, s)
       \/ \E s \in AllSchedules : Status(c, s)
       \/ Proceed(c)
       \/ Throw(c)
       \/ LandCreation(c) \/ LandSignature(c) \/ LandAnchor(c) \/ Expire(c)

(* A command that was started goes on: what it waits for is bounded by a   *)
(* timeout, the SDK's or its own.                                          *)
Spec == Init /\ [][Next]_vars /\ \A c \in Commands : WF_vars(Proceed(c))
=============================================================================
