--------------------------- MODULE RetainerProofs ---------------------------
(***************************************************************************)
(* Proofs about the retainer for any orders, schedules, number of commands *)
(* and delays of the mirror node.                                          *)
(***************************************************************************)
EXTENDS RetainerProperties, LogLemmas

-----------------------------------------------------------------------------
(* What can be on the ledger.                                              *)

LEMMA EntryTypes ==
  ASSUME NEW s, NEW a, NEW p, NEW q
  PROVE  /\ TopicCreated(a).type = "topic"
         /\ Message(Topic, a).type = "message" /\ Message(Topic, a).anchor = a
         /\ ScheduleCreated(s, a).type = "schedule" /\ ScheduleCreated(s, a).id = s
         /\ ScheduleCreated(s, a).creator = a
         /\ ScheduleExecuted(s, p, q).type = "transfer" /\ ScheduleExecuted(s, p, q).id = s
         /\ ScheduleExecuted(s, p, q).payer = p /\ ScheduleExecuted(s, p, q).payee = q
         /\ ScheduleExecuted(s, p, q).result = "SUCCESS" /\ ScheduleExecuted(s, p, q).scheduled
BY DEF TopicCreated, Message, ScheduleCreated, ScheduleExecuted, Transfer

LEMMA TypeOfForm ==
  ASSUME NEW e
  PROVE  /\ e = TopicCreated(Topic) => e.type = "topic"
         /\ e \in ScheduleEntries => e.type = "schedule"
         /\ e \in Executions => e.type = "transfer"
         /\ e \in Deliveries => e.type = "message"
         /\ \A m : e \in AnchorsOf(m) => e.type = "message"
<1>1. e = TopicCreated(Topic) => e.type = "topic"
  BY EntryTypes
<1>2. e \in ScheduleEntries => e.type = "schedule"
  BY EntryTypes DEF ScheduleEntries
<1>3. e \in Executions => e.type = "transfer"
  BY EntryTypes DEF Executions
<1>4. e \in Deliveries => e.type = "message"
  BY EntryTypes DEF Deliveries
<1>5. \A m : e \in AnchorsOf(m) => e.type = "message"
  BY EntryTypes DEF AnchorsOf, ScheduledAnchor, ReleasedAnchor
<1>6. QED
  BY <1>1, <1>2, <1>3, <1>4, <1>5

LEMMA EntryForms ==
  ASSUME NEW e \in Entries
  PROVE  \/ e = TopicCreated(Topic)
         \/ e \in ScheduleEntries
         \/ e \in Executions
         \/ e \in Deliveries
         \/ \E m \in Orders : e \in AnchorsOf(m)
BY DEF Entries

LEMMA NoDeletion ==
  ASSUME NEW e \in Entries
  PROVE  e.type # "deletion"
BY EntryForms, TypeOfForm

LEMMA TransferEntry ==
  ASSUME NEW e \in Entries, e.type = "transfer"
  PROVE  /\ e.id \in AllSchedules
         /\ e.payer = Terms(e.id).creator /\ e.payee = Terms(e.id).payee
         /\ e.result = "SUCCESS" /\ e.scheduled
<1>1. PICK s \in AllSchedules : e = ScheduleExecuted(s, Terms(s).creator, Terms(s).payee)
  BY EntryForms, TypeOfForm DEF Executions
<1>2. QED
  BY <1>1, EntryTypes

LEMMA ScheduleEntry ==
  ASSUME NEW e \in Entries, e.type = "schedule"
  PROVE  /\ e.id \in AllSchedules
         /\ e.id \in Schedules => e.creator = Customer
<1>1. e \in ScheduleEntries
  BY EntryForms, TypeOfForm
<1>2. CASE \E s \in Schedules : e = ScheduleCreated(s, Customer)
  BY <1>2, EntryTypes DEF AllSchedules
<1>3. CASE \E k \in DOMAIN Foreign : e = ScheduleCreated(Foreign[k].id, Foreign[k].creator)
  <2>1. PICK k \in DOMAIN Foreign : e = ScheduleCreated(Foreign[k].id, Foreign[k].creator)
    BY <1>3
  <2>2. e.id = Foreign[k].id
    BY <2>1, EntryTypes
  <2>3. Foreign[k].id \notin Schedules
    BY SchedulesAssumption
  <2>4. QED
    BY <2>2, <2>3 DEF AllSchedules
<1>4. QED
  BY <1>1, <1>2, <1>3 DEF ScheduleEntries

LEMMA MessageEntry ==
  ASSUME NEW e \in Entries, e.type = "message"
  PROVE  \/ \E m \in Orders : e = Message(Topic, Anchor("delivered", m, m))
         \/ \E m \in Orders : \E s \in AllSchedules : e = ScheduledAnchor(m, s)
         \/ \E m \in Orders : \E s \in AllSchedules : e = ReleasedAnchor(m, s)
<1>1. e \in Deliveries \/ \E m \in Orders : e \in AnchorsOf(m)
  BY EntryForms, TypeOfForm
<1>2. CASE e \in Deliveries
  BY <1>2 DEF Deliveries
<1>3. CASE \E m \in Orders : e \in AnchorsOf(m)
  BY <1>3 DEF AnchorsOf
<1>4. QED
  BY <1>1, <1>2, <1>3

(* A schedule was executed when there is a transfer under its id.          *)
LEMMA ExecutedIs ==
  ASSUME TypeOK, NEW s
  PROVE  Executed(s) <=> \E i \in DOMAIN ledger : ledger[i].type = "transfer" /\ ledger[i].id = s
BY DEF TypeOK, Executed, RecordsOf

(* The ledger grows by one entry.                                          *)
LEMMA LedgerGrows ==
  ASSUME TypeOK, NEW e \in Entries, ledger' = Append(ledger, e)
  PROVE  /\ ledger' \in Seq(Entries)
         /\ DOMAIN ledger' = DOMAIN ledger \cup {Len(ledger) + 1}
         /\ \A i \in DOMAIN ledger : ledger'[i] = ledger[i]
         /\ ledger'[Len(ledger) + 1] = e
         /\ DOMAIN ledger = 1..Len(ledger) /\ Len(ledger) \in Nat
         /\ Len(ledger') = Len(ledger) + 1
<1>1. ledger \in Seq(Entries)
  BY DEF TypeOK
<1>2. Len(Append(ledger, e)) = Len(ledger) + 1
  BY <1>1
<1>3. QED
  BY <1>1, <1>2, AppendGrows

LEMMA FactsGrow ==
  ASSUME TypeOK, NEW e \in Entries, ledger' = Append(ledger, e)
  PROVE  /\ \A s : Created(s)' <=> Created(s) \/ (e.type = "schedule" /\ e.id = s)
         /\ \A s : Executed(s)' <=> Executed(s) \/ (e.type = "transfer" /\ e.id = s)
         /\ \A x : OnRecord(x)' <=> OnRecord(x) \/ x = e
<1>1. \A s : Created(s)' <=> Created(s) \/ (e.type = "schedule" /\ e.id = s)
  BY LedgerGrows DEF Created
<1>2. \A s : Executed(s)' <=> Executed(s) \/ (e.type = "transfer" /\ e.id = s)
  BY LedgerGrows DEF Executed, RecordsOf
<1>3. \A x : OnRecord(x)' <=> OnRecord(x) \/ x = e
  BY LedgerGrows DEF OnRecord
<1>4. QED
  BY <1>1, <1>2, <1>3

-----------------------------------------------------------------------------
(* The invariant, step by step.                                            *)

(* The mirror node never shows less.                                       *)
Onward == shown' \in shown..Len(ledger')

(* What was known of the ledger stays known.                               *)
LEMMA Quietly ==
  ASSUME TypeOK, ledger' = ledger, Onward
  PROVE  /\ \A s : Created(s)' <=> Created(s)
         /\ \A s : Executed(s)' <=> Executed(s)
         /\ \A x : OnRecord(x)' <=> OnRecord(x)
         /\ \A s : \A n \in Nat : Seen(s, n) => Seen(s, n)'
         /\ \A s : Seen(s, shown) => Seen(s, shown)'
<1>1. \A s : Created(s)' <=> Created(s)
  BY DEF Created
<1>2. \A s : Executed(s)' <=> Executed(s)
  BY DEF Executed, RecordsOf
<1>3. \A x : OnRecord(x)' <=> OnRecord(x)
  BY DEF OnRecord
<1>4. shown \in Nat /\ shown' \in Nat /\ shown <= shown'
  BY DEF TypeOK, Onward
<1>5. \A s : \A n \in Nat : Seen(s, n) => Seen(s, n)'
  BY <1>4 DEF Seen
<1>6. \A s : Seen(s, shown) => Seen(s, shown)'
  BY <1>4 DEF Seen
<1>7. QED
  BY <1>1, <1>2, <1>3, <1>5, <1>6

LEMMA SeenGrows ==
  ASSUME TypeOK, NEW e \in Entries, ledger' = Append(ledger, e), shown' = shown
  PROVE  /\ \A s : \A n \in 0..Len(ledger) : Seen(s, n) => Seen(s, n)'
         /\ \A s : Seen(s, shown) => Seen(s, shown)'
<1>1. shown \in 1..Len(ledger) /\ Len(ledger) \in Nat
  BY LedgerGrows DEF TypeOK
<1>2. \A i \in 1..Len(ledger) : ledger'[i] = ledger[i]
  BY LedgerGrows
<1>3. \A s : \A n \in 0..Len(ledger) : Seen(s, n) => Seen(s, n)'
  BY <1>1, <1>2 DEF Seen
<1>4. \A s : Seen(s, shown) => Seen(s, shown)'
  BY <1>1, <1>2 DEF Seen
<1>5. QED
  BY <1>3, <1>4

LEMMA CommandsKeep ==
  ASSUME CommandsSound,
         \A s : Created(s) => Created(s)',
         \A x : OnRecord(x) => OnRecord(x)',
         \A s : Seen(s, shown) => Seen(s, shown)',
         \A d \in Commands : command'[d] = command[d] \/ CommandSound(command[d])'
  PROVE  CommandsSound'
<1> SUFFICES ASSUME NEW d \in Commands, command'[d] = command[d]
             PROVE  CommandSound(command[d])'
  BY DEF CommandsSound
<1>1. CommandSound(command[d])
  BY DEF CommandsSound
<1>2. ScheduledAnchor(command[d].order, command[d].schedule)'
        = ScheduledAnchor(command[d].order, command[d].schedule)
  BY DEF ScheduledAnchor
<1>3. ReleasedAnchor(command[d].order, command[d].schedule)'
        = ReleasedAnchor(command[d].order, command[d].schedule)
  BY DEF ReleasedAnchor
<1>4. OnRecord(ScheduledAnchor(command[d].order, command[d].schedule))
        => OnRecord(ScheduledAnchor(command[d].order, command[d].schedule))'
  BY <1>2
<1>5. OnRecord(ReleasedAnchor(command[d].order, command[d].schedule))
        => OnRecord(ReleasedAnchor(command[d].order, command[d].schedule))'
  BY <1>3
<1>6. QED
  BY <1>1, <1>4, <1>5 DEF CommandSound

(* What the entry at one position says of the commands.                    *)
AnchorSound(i) ==
  \A m \in Orders : \A s \in AllSchedules :
    /\ ledger[i] = ScheduledAnchor(m, s) =>
         \E c \in Commands : /\ command[c].pc = "ended" /\ command[c].verb = "create"
                             /\ command[c].order = m /\ command[c].schedule = s
    /\ ledger[i] = ReleasedAnchor(m, s) =>
         /\ Seen(s, i - 1)
         /\ \E c \in Commands : /\ command[c].pc = "ended" /\ command[c].verb = "release"
                                /\ command[c].order = m /\ command[c].schedule = s

(* A command that is over stays what it was, but for what it left in flight.*)
StaysOver(d) ==
  command[d].pc = "ended" =>
    /\ command'[d].pc = "ended" /\ command'[d].verb = command[d].verb
    /\ command'[d].order = command[d].order /\ command'[d].schedule = command[d].schedule

LEMMA AnchorsKeep ==
  ASSUME TypeOK, AnchorsSound, NEW i \in DOMAIN ledger, ledger'[i] = ledger[i],
         \A s : \A n \in 0..Len(ledger) : Seen(s, n) => Seen(s, n)',
         \A d \in Commands : StaysOver(d)
  PROVE  AnchorSound(i)'
<1> SUFFICES ASSUME NEW m \in Orders, NEW s \in AllSchedules
             PROVE  /\ ledger'[i] = ScheduledAnchor(m, s) =>
                         \E c \in Commands : /\ command'[c].pc = "ended" /\ command'[c].verb = "create"
                                             /\ command'[c].order = m /\ command'[c].schedule = s
                    /\ ledger'[i] = ReleasedAnchor(m, s) =>
                         /\ Seen(s, i - 1)'
                         /\ \E c \in Commands : /\ command'[c].pc = "ended" /\ command'[c].verb = "release"
                                                /\ command'[c].order = m /\ command'[c].schedule = s
  BY DEF AnchorSound, ScheduledAnchor, ReleasedAnchor, AllSchedules
<1>1. i - 1 \in 0..Len(ledger)
  BY DEF TypeOK
<1>2. Seen(s, i - 1) => Seen(s, i - 1)'
  BY <1>1
<1>3. /\ ScheduledAnchor(m, s)' = ScheduledAnchor(m, s)
      /\ ReleasedAnchor(m, s)' = ReleasedAnchor(m, s)
  BY DEF ScheduledAnchor, ReleasedAnchor
<1>4. /\ ledger[i] = ScheduledAnchor(m, s) =>
           \E c \in Commands : /\ command[c].pc = "ended" /\ command[c].verb = "create"
                               /\ command[c].order = m /\ command[c].schedule = s
      /\ ledger[i] = ReleasedAnchor(m, s) =>
           /\ Seen(s, i - 1)
           /\ \E c \in Commands : /\ command[c].pc = "ended" /\ command[c].verb = "release"
                                  /\ command[c].order = m /\ command[c].schedule = s
  BY DEF AnchorsSound
<1>5. QED
  BY <1>2, <1>3, <1>4 DEF StaysOver

LEMMA LedgerKeeps ==
  ASSUME TypeOK, LedgerSound, NEW e \in Entries, ledger' = Append(ledger, e),
         UNCHANGED lapsed, e.type = "transfer" => Pending(e.id)
  PROVE  LedgerSound'
<1>1. \A i \in DOMAIN ledger' : (ledger[i].type = "transfer" => Created(ledger[i].id))'
  <2> SUFFICES ASSUME NEW i \in DOMAIN ledger', ledger'[i].type = "transfer"
               PROVE  Created(ledger[i].id)'
    OBVIOUS
  <2>1. \E j \in DOMAIN ledger : ledger[j].type = "schedule" /\ ledger[j].id = ledger'[i].id
    <3>1. CASE i \in DOMAIN ledger
      BY <3>1, LedgerGrows DEF LedgerSound, Created
    <3>2. CASE i = Len(ledger) + 1
      BY <3>2, LedgerGrows DEF Pending, Created
    <3>3. QED
      BY <3>1, <3>2, LedgerGrows
  <2>2. QED
    BY <2>1, LedgerGrows DEF Created
<1>2. \A i \in DOMAIN ledger : ledger[i].type = "transfer" /\ e.type = "transfer" => ledger[i].id # e.id
  BY ExecutedIs DEF Pending
<1>3. \A i, j \in DOMAIN ledger' :
        ledger'[i].type = "transfer" /\ ledger'[j].type = "transfer" /\ ledger'[i].id = ledger'[j].id
          => i = j
  BY <1>2, LedgerGrows DEF LedgerSound
<1>4. \A s \in lapsed' : Created(s)' /\ ~ Executed(s)'
  BY FactsGrow DEF LedgerSound, Pending
<1>5. QED
  BY <1>1, <1>3, <1>4 DEF LedgerSound

(* A step that adds an entry to the ledger.                                *)
LEMMA AppendStep ==
  ASSUME IInv, NEW e \in Entries, ledger' = Append(ledger, e), UNCHANGED <<shown, lapsed>>,
         command' \in [Commands -> Call],
         e.type = "transfer" => Pending(e.id),
         \A d \in Commands : StaysOver(d),
         \A d \in Commands : command'[d] = command[d] \/ CommandSound(command[d])',
         AnchorSound(Len(ledger))'
  PROVE  IInv'
<1>1. TypeOK /\ LedgerSound /\ AnchorsSound /\ CommandsSound
  BY DEF IInv
<1>2. TypeOK'
  BY <1>1, LedgerGrows DEF TypeOK
<1>3. LedgerSound'
  BY <1>1, LedgerKeeps
<1>4. /\ \A s : \A n \in 0..Len(ledger) : Seen(s, n) => Seen(s, n)'
      /\ \A s : Seen(s, shown) => Seen(s, shown)'
  BY <1>1, SeenGrows
<1>5. \A i \in DOMAIN ledger : AnchorSound(i)'
  BY <1>1, <1>4, LedgerGrows, AnchorsKeep
<1>6. AnchorsSound'
  <2>1. ASSUME NEW i \in DOMAIN ledger' PROVE AnchorSound(i)'
    <3>1. CASE i \in DOMAIN ledger
      BY <1>5, <3>1
    <3>2. CASE i = Len(ledger')
      BY <3>2
    <3>3. QED
      BY <1>1, <3>1, <3>2, LedgerGrows
  <2>2. QED
    BY <2>1 DEF AnchorsSound, AnchorSound
<1>7. CommandsSound'
  BY <1>1, <1>4, FactsGrow, CommandsKeep
<1>8. QED
  BY <1>2, <1>3, <1>6, <1>7 DEF IInv

(* A step that leaves the ledger alone.                                    *)
LEMMA QuietStep ==
  ASSUME IInv, UNCHANGED ledger, Onward, lapsed' \subseteq Schedules,
         \A s \in lapsed' : Created(s) /\ ~ Executed(s),
         command' \in [Commands -> Call],
         \A d \in Commands : StaysOver(d),
         \A d \in Commands : command'[d] = command[d] \/ CommandSound(command[d])'
  PROVE  IInv'
<1>1. TypeOK /\ LedgerSound /\ AnchorsSound /\ CommandsSound
  BY DEF IInv
<1>2. /\ \A s : Created(s)' <=> Created(s)
      /\ \A s : Executed(s)' <=> Executed(s)
      /\ \A x : OnRecord(x)' <=> OnRecord(x)
      /\ \A s : \A n \in Nat : Seen(s, n) => Seen(s, n)'
      /\ \A s : Seen(s, shown) => Seen(s, shown)'
  BY <1>1, Quietly
<1>3. TypeOK'
  BY <1>1 DEF TypeOK, Onward
<1>4. LedgerSound'
  BY <1>1, <1>2 DEF LedgerSound
<1>5. Len(ledger) \in Nat
  BY <1>1 DEF TypeOK
<1>6. \A i \in DOMAIN ledger : AnchorSound(i)'
  BY <1>1, <1>2, <1>5, AnchorsKeep
<1>7. AnchorsSound'
  BY <1>6 DEF AnchorsSound, AnchorSound
<1>8. CommandsSound'
  BY <1>1, <1>2, CommandsKeep
<1>9. QED
  BY <1>3, <1>4, <1>7, <1>8 DEF IInv

LEMMA CallChanges ==
  ASSUME TypeOK, NEW c \in Commands, NEW call \in Call, Becomes(c, call)
  PROVE  /\ command' \in [Commands -> Call]
         /\ command'[c] = call
         /\ \A d \in Commands \ {c} : command'[d] = command[d]
BY DEF TypeOK, Becomes

LEMMA InitLedger ==
  ASSUME Init
  PROVE  /\ ledger \in Seq(Entries) /\ Len(ledger) = Len(Foreign) + 1 /\ Len(Foreign) \in Nat
         /\ \A i \in DOMAIN ledger : ledger[i].type \notin {"transfer", "message"}
<1> DEFINE others == [k \in DOMAIN Foreign |-> ScheduleCreated(Foreign[k].id, Foreign[k].creator)]
<1>1. DOMAIN Foreign = 1..Len(Foreign) /\ Len(Foreign) \in Nat
  BY SchedulesAssumption
<1>2. \A k \in DOMAIN Foreign : others[k] \in ScheduleEntries
  BY DEF ScheduleEntries
<1>3. others \in Seq(ScheduleEntries) /\ Len(others) = Len(Foreign)
  BY <1>1, <1>2
<1> HIDE DEF others
<1>4. ledger = <<TopicCreated(Topic)>> \o others
  BY DEF Init, others
<1>5. TopicCreated(Topic) \in Entries /\ ScheduleEntries \subseteq Entries
  BY DEF Entries
<1>6. others \in Seq(Entries) /\ <<TopicCreated(Topic)>> \in Seq(Entries)
  BY <1>3, <1>5
<1>7. /\ ledger \in Seq(Entries) /\ Len(ledger) = Len(Foreign) + 1
      /\ \A i \in DOMAIN ledger : ledger[i] = TopicCreated(Topic) \/ ledger[i] \in ScheduleEntries
  BY <1>1, <1>3, <1>4, <1>6
<1>8. \A i \in DOMAIN ledger : ledger[i].type \notin {"transfer", "message"}
  BY <1>7, TypeOfForm
<1>9. QED
  BY <1>1, <1>7, <1>8

LEMMA InitIInv == Init => IInv
<1> SUFFICES ASSUME Init PROVE IInv
  OBVIOUS
<1>1. /\ ledger \in Seq(Entries) /\ Len(ledger) = Len(Foreign) + 1 /\ Len(Foreign) \in Nat
      /\ \A i \in DOMAIN ledger : ledger[i].type \notin {"transfer", "message"}
  BY InitLedger
<1>2. \A c \in Commands : command[c] = Off
  BY DEF Init
<1>3. Off \in Call
  BY BoundsAssumption DEF Off, Call
<1>4. TypeOK
  BY <1>1, <1>3 DEF TypeOK, Init
<1>5. LedgerSound
  BY <1>1 DEF LedgerSound, Init
<1>6. AnchorsSound
  <2>1. \A m, s : ScheduledAnchor(m, s).type = "message" /\ ReleasedAnchor(m, s).type = "message"
    BY EntryTypes DEF ScheduledAnchor, ReleasedAnchor
  <2>2. \A i \in DOMAIN ledger : \A m, s :
          ledger[i] # ScheduledAnchor(m, s) /\ ledger[i] # ReleasedAnchor(m, s)
    BY <1>1, <2>1
  <2>3. QED
    BY <2>2 DEF AnchorsSound
<1>7. CommandsSound
  BY <1>2, NoneAssumption DEF CommandsSound, CommandSound, Off, Verbs
<1>8. QED
  BY <1>4, <1>5, <1>6, <1>7 DEF IInv

(* A step of a command, without and with an entry of the ledger.           *)
LEMMA QuietCommand ==
  ASSUME IInv, NEW c \in Commands, NEW call \in Call, Becomes(c, call),
         StaysOver(c), UNCHANGED <<ledger, lapsed>>, Onward,
         CommandSound(command[c])'
  PROVE  IInv'
<1>1. TypeOK /\ LedgerSound
  BY DEF IInv
<1>2. /\ command' \in [Commands -> Call]
      /\ \A d \in Commands \ {c} : command'[d] = command[d]
  BY <1>1, CallChanges
<1>3. \A d \in Commands :
        StaysOver(d) /\ (command'[d] = command[d] \/ CommandSound(command[d])')
  BY <1>2 DEF StaysOver
<1>4. \A s \in lapsed' : Created(s) /\ ~ Executed(s)
  BY <1>1 DEF LedgerSound
<1>5. lapsed' \subseteq Schedules
  BY <1>1 DEF TypeOK
<1>6. QED
  BY <1>2, <1>3, <1>4, <1>5, QuietStep

LEMMA AppendCommand ==
  ASSUME IInv, NEW c \in Commands, NEW call \in Call, Becomes(c, call),
         StaysOver(c), NEW e \in Entries, Agree(e),
         e.type = "transfer" => Pending(e.id),
         CommandSound(command[c])', AnchorSound(Len(ledger))'
  PROVE  IInv'
<1>1. TypeOK
  BY DEF IInv
<1>2. /\ command' \in [Commands -> Call]
      /\ \A d \in Commands \ {c} : command'[d] = command[d]
  BY <1>1, CallChanges
<1>3. \A d \in Commands :
        StaysOver(d) /\ (command'[d] = command[d] \/ CommandSound(command[d])')
  BY <1>2 DEF StaysOver
<1>4. QED
  BY <1>2, <1>3, AppendStep DEF Agree

(* An entry that is no anchor of the retainer.                             *)
LEMMA NoAnchor ==
  ASSUME TypeOK, NEW e \in Entries, Agree(e),
         e.type = "message" => e.anchor.kind \notin {"retainer_scheduled", "retainer_released"}
  PROVE  AnchorSound(Len(ledger))'
<1>1. ledger'[Len(ledger')] = e
  BY LedgerGrows DEF Agree
<1>2. \A m, s : /\ ScheduledAnchor(m, s).type = "message"
                /\ ScheduledAnchor(m, s).anchor.kind = "retainer_scheduled"
                /\ ReleasedAnchor(m, s).type = "message"
                /\ ReleasedAnchor(m, s).anchor.kind = "retainer_released"
  BY DEF ScheduledAnchor, ReleasedAnchor, Message, Anchor
<1>3. \A m, s : e # ScheduledAnchor(m, s) /\ e # ReleasedAnchor(m, s)
  BY <1>2
<1>4. QED
  BY <1>1, <1>3 DEF AnchorSound, ScheduledAnchor, ReleasedAnchor

LEMMA CallSound ==
  ASSUME IInv, NEW c \in Commands
  PROVE  command[c] \in Call /\ CommandSound(command[c])
BY DEF IInv, TypeOK, CommandsSound

LEMMA CallForms ==
  ASSUME NEW call \in Call
  PROVE  /\ \A p \in {"wait", "anchor"} : [call EXCEPT !.pc = p] \in Call
         /\ \A s \in AllSchedules : [call EXCEPT !.pc = "anchor", !.schedule = s] \in Call
         /\ \A code \in {0, 1} :
              [call EXCEPT !.pc = "ended", !.exit = code, !.polls = 0] \in Call
         /\ call.polls > 0 => [call EXCEPT !.polls = call.polls - 1] \in Call
         /\ [call EXCEPT !.late = "none"] \in Call
         /\ \A late \in Sending \cup {"none"} :
              [call EXCEPT !.pc = "ended", !.exit = 1, !.polls = 0, !.late = late] \in Call
<1>1. \A p \in {"wait", "anchor"} : [call EXCEPT !.pc = p] \in Call
  BY DEF Call
<1>2. \A s \in AllSchedules : [call EXCEPT !.pc = "anchor", !.schedule = s] \in Call
  BY DEF Call
<1>3. 0 \in 0..MaxPolls
  BY BoundsAssumption
<1>4. \A code \in {0, 1} : [call EXCEPT !.pc = "ended", !.exit = code, !.polls = 0] \in Call
  BY <1>3 DEF Call
<1>5. call.polls > 0 => call.polls - 1 \in 0..MaxPolls
  BY BoundsAssumption DEF Call
<1>6. call.polls > 0 => [call EXCEPT !.polls = call.polls - 1] \in Call
  BY <1>5 DEF Call
<1>7. [call EXCEPT !.late = "none"] \in Call
  BY DEF Call
<1>8. \A late \in Sending \cup {"none"} :
        [call EXCEPT !.pc = "ended", !.exit = 1, !.polls = 0, !.late = late] \in Call
  BY <1>3 DEF Call
<1>9. QED
  BY <1>1, <1>2, <1>4, <1>6, <1>7, <1>8

LEMMA LooksOnward ==
  ASSUME IInv
  PROVE  /\ UNCHANGED <<ledger, shown>> => Onward
         /\ \A n : Look(n) => Onward /\ UNCHANGED <<ledger, lapsed>>
BY DEF IInv, TypeOK, Onward, Look

(* How a command is changed.                                               *)
LEMMA CallEnds ==
  ASSUME IInv, NEW c \in Commands, NEW code \in {0, 1}, End(c, code)
  PROVE  /\ \E call \in Call : Becomes(c, call)
         /\ command'[c].pc = "ended" /\ command'[c].exit = code
         /\ command'[c].verb = command[c].verb /\ command'[c].order = command[c].order
         /\ command'[c].schedule = command[c].schedule /\ command'[c].late = command[c].late
<1> DEFINE call == [command[c] EXCEPT !.pc = "ended", !.exit = code, !.polls = 0]
<1>1. command[c] \in Call
  BY CallSound
<1>2. call \in Call
  BY <1>1, CallForms
<1>3. Becomes(c, call)
  BY DEF End
<1>4. /\ call.pc = "ended" /\ call.exit = code /\ call.verb = command[c].verb
      /\ call.order = command[c].order /\ call.schedule = command[c].schedule
      /\ call.late = command[c].late
  BY <1>1 DEF Call
<1> HIDE DEF call
<1>5. command'[c] = call
  BY <1>2, <1>3, CallChanges DEF IInv
<1>6. QED
  BY <1>2, <1>3, <1>4, <1>5

LEMMA CallGoes ==
  ASSUME IInv, NEW c \in Commands, NEW p \in {"wait", "anchor"}, Goto(c, p)
  PROVE  /\ \E call \in Call : Becomes(c, call)
         /\ command'[c].pc = p
         /\ command'[c].verb = command[c].verb /\ command'[c].order = command[c].order
         /\ command'[c].schedule = command[c].schedule /\ command'[c].late = command[c].late
<1> DEFINE call == [command[c] EXCEPT !.pc = p]
<1>1. command[c] \in Call
  BY CallSound
<1>2. call \in Call
  BY <1>1, CallForms
<1>3. Becomes(c, call)
  BY DEF Goto
<1>4. /\ call.pc = p /\ call.verb = command[c].verb
      /\ call.order = command[c].order /\ call.schedule = command[c].schedule
      /\ call.late = command[c].late
  BY <1>1 DEF Call
<1> HIDE DEF call
<1>5. command'[c] = call
  BY <1>2, <1>3, CallChanges DEF IInv
<1>6. QED
  BY <1>2, <1>3, <1>4, <1>5

(* What a command had left in flight has arrived, or never will.           *)
LEMMA CallSettles ==
  ASSUME IInv, NEW c \in Commands, Settle(c)
  PROVE  /\ \E call \in Call : Becomes(c, call)
         /\ command'[c].pc = command[c].pc /\ command'[c].exit = command[c].exit
         /\ command'[c].verb = command[c].verb /\ command'[c].order = command[c].order
         /\ command'[c].schedule = command[c].schedule /\ command'[c].late = "none"
<1> DEFINE call == [command[c] EXCEPT !.late = "none"]
<1>1. command[c] \in Call
  BY CallSound
<1>2. call \in Call
  BY <1>1, CallForms
<1>3. Becomes(c, call)
  BY DEF Settle
<1>4. /\ call.pc = command[c].pc /\ call.exit = command[c].exit /\ call.verb = command[c].verb
      /\ call.order = command[c].order /\ call.schedule = command[c].schedule
      /\ call.late = "none"
  BY <1>1 DEF Call
<1> HIDE DEF call
<1>5. command'[c] = call
  BY <1>2, <1>3, CallChanges DEF IInv
<1>6. QED
  BY <1>2, <1>3, <1>4, <1>5

LEMMA SettlesSound ==
  ASSUME IInv, NEW c \in Commands, command[c].late # "none", Settle(c)
  PROVE  /\ CommandSound(command[c])' /\ StaysOver(c)
         /\ \E call \in Call : Becomes(c, call)
<1>1. CommandSound(command[c])
  BY CallSound
<1>2. command[c].pc = "ended" /\ command[c].exit = 1
  BY <1>1 DEF CommandSound
<1>3. QED
  BY <1>1, <1>2, CallSettles DEF CommandSound, StaysOver, Verbs

(* Nothing of a command is in flight while it runs.                        *)
LEMMA NothingLate ==
  ASSUME IInv, NEW c \in Commands, command[c].pc # "ended"
  PROVE  command[c].late = "none"
BY CallSound DEF CommandSound

(* A command gives up.                                                     *)
LEMMA GivesUp ==
  ASSUME IInv, NEW c \in Commands, Running(c), End(c, 1), UNCHANGED <<ledger, lapsed>>, Onward
  PROVE  IInv'
<1>1. command[c].pc # "ended" /\ command[c].late = "none"
  BY NothingLate DEF Running
<1>2. PICK call \in Call : Becomes(c, call)
  BY CallEnds
<1>3. CommandSound(command[c])
  BY CallSound
<1>4. CommandSound(command[c])'
  BY <1>1, <1>3, CallEnds DEF CommandSound, Verbs
<1>5. QED
  BY <1>1, <1>2, <1>4, QuietCommand DEF StaysOver

(* What a reader is told of a schedule.                                    *)
LEMMA ScheduleRead ==
  ASSUME TypeOK, NEW n \in 1..Len(ledger), NEW s, NEW u \in ReadSchedule(ledger, n, s)
  PROVE  /\ u.id = s /\ ~ u.deleted
         /\ \E i \in 1..n : ledger[i].type = "schedule" /\ ledger[i].id = s
                            /\ u.creator = ledger[i].creator
         /\ \/ u.executed = 0 /\ RecordsOf(ledger, n, s) = {}
            \/ u.executed # 0 /\ u.executed \in RecordsOf(ledger, n, s)
<1> DEFINE executions == {i \in RecordsOf(ledger, n, s) : ledger[i].scheduled}
           deleted == \E i \in 1..n : ledger[i].type = "deletion" /\ ledger[i].id = s
           executed == IF executions = {} THEN 0 ELSE CHOOSE j \in executions : TRUE
<1>1. PICK i \in 1..n : /\ ledger[i].type = "schedule" /\ ledger[i].id = s
                        /\ u = [id |-> s, creator |-> ledger[i].creator, deleted |-> deleted,
                                executed |-> executed]
  BY DEF ReadSchedule
<1>2. \A k \in 1..n : k \in DOMAIN ledger /\ ledger[k] \in Entries
  BY DEF TypeOK
<1>3. ~ deleted
  BY <1>2, NoDeletion
<1>4. executions = RecordsOf(ledger, n, s)
  BY <1>2, TransferEntry DEF RecordsOf
<1>5. executions # {} => executed \in executions
  OBVIOUS
<1>6. RecordsOf(ledger, n, s) \subseteq 1..n
  BY DEF RecordsOf
<1>7. executions # {} => executed # 0
  BY <1>4, <1>5, <1>6
<1>8. executions = {} => executed = 0
  OBVIOUS
<1> HIDE DEF executions, deleted, executed
<1>9. QED
  BY <1>1, <1>3, <1>4, <1>5, <1>7, <1>8

(* A credit that a command saw is a transfer the mirror node has shown.    *)
LEMMA CreditsSeen ==
  ASSUME TypeOK, NEW n \in 1..Len(ledger), NEW s, Credits(RetainerStatus(n, s))
  PROVE  /\ Terms(s).payee = Agency
         /\ \E i \in 1..n : ledger[i].type = "transfer" /\ ledger[i].id = s
<1>1. PICK u \in ReadSchedule(ledger, n, s) :
        /\ u.executed # 0
        /\ \E t \in ReadTransactionAtTimestamp(ledger, n, u.executed) : t.transfer.payee = Agency
  BY DEF Credits, RetainerStatus
<1>2. u.executed \in RecordsOf(ledger, n, s)
  BY <1>1, ScheduleRead
<1>3. ledger[u.executed].payee = Agency
  BY <1>1 DEF ReadTransactionAtTimestamp, At
<1>4. u.executed \in 1..n /\ ledger[u.executed].type = "transfer" /\ ledger[u.executed].id = s
  BY <1>2 DEF RecordsOf
<1>5. ledger[u.executed] \in Entries
  BY <1>4 DEF TypeOK
<1>6. QED
  BY <1>3, <1>4, <1>5, TransferEntry

-----------------------------------------------------------------------------
(* The actions.                                                            *)

LEMMA DeliverKeeps ==
  ASSUME IInv, NEW m \in Orders, Deliver(m)
  PROVE  IInv'
<1> DEFINE e == Message(Topic, Anchor("delivered", m, m))
<1>1. e \in Entries
  BY DEF Entries, Deliveries
<1>2. e.type = "message" /\ e.anchor.kind = "delivered"
  BY DEF Message, Anchor
<1>3. Agree(e) /\ UNCHANGED command
  BY DEF Deliver
<1> HIDE DEF e
<1>4. TypeOK
  BY DEF IInv
<1>5. AnchorSound(Len(ledger))'
  BY <1>1, <1>2, <1>3, <1>4, NoAnchor
<1>6. command' \in [Commands -> Call]
  BY <1>3, <1>4 DEF TypeOK
<1>7. QED
  BY <1>1, <1>2, <1>3, <1>5, <1>6, AppendStep DEF Agree, StaysOver

LEMMA LapseKeeps ==
  ASSUME IInv, NEW s \in Schedules, Lapse(s)
  PROVE  IInv'
<1>1. TypeOK /\ LedgerSound
  BY DEF IInv
<1>2. Onward
  BY LooksOnward DEF Lapse
<1>3. lapsed' \subseteq Schedules /\ \A t \in lapsed' : Created(t) /\ ~ Executed(t)
  BY <1>1 DEF TypeOK, LedgerSound, Lapse, Pending
<1>4. command' \in [Commands -> Call]
  BY <1>1 DEF TypeOK, Lapse
<1>5. QED
  BY <1>2, <1>3, <1>4, QuietStep DEF Lapse, StaysOver

LEMMA StartKeeps ==
  ASSUME IInv, NEW c \in Commands, NEW verb \in Verbs, NEW m \in Orders \cup {None},
         NEW s \in AllSchedules \cup {None}, Start(c, verb, m, s),
         verb \in {"create", "release"} => m \in Orders,
         verb = "release" => s \in AllSchedules,
         verb = "status" => m = None
  PROVE  IInv'
<1> DEFINE call == [pc |-> verb, verb |-> verb, order |-> m, schedule |-> s,
                    polls |-> MaxPolls, exit |-> 0, late |-> "none"]
<1>1. MaxPolls \in 0..MaxPolls
  BY BoundsAssumption
<1>2. call \in Call
  BY <1>1 DEF Call
<1>3. Becomes(c, call) /\ UNCHANGED <<ledger, shown, lapsed>> /\ command[c].pc = "off"
  BY DEF Start, Becomes
<1>4. /\ call.pc = verb /\ call.verb = verb /\ call.order = m /\ call.schedule = s
      /\ call.late = "none"
  OBVIOUS
<1> HIDE DEF call
<1>5. TypeOK
  BY DEF IInv
<1>6. command'[c] = call
  BY <1>2, <1>3, <1>5, CallChanges
<1>7. CommandSound(command[c])'
  BY <1>4, <1>6 DEF CommandSound, Verbs
<1>8. Onward
  BY <1>3, LooksOnward
<1>9. QED
  BY <1>2, <1>3, <1>7, <1>8, QuietCommand DEF StaysOver

LEMMA InvocationKeeps ==
  ASSUME IInv, NEW c \in Commands,
         \/ \E m \in Orders : Create(c, m) \/ \E s \in AllSchedules : Release(c, m, s)
         \/ \E s \in AllSchedules : Status(c, s)
  PROVE  IInv'
<1>1. ASSUME NEW m \in Orders, Create(c, m) PROVE IInv'
  BY <1>1, StartKeeps DEF Create, Verbs
<1>2. ASSUME NEW m \in Orders, NEW s \in AllSchedules, Release(c, m, s) PROVE IInv'
  BY <1>2, StartKeeps DEF Release, Verbs
<1>3. ASSUME NEW s \in AllSchedules, Status(c, s) PROVE IInv'
  BY <1>3, StartKeeps DEF Status, Verbs
<1>4. QED
  BY <1>1, <1>2, <1>3

LEMMA RefusedKeeps ==
  ASSUME IInv, NEW c \in Commands, Refused(c)
  PROVE  IInv'
<1>1. Running(c) /\ End(c, 1) /\ UNCHANGED <<ledger, shown, lapsed>>
  BY DEF Refused, Running
<1>2. QED
  BY <1>1, LooksOnward, GivesUp

(* A command is gone; what it had sent stays on its way.                   *)
LEMMA ThrowForm ==
  ASSUME IInv, NEW c \in Commands, Throw(c)
  PROVE  /\ \E call \in Call : Becomes(c, call)
         /\ command'[c].pc = "ended" /\ command'[c].exit = 1
         /\ command'[c].verb = command[c].verb /\ command'[c].order = command[c].order
         /\ command'[c].schedule = command[c].schedule
         /\ command'[c].late # "none" => command'[c].late = command[c].pc
<1> DEFINE late == IF command[c].pc \in Sending THEN command[c].pc ELSE "none"
           call == [command[c] EXCEPT !.pc = "ended", !.exit = 1, !.polls = 0, !.late = late]
<1>1. command[c] \in Call
  BY CallSound
<1>2. late \in Sending \cup {"none"} /\ (late # "none" => late = command[c].pc)
  OBVIOUS
<1>3. Becomes(c, call)
  BY DEF Throw
<1> HIDE DEF late
<1>4. call \in Call
  BY <1>1, <1>2, CallForms
<1>5. /\ call.pc = "ended" /\ call.exit = 1 /\ call.verb = command[c].verb
      /\ call.order = command[c].order /\ call.schedule = command[c].schedule
      /\ call.late = late
  BY <1>1 DEF Call
<1> HIDE DEF call
<1>6. command'[c] = call
  BY <1>3, <1>4, CallChanges DEF IInv
<1>7. QED
  BY <1>2, <1>3, <1>4, <1>5, <1>6

LEMMA ThrowKeeps ==
  ASSUME IInv, NEW c \in Commands, Throw(c)
  PROVE  IInv'
<1>1. command[c].pc # "ended" /\ UNCHANGED <<ledger, shown, lapsed>> /\ Onward
  BY LooksOnward DEF Throw, Running
<1>2. CommandSound(command[c]) /\ TypeOK
  BY CallSound DEF IInv
<1>3. /\ \A s : Created(s)' <=> Created(s)
      /\ \A s : Seen(s, shown) => Seen(s, shown)'
  BY <1>1, <1>2, Quietly
<1>4. CommandSound(command[c])'
  BY <1>2, <1>3, ThrowForm DEF CommandSound, Verbs
<1>5. QED
  BY <1>1, <1>4, ThrowForm, QuietCommand DEF StaysOver

LEMMA ExpireKeeps ==
  ASSUME IInv, NEW c \in Commands, Expire(c)
  PROVE  IInv'
<1>1. command[c].late # "none" /\ Settle(c) /\ UNCHANGED <<ledger, shown, lapsed>> /\ Onward
  BY LooksOnward DEF Expire
<1>2. QED
  BY <1>1, SettlesSound, QuietCommand

(* The entries that are no anchors, whoever still waits for them.          *)
LEMMA AuthorisedEntry ==
  ASSUME IInv, NEW s \in Schedules, Authorise(s)
  PROVE  /\ \E e \in Entries : Agree(e) /\ e.type = "schedule" /\ e.id = s
         /\ AnchorSound(Len(ledger))' /\ Created(s)' /\ ~ Created(s)
<1> DEFINE e == ScheduleCreated(s, Customer)
<1>1. e \in Entries
  BY DEF Entries, ScheduleEntries
<1>2. e.type = "schedule" /\ e.id = s
  BY EntryTypes
<1>3. Agree(e) /\ (\A t \in Schedules : Created(t) <=> t < s)
  BY DEF Authorise
<1> HIDE DEF e
<1>4. TypeOK
  BY DEF IInv
<1>5. AnchorSound(Len(ledger))'
  BY <1>1, <1>2, <1>3, <1>4, NoAnchor
<1>6. Created(s)'
  BY <1>1, <1>2, <1>3, <1>4, FactsGrow DEF Agree
<1>7. ~ s < s
  BY SchedulesAssumption
<1>8. QED
  BY <1>1, <1>2, <1>3, <1>5, <1>6, <1>7

LEMMA SignedEntry ==
  ASSUME IInv, NEW s \in AllSchedules, Sign(s)
  PROVE  /\ \E e \in Entries : Agree(e) /\ e.type = "transfer" /\ e.id = s /\ Pending(e.id)
         /\ AnchorSound(Len(ledger))'
<1> DEFINE e == ScheduleExecuted(s, Terms(s).creator, Terms(s).payee)
<1>1. e \in Entries
  BY DEF Entries, Executions
<1>2. e.type = "transfer" /\ e.id = s
  BY EntryTypes
<1>3. Agree(e) /\ Pending(s)
  BY DEF Sign
<1> HIDE DEF e
<1>4. AnchorSound(Len(ledger))'
  BY <1>1, <1>2, <1>3, NoAnchor DEF IInv
<1>5. QED
  BY <1>1, <1>2, <1>3, <1>4

LEMMA ScheduleRetainerForm ==
  ASSUME IInv, NEW c \in Commands, NEW s \in Schedules, command[c].pc = "create",
         Becomes(c, [command[c] EXCEPT !.pc = "anchor", !.schedule = s])
  PROVE  /\ \E call \in Call : Becomes(c, call)
         /\ command'[c].pc = "anchor" /\ command'[c].schedule = s /\ command'[c].late = "none"
         /\ command'[c].verb = "create" /\ command'[c].order \in Orders
<1> DEFINE call == [command[c] EXCEPT !.pc = "anchor", !.schedule = s]
<1>1. s \in AllSchedules
  BY DEF AllSchedules
<1>2. command[c] \in Call /\ CommandSound(command[c]) /\ command[c].late = "none"
  BY CallSound, NothingLate
<1>3. call \in Call
  BY <1>1, <1>2, CallForms
<1>4. /\ call.pc = "anchor" /\ call.verb = command[c].verb /\ call.late = "none"
      /\ call.order = command[c].order /\ call.schedule = s
  BY <1>2 DEF Call
<1>5. Becomes(c, call)
  OBVIOUS
<1> HIDE DEF call
<1>6. command'[c] = call
  BY <1>3, <1>5, CallChanges DEF IInv
<1>7. call.verb = "create" /\ call.order \in Orders
  BY <1>2, <1>4 DEF CommandSound, Verbs
<1>8. QED
  BY <1>3, <1>4, <1>5, <1>6, <1>7

LEMMA ScheduleRetainerKeeps ==
  ASSUME IInv, NEW c \in Commands, ScheduleRetainer(c)
  PROVE  IInv'
<1>1. command[c].pc = "create"
  BY DEF ScheduleRetainer
<1>2. PICK s \in Schedules :
        Authorise(s) /\ Becomes(c, [command[c] EXCEPT !.pc = "anchor", !.schedule = s])
  BY DEF ScheduleRetainer
<1>3. PICK e \in Entries : Agree(e) /\ e.type = "schedule" /\ e.id = s
  BY <1>2, AuthorisedEntry
<1>4. AnchorSound(Len(ledger))' /\ Created(s)'
  BY <1>2, AuthorisedEntry
<1>5. /\ \E call \in Call : Becomes(c, call)
      /\ command'[c].pc = "anchor" /\ command'[c].schedule = s /\ command'[c].late = "none"
      /\ command'[c].verb = "create" /\ command'[c].order \in Orders
  BY <1>1, <1>2, ScheduleRetainerForm
<1>6. CommandSound(command[c])'
  <2>1. Created(command[c].schedule)'
    BY <1>4, <1>5
  <2>2. QED
    BY <1>5, <2>1 DEF CommandSound, Verbs
<1>7. QED
  BY <1>1, <1>3, <1>4, <1>5, <1>6, AppendCommand DEF StaysOver

LEMMA LandCreationKeeps ==
  ASSUME IInv, NEW c \in Commands, LandCreation(c)
  PROVE  IInv'
<1>1. PICK s \in Schedules : Authorise(s)
  BY DEF LandCreation
<1>2. PICK e \in Entries : Agree(e) /\ e.type = "schedule"
  BY <1>1, AuthorisedEntry
<1>3. command[c].late # "none" /\ Settle(c)
  BY DEF LandCreation
<1>4. QED
  BY <1>1, <1>2, <1>3, AuthorisedEntry, SettlesSound, AppendCommand

LEMMA ReleaseRetainerKeeps ==
  ASSUME IInv, NEW c \in Commands, ReleaseRetainer(c)
  PROVE  IInv'
<1>1. command[c].pc = "release" /\ Sign(command[c].schedule) /\ Goto(c, "wait")
  BY DEF ReleaseRetainer
<1>2. CommandSound(command[c]) /\ command[c].late = "none"
  BY <1>1, CallSound, NothingLate
<1>3. /\ command[c].verb = "release" /\ command[c].order \in Orders
      /\ command[c].schedule \in AllSchedules
  BY <1>1, <1>2 DEF CommandSound, Verbs
<1>4. PICK e \in Entries : Agree(e) /\ e.type = "transfer" /\ Pending(e.id)
  BY <1>1, <1>3, SignedEntry
<1>5. CommandSound(command[c])' /\ \E call \in Call : Becomes(c, call)
  BY <1>1, <1>2, <1>3, CallGoes DEF CommandSound, Verbs
<1>6. QED
  BY <1>1, <1>3, <1>4, <1>5, SignedEntry, AppendCommand DEF StaysOver

LEMMA LandSignatureKeeps ==
  ASSUME IInv, NEW c \in Commands, LandSignature(c)
  PROVE  IInv'
<1>1. command[c].late = "release" /\ Sign(command[c].schedule) /\ Settle(c)
  BY DEF LandSignature
<1>2. command[c].schedule \in AllSchedules
  BY <1>1, CallSound DEF CommandSound, Verbs
<1>3. PICK e \in Entries : Agree(e) /\ e.type = "transfer" /\ Pending(e.id)
  BY <1>1, <1>2, SignedEntry
<1>4. QED
  BY <1>1, <1>2, <1>3, SignedEntry, SettlesSound, AppendCommand

LEMMA WaitForExecutionKeeps ==
  ASSUME IInv, NEW c \in Commands, NEW n \in DOMAIN ledger, WaitForExecution(c, n)
  PROVE  IInv'
<1> DEFINE s == command[c].schedule
           status == RetainerStatus(n, s)
<1>1. /\ command[c].pc = "wait" /\ Look(n)
      /\ \/ status.transfer # {} /\ Credits(status) /\ Goto(c, "anchor")
         \/ status.transfer # {} /\ ~ Credits(status) /\ End(c, 1)
         \/ status.transfer = {} /\ command[c].polls > 0 /\ PollAgain(c)
         \/ status.transfer = {} /\ command[c].polls = 0 /\ End(c, 1)
  BY DEF WaitForExecution
<1>2. command[c] \in Call /\ CommandSound(command[c]) /\ command[c].late = "none"
  BY <1>1, CallSound, NothingLate
<1>3. command[c].verb = "release" /\ s \in AllSchedules /\ command[c].order \in Orders
  BY <1>1, <1>2 DEF CommandSound, Verbs
<1>4. Onward /\ UNCHANGED <<ledger, lapsed>>
  BY <1>1, LooksOnward
<1>5. TypeOK
  BY DEF IInv
<1>6. n \in 1..Len(ledger) /\ shown' = n
  BY <1>1, <1>5 DEF TypeOK, Look
<1>7. CASE Credits(status) /\ Goto(c, "anchor")
  <2>1. /\ Terms(s).payee = Agency
        /\ \E i \in 1..n : ledger[i].type = "transfer" /\ ledger[i].id = s
    BY <1>5, <1>6, <1>7, CreditsSeen
  <2>2. /\ command'[c].pc = "anchor" /\ command'[c].verb = "release"
        /\ command'[c].order = command[c].order /\ command'[c].schedule = s
        /\ command'[c].late = "none" /\ \E call \in Call : Becomes(c, call)
    BY <1>2, <1>3, <1>7, CallGoes
  <2>3. Seen(command[c].schedule, shown)'
    BY <1>4, <1>6, <2>1, <2>2 DEF Seen, Terms
  <2>4. CommandSound(command[c])'
    BY <1>3, <2>2, <2>3 DEF CommandSound, Verbs
  <2>5. QED
    BY <1>1, <1>4, <2>2, <2>4, QuietCommand DEF StaysOver
<1>8. CASE End(c, 1)
  BY <1>1, <1>4, <1>8, GivesUp DEF Running
<1>9. CASE command[c].polls > 0 /\ PollAgain(c)
  <2> DEFINE call == [command[c] EXCEPT !.polls = command[c].polls - 1]
  <2>1. call \in Call
    BY <1>2, <1>9, CallForms
  <2>2. /\ call.pc = command[c].pc /\ call.verb = command[c].verb
        /\ call.order = command[c].order /\ call.schedule = s /\ call.late = "none"
    BY <1>2 DEF Call
  <2>3. Becomes(c, call)
    BY <1>9 DEF PollAgain
  <2> HIDE DEF call
  <2>4. command'[c] = call
    BY <1>5, <2>1, <2>3, CallChanges
  <2>5. CommandSound(command[c])'
    BY <1>1, <1>3, <2>2, <2>4 DEF CommandSound, Verbs
  <2>6. QED
    BY <1>1, <1>4, <2>1, <2>3, <2>5, QuietCommand DEF StaysOver
<1>10. QED
  BY <1>1, <1>7, <1>8, <1>9

LEMMA RunStatusKeeps ==
  ASSUME IInv, NEW c \in Commands, NEW n \in DOMAIN ledger, RunStatus(c, n)
  PROVE  IInv'
<1>1. PICK code \in {0, 1} : End(c, code)
  BY DEF RunStatus
<1>2. command[c].pc = "status" /\ Look(n)
  BY DEF RunStatus
<1>3. CommandSound(command[c]) /\ command[c].late = "none"
  BY <1>2, CallSound, NothingLate
<1>4. command[c].verb = "status" /\ command[c].order = None
  BY <1>2, <1>3 DEF CommandSound, Verbs
<1>5. /\ command'[c].pc = "ended" /\ command'[c].verb = "status" /\ command'[c].order = None
      /\ command'[c].late = "none" /\ \E call \in Call : Becomes(c, call)
  BY <1>1, <1>3, <1>4, CallEnds
<1>6. CommandSound(command[c])'
  BY <1>5 DEF CommandSound, Verbs
<1>7. QED
  BY <1>2, <1>5, <1>6, LooksOnward, QuietCommand DEF StaysOver

(* An anchor reaches the topic, whether its command waits for it or is gone.*)
AnchorLands(c) ==
  /\ command[c].pc = "anchor" \/ command[c].late = "anchor"
  /\ Agree(Message(Topic, RetainerAnchor(c)))
  /\ \E call \in Call : Becomes(c, call)
  /\ command'[c].pc = "ended" /\ command'[c].late = "none"
  /\ command'[c].verb = command[c].verb /\ command'[c].order = command[c].order
  /\ command'[c].schedule = command[c].schedule

LEMMA AnchorLandsIs ==
  ASSUME IInv, NEW c \in Commands, SubmitAnchor(c) \/ LandAnchor(c)
  PROVE  AnchorLands(c)
<1>1. CASE SubmitAnchor(c)
  <2>1. command[c].late = "none"
    BY <1>1, NothingLate DEF SubmitAnchor
  <2>2. QED
    BY <1>1, <2>1, CallEnds DEF SubmitAnchor, AnchorLands
<1>2. CASE LandAnchor(c)
  <2>1. command[c].pc = "ended"
    BY <1>2, CallSound DEF LandAnchor, CommandSound
  <2>2. QED
    BY <1>2, <2>1, CallSettles DEF LandAnchor, AnchorLands
<1>3. QED
  BY <1>1, <1>2

LEMMA AnchorLandsKeeps ==
  ASSUME IInv, NEW c \in Commands, AnchorLands(c)
  PROVE  IInv'
<1>1. /\ command[c].pc = "anchor" \/ command[c].late = "anchor"
      /\ Agree(Message(Topic, RetainerAnchor(c)))
  BY DEF AnchorLands
<1>3. command[c] \in Call /\ CommandSound(command[c]) /\ TypeOK
  BY CallSound DEF IInv
<1>4. PICK m, s : m = command[c].order /\ s = command[c].schedule
  OBVIOUS
<1>5. \/ command[c].verb = "create" /\ s \in Schedules /\ Created(s)
      \/ command[c].verb = "release" /\ s \in AllSchedules /\ Seen(s, shown)
  BY <1>1, <1>3, <1>4 DEF CommandSound
<1>6. m \in Orders /\ s \in AllSchedules
  BY <1>3, <1>4, <1>5 DEF CommandSound, AllSchedules
<1>7. PICK e : e = Message(Topic, RetainerAnchor(c))
  OBVIOUS
<1>8. /\ command[c].verb = "create" => e = ScheduledAnchor(m, s)
      /\ command[c].verb = "release" => e = ReleasedAnchor(m, s)
  BY <1>4, <1>7 DEF RetainerAnchor, ScheduledAnchor, ReleasedAnchor
<1>9. e \in Entries
  BY <1>5, <1>6, <1>8 DEF Entries, AnchorsOf
<1>10. e.type = "message" /\ Agree(e)
  BY <1>1, <1>7, EntryTypes
<1>11. /\ command'[c].pc = "ended" /\ command'[c].late = "none"
       /\ command'[c].verb = command[c].verb /\ command'[c].order = m
       /\ command'[c].schedule = s
       /\ \E call \in Call : Becomes(c, call)
  BY <1>4 DEF AnchorLands
<1>12. /\ OnRecord(e)' /\ ledger'[Len(ledger')] = e
       /\ Len(ledger') = Len(ledger) + 1 /\ Len(ledger) \in Nat
       /\ Created(s) => Created(s)'
  BY <1>3, <1>9, <1>10, FactsGrow, LedgerGrows DEF Agree
<1>13. CommandSound(command[c])'
  <2>1. command[c].verb = "create" => Created(command[c].schedule)'
    BY <1>5, <1>11, <1>12
  <2>2. command[c].verb = "create" => ScheduledAnchor(command[c].order, command[c].schedule)' = e
    BY <1>8, <1>11 DEF ScheduledAnchor
  <2>3. command[c].verb = "release" => ReleasedAnchor(command[c].order, command[c].schedule)' = e
    BY <1>8, <1>11 DEF ReleasedAnchor
  <2>4. command[c].verb = "create" =>
          OnRecord(ScheduledAnchor(command[c].order, command[c].schedule))'
    BY <1>12, <2>2 DEF OnRecord
  <2>5. command[c].verb = "release" =>
          OnRecord(ReleasedAnchor(command[c].order, command[c].schedule))'
    BY <1>12, <2>3 DEF OnRecord
  <2>6. QED
    BY <1>5, <1>6, <1>11, <2>1, <2>4, <2>5 DEF CommandSound, Verbs, AllSchedules
<1>14. ASSUME NEW o \in Orders, NEW t \in AllSchedules
       PROVE  /\ e = ScheduledAnchor(o, t) => command[c].verb = "create" /\ o = m /\ t = s
              /\ e = ReleasedAnchor(o, t) => command[c].verb = "release" /\ o = m /\ t = s
  BY <1>5, <1>8 DEF ScheduledAnchor, ReleasedAnchor, Message, Anchor
<1>15. command[c].verb = "release" => \A k : k = Len(ledger') - 1 => Seen(s, k)'
  <2>1. shown \in 1..Len(ledger) /\ shown' = shown
    BY <1>3, <1>10 DEF TypeOK, Agree
  <2>2. \A i \in 1..Len(ledger) : ledger'[i] = ledger[i]
    BY <1>3, <1>9, <1>10, LedgerGrows DEF Agree
  <2>3. command[c].verb = "release" => Seen(s, shown)
    BY <1>5
  <2>4. command[c].verb = "release" => \A k : k = Len(ledger) => Seen(s, k)'
    BY <1>12, <2>1, <2>2, <2>3 DEF Seen, Terms
  <2>5. QED
    BY <1>12, <2>4
<1>16. AnchorSound(Len(ledger))'
  <2>1. ASSUME NEW k, k = Len(ledger') PROVE AnchorSound(k)'
    BY <1>11, <1>12, <1>14, <1>15, <2>1
       DEF AnchorSound, ScheduledAnchor, ReleasedAnchor, AllSchedules
  <2>2. QED
    BY <2>1
<1>17. QED
  BY <1>4, <1>9, <1>10, <1>11, <1>13, <1>16, AppendCommand DEF StaysOver

LEMMA StepIInv ==
  ASSUME IInv, [Next]_vars
  PROVE  IInv'
<1>1. ASSUME UNCHANGED vars PROVE IInv'
  <2>1. UNCHANGED <<ledger, shown, lapsed, command>>
    BY <1>1 DEF vars
  <2>2. TypeOK /\ LedgerSound
    BY DEF IInv
  <2>3. Onward
    BY <2>1, LooksOnward
  <2>4. /\ lapsed' \subseteq Schedules /\ command' \in [Commands -> Call]
        /\ \A s \in lapsed' : Created(s) /\ ~ Executed(s)
    BY <2>1, <2>2 DEF TypeOK, LedgerSound
  <2>5. \A d \in Commands : StaysOver(d) /\ command'[d] = command[d]
    BY <2>1 DEF StaysOver
  <2>6. QED
    BY <2>1, <2>3, <2>4, <2>5, QuietStep
<1>2. ASSUME NEW m \in Orders, Deliver(m) PROVE IInv'
  BY <1>2, DeliverKeeps
<1>3. ASSUME NEW s \in Schedules, Lapse(s) PROVE IInv'
  BY <1>3, LapseKeeps
<1>4. ASSUME NEW c \in Commands, Proceed(c) PROVE IInv'
  <2>1. CASE ScheduleRetainer(c)
    BY <2>1, ScheduleRetainerKeeps
  <2>2. CASE ReleaseRetainer(c)
    BY <2>2, ReleaseRetainerKeeps
  <2>3. CASE Refused(c)
    BY <2>3, RefusedKeeps
  <2>4. CASE SubmitAnchor(c)
    BY <2>4, AnchorLandsIs, AnchorLandsKeeps
  <2>5. ASSUME NEW n \in DOMAIN ledger, WaitForExecution(c, n) PROVE IInv'
    BY <2>5, WaitForExecutionKeeps
  <2>6. ASSUME NEW n \in DOMAIN ledger, RunStatus(c, n) PROVE IInv'
    BY <2>6, RunStatusKeeps
  <2>7. QED
    BY <1>4, <2>1, <2>2, <2>3, <2>4, <2>5, <2>6 DEF Proceed
<1>5. ASSUME NEW c \in Commands,
             \/ \E m \in Orders : Create(c, m) \/ \E s \in AllSchedules : Release(c, m, s)
             \/ \E s \in AllSchedules : Status(c, s)
      PROVE  IInv'
  BY <1>5, InvocationKeeps
<1>6. ASSUME NEW c \in Commands, LandCreation(c) \/ LandSignature(c) \/ LandAnchor(c) PROVE IInv'
  BY <1>6, LandCreationKeeps, LandSignatureKeeps, AnchorLandsIs, AnchorLandsKeeps
<1>7. QED
  BY <1>1, <1>2, <1>3, <1>4, <1>5, <1>6, ThrowKeeps, ExpireKeeps DEF Next

(* The invariant holds for any orders, schedules and commands: the network *)
(* executes what was created and did not lapse, once, and an anchor of the *)
(* retainer comes from a command that is over and had seen what it claims, *)
(* however late it lands.                                                  *)
THEOREM InvariantHolds == Spec => []IInv
<1>1. Init => IInv
  BY InitIInv
<1>2. IInv /\ [Next]_vars => IInv'
  BY StepIInv
<1>3. QED
  BY <1>1, <1>2, PTL DEF Spec

-----------------------------------------------------------------------------
(* What is on the topic of an order.                                       *)

LEMMA AnchorAt ==
  ASSUME TypeOK, NEW m \in Orders, NEW k
  PROVE  /\ k \in PositionsOf(AllAnchors, m, "retainer_scheduled") <=>
              k \in DOMAIN ledger /\ \E s \in AllSchedules : ledger[k] = ScheduledAnchor(m, s)
         /\ k \in PositionsOf(AllAnchors, m, "retainer_released") <=>
              k \in DOMAIN ledger /\ \E s \in AllSchedules : ledger[k] = ReleasedAnchor(m, s)
         /\ k \in PositionsOf(AllAnchors, m, "delivered") <=>
              k \in DOMAIN ledger /\ ledger[k] = Message(Topic, Anchor("delivered", m, m))
<1>1. k \in AnchorPositions =>
        /\ AllAnchors[k].kind = ledger[k].anchor.kind
        /\ AllAnchors[k].order = ledger[k].anchor.order
  BY DEF AllAnchors, AnchorEntry
<1>2. DOMAIN AllAnchors = AnchorPositions
  BY DEF AllAnchors
<1>3. \A o, s : /\ ScheduledAnchor(o, s).type = "message"
                /\ ScheduledAnchor(o, s).anchor.kind = "retainer_scheduled"
                /\ ScheduledAnchor(o, s).anchor.order = o
                /\ ReleasedAnchor(o, s).type = "message"
                /\ ReleasedAnchor(o, s).anchor.kind = "retainer_released"
                /\ ReleasedAnchor(o, s).anchor.order = o
                /\ Message(Topic, Anchor("delivered", o, o)).type = "message"
                /\ Message(Topic, Anchor("delivered", o, o)).anchor.kind = "delivered"
                /\ Message(Topic, Anchor("delivered", o, o)).anchor.order = o
  BY DEF ScheduledAnchor, ReleasedAnchor, Message, Anchor
<1>4. k \in DOMAIN ledger /\ ledger[k].type = "message" =>
        \/ \E o \in Orders : ledger[k] = Message(Topic, Anchor("delivered", o, o))
        \/ \E o \in Orders : \E s \in AllSchedules : ledger[k] = ScheduledAnchor(o, s)
        \/ \E o \in Orders : \E s \in AllSchedules : ledger[k] = ReleasedAnchor(o, s)
  BY MessageEntry DEF TypeOK
<1>5. \A kind \in {"retainer_scheduled", "retainer_released", "delivered"} :
        k \in PositionsOf(AllAnchors, m, kind) <=>
          /\ k \in DOMAIN ledger /\ ledger[k].type = "message"
          /\ ledger[k].anchor.kind = kind /\ ledger[k].anchor.order = m
  BY <1>1, <1>2 DEF PositionsOf, AnchorPositions, IsAnchorRecord, AnchorKinds, RequiredKinds
<1>6. k \in PositionsOf(AllAnchors, m, "retainer_scheduled") <=>
        k \in DOMAIN ledger /\ \E s \in AllSchedules : ledger[k] = ScheduledAnchor(m, s)
  BY <1>3, <1>4, <1>5
<1>7. k \in PositionsOf(AllAnchors, m, "retainer_released") <=>
        k \in DOMAIN ledger /\ \E s \in AllSchedules : ledger[k] = ReleasedAnchor(m, s)
  BY <1>3, <1>4, <1>5
<1>8. k \in PositionsOf(AllAnchors, m, "delivered") <=>
        k \in DOMAIN ledger /\ ledger[k] = Message(Topic, Anchor("delivered", m, m))
  BY <1>3, <1>4, <1>5
<1>9. QED
  BY <1>6, <1>7, <1>8

LEMMA AnchorSays ==
  ASSUME TypeOK, NEW m, NEW kind, NEW k \in PositionsOf(AllAnchors, m, kind)
  PROVE  /\ AllAnchors[k].at = k /\ k \in DOMAIN ledger
         /\ \A s : ledger[k] = ScheduledAnchor(m, s) => AllAnchors[k].by = s
         /\ \A s : ledger[k] = ReleasedAnchor(m, s) => AllAnchors[k].by = s
BY DEF PositionsOf, AllAnchors, AnchorPositions, AnchorEntry, ScheduledAnchor, ReleasedAnchor,
       Message, Anchor

LEMMA NamedIs ==
  ASSUME TypeOK, NEW m \in Orders, NEW s
  PROVE  /\ s \in HeldFor(m) <=> s \in AllSchedules /\ OnRecord(ScheduledAnchor(m, s))
         /\ s \in ReleasedFor(m) <=> s \in AllSchedules /\ OnRecord(ReleasedAnchor(m, s))
<1>1. s \in HeldFor(m) <=> s \in AllSchedules /\ OnRecord(ScheduledAnchor(m, s))
  <2>1. \A k \in PositionsOf(AllAnchors, m, "retainer_scheduled") : \A t :
          ledger[k] = ScheduledAnchor(m, t) => AllAnchors[k].by = t
    BY AnchorSays
  <2>2. QED
    BY <2>1, AnchorAt DEF HeldFor, NamedBy, OnRecord
<1>2. s \in ReleasedFor(m) <=> s \in AllSchedules /\ OnRecord(ReleasedAnchor(m, s))
  <2>1. \A k \in PositionsOf(AllAnchors, m, "retainer_released") : \A t :
          ledger[k] = ReleasedAnchor(m, t) => AllAnchors[k].by = t
    BY AnchorSays
  <2>2. QED
    BY <2>1, AnchorAt DEF ReleasedFor, NamedBy, OnRecord
<1>3. QED
  BY <1>1, <1>2

(* A release is anchored only when a stranger can look it up: the command  *)
(* waits for the mirror node to show it (src/retainer/release.ts).         *)
THEOREM ReleaseIsProvableHolds == Spec => []ReleaseIsProvable
<1>1. IInv => ReleaseIsProvable
  <2> SUFFICES ASSUME IInv, NEW m \in Orders, NEW s \in ReleasedFor(m)
               PROVE  ReadScheduledTransaction(ledger, shown, s) # {}
    BY DEF ReleaseIsProvable
  <2>1. TypeOK /\ AnchorsSound
    BY DEF IInv
  <2>2. s \in AllSchedules /\ OnRecord(ReleasedAnchor(m, s))
    BY <2>1, NamedIs
  <2>3. PICK k \in DOMAIN ledger : ledger[k] = ReleasedAnchor(m, s)
    BY <2>2 DEF OnRecord
  <2>4. PICK i \in 1..(k - 1) : i <= shown /\ ledger[i].type = "transfer" /\ ledger[i].id = s
    BY <2>1, <2>2, <2>3 DEF AnchorsSound, Seen
  <2>5. i \in 1..shown /\ i \in DOMAIN ledger
    BY <2>1, <2>4 DEF TypeOK
  <2>6. ledger[i].scheduled
    BY <2>1, <2>4, <2>5, TransferEntry DEF TypeOK
  <2>7. i \in {j \in RecordsOf(ledger, shown, s) : ledger[j].scheduled}
    BY <2>4, <2>5, <2>6 DEF RecordsOf
  <2>8. QED
    BY <2>7 DEF ReadScheduledTransaction, At
<1>2. QED
  BY <1>1, InvariantHolds, PTL

-----------------------------------------------------------------------------
(* What check 7 reads.                                                     *)

(* The network executes a schedule once, so there is one record to find.   *)
LEMMA OneExecution ==
  ASSUME IInv, NEW s, NEW i \in RecordsOf(ledger, Len(ledger), s)
  PROVE  /\ i \in DOMAIN ledger /\ ledger[i].type = "transfer" /\ ledger[i].id = s
         /\ RecordsOf(ledger, Len(ledger), s) = {i}
         /\ ReadScheduledTransaction(ledger, Len(ledger), s) = {[at |-> i, transfer |-> ledger[i]]}
         /\ \A u \in ReadSchedule(ledger, Len(ledger), s) : u.executed = i
<1>1. TypeOK /\ LedgerSound
  BY DEF IInv
<1>2. DOMAIN ledger = 1..Len(ledger) /\ Len(ledger) \in Nat \ {0}
  BY <1>1 DEF TypeOK
<1>3. i \in DOMAIN ledger /\ ledger[i].type = "transfer" /\ ledger[i].id = s
  BY <1>2 DEF RecordsOf
<1>4. RecordsOf(ledger, Len(ledger), s) = {i}
  BY <1>1, <1>2, <1>3 DEF LedgerSound, RecordsOf
<1>5. ledger[i].scheduled
  BY <1>1, <1>3, TransferEntry DEF TypeOK
<1>6. ReadScheduledTransaction(ledger, Len(ledger), s) = {[at |-> i, transfer |-> ledger[i]]}
  BY <1>4, <1>5 DEF ReadScheduledTransaction, At
<1>7. \A u \in ReadSchedule(ledger, Len(ledger), s) : u.executed = i
  BY <1>1, <1>2, <1>4, ScheduleRead
<1>8. QED
  BY <1>3, <1>4, <1>6, <1>7

LEMMA NoExecution ==
  ASSUME IInv, NEW s, ~ Executed(s)
  PROVE  \A u \in ReadSchedule(ledger, Len(ledger), s) : u.executed = 0
<1>1. TypeOK
  BY DEF IInv
<1>2. Len(ledger) \in 1..Len(ledger)
  BY <1>1 DEF TypeOK
<1>3. QED
  BY <1>1, <1>2, ScheduleRead DEF Executed

(* The first anchor of each kind of an order.                              *)
LEMMA FirstAnchor ==
  ASSUME TypeOK, NEW m \in Orders, NEW kind, HasAnchor(AllAnchors, m, kind)
  PROVE  \E k \in PositionsOf(AllAnchors, m, kind) :
           /\ k \in DOMAIN ledger
           /\ FirstOf(AllAnchors, m, kind) = AllAnchors[k]
           /\ FirstOf(AllAnchors, m, kind).at = k
           /\ \A o \in PositionsOf(AllAnchors, m, kind) : k <= o
<1>1. DOMAIN AllAnchors \subseteq Nat
  BY DEF TypeOK, AllAnchors, AnchorPositions
<1>2. PICK k \in PositionsOf(AllAnchors, m, kind) :
        /\ FirstOf(AllAnchors, m, kind) = AllAnchors[k]
        /\ \A o \in PositionsOf(AllAnchors, m, kind) : k <= o
  BY <1>1, FirstStands DEF HasAnchor
<1>3. QED
  BY <1>2, AnchorSays

LEMMA FirstScheduled ==
  ASSUME TypeOK, NEW m \in Orders, Held(AllAnchors, m)
  PROVE  \E k \in DOMAIN ledger : \E s \in AllSchedules :
           /\ ledger[k] = ScheduledAnchor(m, s)
           /\ FirstOf(AllAnchors, m, "retainer_scheduled").by = s
           /\ FirstOf(AllAnchors, m, "retainer_scheduled").at = k
           /\ \A o \in DOMAIN ledger : \A t \in AllSchedules :
                ledger[o] = ScheduledAnchor(m, t) => k <= o
<1>1. PICK k \in PositionsOf(AllAnchors, m, "retainer_scheduled") :
           /\ k \in DOMAIN ledger
           /\ FirstOf(AllAnchors, m, "retainer_scheduled") = AllAnchors[k]
           /\ FirstOf(AllAnchors, m, "retainer_scheduled").at = k
           /\ \A o \in PositionsOf(AllAnchors, m, "retainer_scheduled") : k <= o
  BY FirstAnchor DEF Held
<1>2. PICK s \in AllSchedules : ledger[k] = ScheduledAnchor(m, s)
  BY AnchorAt
<1>3. AllAnchors[k].by = s
  BY <1>2, AnchorSays
<1>4. \A o \in DOMAIN ledger : \A t \in AllSchedules :
        ledger[o] = ScheduledAnchor(m, t) => k <= o
  BY <1>1, AnchorAt
<1>5. QED
  BY <1>1, <1>2, <1>3, <1>4

LEMMA FirstReleased ==
  ASSUME TypeOK, NEW m \in Orders, PaidOut(AllAnchors, m)
  PROVE  \E k \in DOMAIN ledger : \E s \in AllSchedules :
           /\ ledger[k] = ReleasedAnchor(m, s)
           /\ FirstOf(AllAnchors, m, "retainer_released").by = s
           /\ FirstOf(AllAnchors, m, "retainer_released").at = k
           /\ \A o \in DOMAIN ledger : \A t \in AllSchedules :
                ledger[o] = ReleasedAnchor(m, t) => k <= o
<1>1. PICK k \in PositionsOf(AllAnchors, m, "retainer_released") :
           /\ k \in DOMAIN ledger
           /\ FirstOf(AllAnchors, m, "retainer_released") = AllAnchors[k]
           /\ FirstOf(AllAnchors, m, "retainer_released").at = k
           /\ \A o \in PositionsOf(AllAnchors, m, "retainer_released") : k <= o
  BY FirstAnchor DEF PaidOut
<1>2. PICK s \in AllSchedules : ledger[k] = ReleasedAnchor(m, s)
  BY AnchorAt
<1>3. AllAnchors[k].by = s
  BY <1>2, AnchorSays
<1>4. \A o \in DOMAIN ledger : \A t \in AllSchedules :
        ledger[o] = ReleasedAnchor(m, t) => k <= o
  BY <1>1, AnchorAt
<1>5. QED
  BY <1>1, <1>2, <1>3, <1>4

(* The verdict on an order that holds a retainer.                          *)
Reads(s) == ReadSchedule(ledger, Len(ledger), s)
Transfers(s) == ReadScheduledTransaction(ledger, Len(ledger), s)

LEMMA VerdictOf ==
  ASSUME NEW m, Held(AllAnchors, m)
  PROVE  LET s == FirstOf(AllAnchors, m, "retainer_scheduled").by
             r == FirstOf(AllAnchors, m, "retainer_released").by
         IN  /\ Verdict(m) \in {"pass", "fail"}
             /\ Verdict(m) = "pass" <=>
                  /\ Authorised(FirstOf(AllAnchors, m, "retainer_scheduled"), Reads(s), Customer)
                  /\ PaidOut(AllAnchors, m) =>
                       ReleaseStands(AllAnchors, m, Reads(s), Transfers(r), Customer, Agency)
                  /\ ~ PaidOut(AllAnchors, m) => \A u \in Reads(s) : u.executed = 0
<1> DEFINE s == FirstOf(AllAnchors, m, "retainer_scheduled").by
           r == FirstOf(AllAnchors, m, "retainer_released").by
           reads == UNION {ReadSchedule(ledger, Len(ledger), x) :
                             x \in RetainerLookups(AllAnchors, m).schedule}
           transfers == UNION {ReadScheduledTransaction(ledger, Len(ledger), x) :
                             x \in RetainerLookups(AllAnchors, m).release}
<1>1. reads = Reads(s)
  BY DEF Reads, RetainerLookups
<1>2. PaidOut(AllAnchors, m) => transfers = Transfers(r)
  BY DEF Transfers, RetainerLookups
<1>3. Verdict(m) = CheckRetainer(AllAnchors, m, reads, transfers, Customer, Agency)
  BY DEF Verdict
<1> HIDE DEF reads, transfers
<1>4. QED
  BY <1>1, <1>2, <1>3 DEF CheckRetainer

-----------------------------------------------------------------------------
(* Nothing in the release command looks at the order, but check 7 does: a  *)
(* retainer whose money moved before the delivery was anchored fails it.   *)
THEOREM EarlyReleaseCaughtHolds == Spec => []EarlyReleaseCaught
<1>1. IInv => EarlyReleaseCaught
  <2> SUFFICES ASSUME IInv, NEW m \in Orders, NEW s \in AllSchedules,
                      HeldFor(m) = {s}, PaidBeforeDelivery(m, s), Verdict(m) # "fail"
               PROVE  FALSE
    BY DEF EarlyReleaseCaught
  <2> DEFINE scheduled == FirstOf(AllAnchors, m, "retainer_scheduled")
             released == FirstOf(AllAnchors, m, "retainer_released")
  <2>1. TypeOK
    BY DEF IInv
  <2>2. Held(AllAnchors, m)
    BY DEF HeldFor, NamedBy, Held, HasAnchor
  <2>3. PICK k \in DOMAIN ledger : \E t \in AllSchedules :
          ledger[k] = ScheduledAnchor(m, t) /\ scheduled.by = t
    BY <2>1, <2>2, FirstScheduled
  <2>4. scheduled.by = s
    BY <2>1, <2>3, NamedIs DEF OnRecord
  <2>5. PICK i \in RecordsOf(ledger, Len(ledger), s) :
          \A j \in 1..(i - 1) : ledger[j] # Message(Topic, Anchor("delivered", m, m))
    BY DEF PaidBeforeDelivery, PaidBefore
  <2>6. /\ Transfers(s) = {[at |-> i, transfer |-> ledger[i]]}
        /\ \A u \in Reads(s) : u.executed = i
        /\ i \in DOMAIN ledger
    BY <2>5, OneExecution DEF Transfers, Reads
  <2>7. /\ Authorised(scheduled, Reads(s), Customer)
        /\ PaidOut(AllAnchors, m) =>
             ReleaseStands(AllAnchors, m, Reads(s), Transfers(released.by), Customer, Agency)
        /\ ~ PaidOut(AllAnchors, m) => \A u \in Reads(s) : u.executed = 0
    BY <2>2, <2>4, VerdictOf
  <2>8. i # 0
    BY <2>1, <2>6 DEF TypeOK
  <2>9. PaidOut(AllAnchors, m)
    BY <2>6, <2>7, <2>8 DEF Authorised
  <2>10. released.by = s /\ ReleasedAfterDelivery(AllAnchors, m, Transfers(s))
    BY <2>4, <2>7, <2>9 DEF ReleaseStands
  <2>11. /\ HasAnchor(AllAnchors, m, "delivered")
         /\ i > FirstOf(AllAnchors, m, "delivered").at
    BY <2>6, <2>10 DEF ReleasedAfterDelivery
  <2>12. PICK j \in PositionsOf(AllAnchors, m, "delivered") :
           j \in DOMAIN ledger /\ FirstOf(AllAnchors, m, "delivered").at = j
    BY <2>1, <2>11, FirstAnchor
  <2>13. ledger[j] = Message(Topic, Anchor("delivered", m, m))
    BY <2>1, <2>12, AnchorAt
  <2>14. j \in 1..(i - 1)
    BY <2>1, <2>6, <2>11, <2>12 DEF TypeOK
  <2>15. QED
    BY <2>5, <2>13, <2>14
<1>2. QED
  BY <1>1, InvariantHolds, PTL

(* The anchors of an order that is invoked carefully are those of its one  *)
(* `create` and of the releases of its one schedule.                       *)
LEMMA CarefulAnchors ==
  ASSUME IInv, NEW m \in Orders, NEW c \in Invoked(m), command[c].verb = "create",
         \A d \in Invoked(m) \ {c} :
           command[d].verb = "release" /\ command[d].schedule = command[c].schedule,
         NEW k \in DOMAIN ledger, NEW t \in AllSchedules
  PROVE  /\ ledger[k] = ScheduledAnchor(m, t) => t = command[c].schedule
         /\ ledger[k] = ReleasedAnchor(m, t) => t = command[c].schedule
<1>1. /\ ledger[k] = ScheduledAnchor(m, t) =>
           \E d \in Commands : /\ command[d].verb = "create"
                               /\ command[d].order = m /\ command[d].schedule = t
      /\ ledger[k] = ReleasedAnchor(m, t) =>
           \E d \in Commands : /\ command[d].verb = "release"
                               /\ command[d].order = m /\ command[d].schedule = t
  BY DEF IInv, AnchorsSound
<1>2. QED
  BY <1>1 DEF Invoked

(* One retainer, authorised before and released after the delivery by      *)
(* commands that say they succeeded, passes check 7.                       *)
THEOREM CarefulOrderPassesHolds == Spec => []CarefulOrderPasses
<1>1. IInv => CarefulOrderPasses
  <2> SUFFICES ASSUME IInv, NEW m \in Orders,
                      \A c \in Invoked(m) : command[c].pc = "ended" /\ command[c].exit = 0,
                      NEW c \in Invoked(m), command[c].verb = "create",
                      \A d \in Invoked(m) \ {c} :
                        command[d].verb = "release" /\ command[d].schedule = command[c].schedule,
                      ~ PaidBeforeDelivery(m, command[c].schedule),
                      ~ PaidBefore(command[c].schedule, RetainerAnchor(c)),
                      Executed(command[c].schedule) =>
                        \E d \in Invoked(m) : command[d].verb = "release"
               PROVE  Verdict(m) = "pass"
    BY DEF CarefulOrderPasses
  <2> DEFINE s == command[c].schedule
             scheduled == FirstOf(AllAnchors, m, "retainer_scheduled")
             released == FirstOf(AllAnchors, m, "retainer_released")
  <2>1. TypeOK /\ AnchorsSound
    BY DEF IInv
  <2>2. c \in Commands /\ command[c].order = m
    BY DEF Invoked
  <2>3. s \in Schedules /\ Created(s) /\ OnRecord(ScheduledAnchor(m, s))
    BY <2>2, CallSound DEF CommandSound
  <2>4. s \in AllSchedules
    BY <2>3 DEF AllSchedules
  <2>5. Held(AllAnchors, m)
    BY <2>1, <2>3, <2>4, AnchorAt DEF OnRecord, Held, HasAnchor
  <2>6. PICK k \in DOMAIN ledger :
          /\ \E t \in AllSchedules : ledger[k] = ScheduledAnchor(m, t) /\ scheduled.by = t
          /\ scheduled.at = k
          /\ \A o \in DOMAIN ledger : \A t \in AllSchedules :
               ledger[o] = ScheduledAnchor(m, t) => k <= o
    BY <2>1, <2>5, FirstScheduled
  <2>7. scheduled.by = s
    BY <2>6, CarefulAnchors
  <2>8. Authorised(scheduled, Reads(s), Customer)
    <3>1. DOMAIN ledger = 1..Len(ledger) /\ Len(ledger) \in 1..Len(ledger)
      BY <2>1 DEF TypeOK
    <3>2. Reads(s) # {}
      BY <2>3, <3>1 DEF Reads, ReadSchedule, Created
    <3>3. PICK u \in Reads(s) : TRUE
      BY <3>2
    <3>4. PICK i \in 1..Len(ledger) :
            /\ ledger[i].type = "schedule" /\ ledger[i].id = s
            /\ u.creator = ledger[i].creator /\ u.id = s /\ ~ u.deleted
      BY <2>1, <3>1, ScheduleRead DEF Reads
    <3>5. ledger[i] \in Entries
      BY <2>1, <3>1, <3>4 DEF TypeOK
    <3>6. u.creator = Customer
      BY <2>3, <3>4, <3>5, ScheduleEntry
    <3>7. QED
      BY <2>7, <3>3, <3>4, <3>6 DEF Authorised
  <2>9. CASE PaidOut(AllAnchors, m)
    <3>1. PICK l \in DOMAIN ledger :
            /\ \E t \in AllSchedules : ledger[l] = ReleasedAnchor(m, t) /\ released.by = t
            /\ released.at = l
      BY <2>1, <2>9, FirstReleased
    <3>2. released.by = s /\ ledger[l] = ReleasedAnchor(m, s)
      BY <3>1, CarefulAnchors
    <3>3. PICK i \in 1..(l - 1) : ledger[i].type = "transfer" /\ ledger[i].id = s
      BY <2>1, <2>4, <3>1, <3>2 DEF AnchorsSound, Seen
    <3>4. l \in Nat /\ i \in DOMAIN ledger /\ i \in RecordsOf(ledger, Len(ledger), s) /\ i < l
      BY <2>1, <3>1, <3>3 DEF TypeOK, RecordsOf
    <3>5. /\ Transfers(s) = {[at |-> i, transfer |-> ledger[i]]}
          /\ \A u \in Reads(s) : u.executed = i
      BY <3>4, OneExecution DEF Transfers, Reads
    <3>6. PICK j \in 1..(i - 1) : ledger[j] = Message(Topic, RetainerAnchor(c))
      BY <3>4 DEF PaidBefore
    <3>7. ledger[j] = ScheduledAnchor(m, s) /\ j \in DOMAIN ledger /\ j < i
      BY <2>1, <2>2, <3>4, <3>6 DEF RetainerAnchor, ScheduledAnchor, TypeOK
    <3>8. k <= j
      BY <2>4, <2>6, <3>7
    <3>9. scheduled.at < released.at
      BY <2>1, <2>6, <3>1, <3>4, <3>7, <3>8 DEF TypeOK
    <3>10. /\ ledger[i].payer = Customer /\ ledger[i].payee = Agency
           /\ ledger[i].result = "SUCCESS" /\ ledger[i].scheduled
      <4>1. Terms(s) = [id |-> s, creator |-> Customer, payee |-> Agency]
        BY <2>3 DEF Terms
      <4>2. ledger[i] \in Entries
        BY <2>1, <3>4 DEF TypeOK
      <4>3. QED
        BY <3>3, <4>1, <4>2, TransferEntry
    <3>11. ReleasedAfterDelivery(AllAnchors, m, Transfers(s))
      <4>1. PICK o \in 1..(i - 1) : ledger[o] = Message(Topic, Anchor("delivered", m, m))
        BY <3>4 DEF PaidBeforeDelivery, PaidBefore
      <4>2. o \in DOMAIN ledger /\ o < i
        BY <2>1, <3>4, <4>1 DEF TypeOK
      <4>3. o \in PositionsOf(AllAnchors, m, "delivered")
        BY <2>1, <4>1, <4>2, AnchorAt
      <4>4. HasAnchor(AllAnchors, m, "delivered")
        BY <4>3 DEF HasAnchor
      <4>5. PICK p \in DOMAIN ledger : FirstOf(AllAnchors, m, "delivered").at = p /\ p <= o
        BY <2>1, <4>3, <4>4, FirstAnchor
      <4>6. FirstOf(AllAnchors, m, "delivered").at < i
        BY <2>1, <3>4, <4>2, <4>5 DEF TypeOK
      <4>7. QED
        BY <2>1, <3>4, <3>5, <4>4, <4>5, <4>6 DEF ReleasedAfterDelivery, TypeOK
    <3>12. ReleaseStands(AllAnchors, m, Reads(s), Transfers(s), Customer, Agency)
      BY <2>7, <3>2, <3>5, <3>9, <3>10, <3>11 DEF ReleaseStands, ReleasedAmount
    <3>13. QED
      BY <2>5, <2>7, <2>8, <2>9, <3>2, <3>12, VerdictOf
  <2>10. CASE ~ PaidOut(AllAnchors, m)
    <3>1. ~ Executed(s)
      <4> SUFFICES ASSUME NEW d \in Invoked(m), command[d].verb = "release"
                   PROVE  FALSE
        OBVIOUS
      <4>1. command[d].schedule = s /\ d \in Commands /\ command[d].order = m
        BY DEF Invoked
      <4>2. OnRecord(ReleasedAnchor(m, s))
        BY <4>1, CallSound DEF CommandSound
      <4>3. QED
        BY <2>1, <2>4, <2>10, <4>2, AnchorAt DEF OnRecord, PaidOut, HasAnchor
    <3>2. \A u \in Reads(s) : u.executed = 0
      BY <3>1, NoExecution DEF Reads
    <3>3. QED
      BY <2>5, <2>7, <2>8, <2>10, <3>2, VerdictOf
  <2>11. QED
    BY <2>9, <2>10
<1>2. QED
  BY <1>1, InvariantHolds, PTL

-----------------------------------------------------------------------------
(* What a step does to the ledger, and which commands it sets on their way.*)

NewEntry(e) ==
  \/ e.type = "schedule" /\ e.id \in Schedules /\ ~ Created(e.id)
  \/ e.type = "transfer" /\ Pending(e.id)
  \/ /\ e.type = "message"
     /\ \A m \in Orders : \A s \in AllSchedules :
          e = ReleasedAnchor(m, s) =>
            /\ Terms(s).payee = Agency /\ Executed(s)
            /\ \E c \in Commands : MayAnchor(command[c], s)

LedgerStep ==
  \/ ledger' = ledger /\ lapsed' = lapsed
  \/ ledger' = ledger /\ \E s \in Schedules : Pending(s) /\ lapsed' = lapsed \cup {s}
  \/ lapsed' = lapsed /\ \E e \in Entries : ledger' = Append(ledger, e) /\ NewEntry(e)

CommandStep ==
  \A s \in AllSchedules : \A c \in Commands :
    MayAnchor(command'[c], s) => MayAnchor(command[c], s) \/ ~ Executed(s)

LEMMA OthersStay ==
  ASSUME TypeOK, NEW c \in Commands, NEW call \in Call, Becomes(c, call),
         \A s \in AllSchedules : MayAnchor(call, s) => MayAnchor(command[c], s) \/ ~ Executed(s)
  PROVE  CommandStep
BY CallChanges DEF CommandStep

LEMMA EndsQuietly ==
  ASSUME IInv, NEW c \in Commands, NEW code \in {0, 1}, End(c, code)
  PROVE  CommandStep
<1>1. PICK call \in Call : Becomes(c, call)
  BY CallEnds
<1>2. TypeOK
  BY DEF IInv
<1>3. call.pc = "ended" /\ call.late = command[c].late /\ call.schedule = command[c].schedule
  BY <1>1, <1>2, CallChanges, CallEnds
<1>4. QED
  BY <1>1, <1>2, <1>3, OthersStay DEF MayAnchor

(* A step that leaves nothing under way that was not.                      *)
LEMMA FallsBack ==
  ASSUME IInv, NEW c \in Commands, \E call \in Call : Becomes(c, call),
         \A s \in AllSchedules : MayAnchor(command'[c], s) => MayAnchor(command[c], s)
  PROVE  CommandStep
<1>1. PICK call \in Call : Becomes(c, call)
  OBVIOUS
<1>2. TypeOK
  BY DEF IInv
<1>3. command'[c] = call
  BY <1>1, <1>2, CallChanges
<1>4. QED
  BY <1>1, <1>2, <1>3, OthersStay

LEMMA SettlesQuietly ==
  ASSUME IInv, NEW c \in Commands, command[c].late # "none", Settle(c)
  PROVE  CommandStep
<1>1. command[c].pc = "ended"
  BY CallSound DEF CommandSound
<1>2. QED
  BY <1>1, CallSettles, FallsBack DEF MayAnchor

LEMMA ThrowStep ==
  ASSUME IInv, NEW c \in Commands, Throw(c)
  PROVE  LedgerStep /\ CommandStep
<1>1. CommandStep
  BY ThrowForm, FallsBack DEF MayAnchor
<1>2. QED
  BY <1>1 DEF Throw, LedgerStep

LEMMA DeliverStep ==
  ASSUME IInv, NEW m \in Orders, Deliver(m)
  PROVE  LedgerStep /\ CommandStep
<1>1. PICK e : e = Message(Topic, Anchor("delivered", m, m))
  OBVIOUS
<1>2. e \in Entries /\ Agree(e) /\ UNCHANGED command
  BY <1>1 DEF Deliver, Entries, Deliveries
<1>3. e.type = "message" /\ \A o, s : e # ReleasedAnchor(o, s)
  BY <1>1 DEF ReleasedAnchor, Message, Anchor
<1>4. NewEntry(e)
  BY <1>3 DEF NewEntry
<1>5. QED
  BY <1>2, <1>4 DEF LedgerStep, CommandStep, Agree

LEMMA StartStep ==
  ASSUME IInv, NEW c \in Commands, NEW verb \in Verbs, NEW m \in Orders \cup {None},
         NEW s \in AllSchedules \cup {None}, Start(c, verb, m, s)
  PROVE  LedgerStep /\ CommandStep
<1>1. command'[c].pc = verb /\ command'[c].late = "none"
  BY DEF Start, IInv, TypeOK
<1>2. \A d \in Commands \ {c} : command'[d] = command[d]
  BY DEF Start, IInv, TypeOK
<1>3. CommandStep
  BY <1>1, <1>2 DEF CommandStep, MayAnchor, Verbs
<1>4. QED
  BY <1>3 DEF Start, LedgerStep

LEMMA AuthoriseStep ==
  ASSUME IInv, NEW s \in Schedules, Authorise(s)
  PROVE  LedgerStep /\ ~ Executed(s)
<1>1. PICK e \in Entries : Agree(e) /\ e.type = "schedule" /\ e.id = s
  BY AuthorisedEntry
<1>2. ~ Created(s)
  BY AuthorisedEntry
<1>3. LedgerStep
  BY <1>1, <1>2 DEF LedgerStep, NewEntry, Agree
<1>4. ~ Executed(s)
  BY <1>2, ExecutedIs DEF IInv, LedgerSound
<1>5. QED
  BY <1>3, <1>4

LEMMA SignStep ==
  ASSUME IInv, NEW s \in AllSchedules, Sign(s)
  PROVE  LedgerStep
<1>1. PICK e \in Entries : Agree(e) /\ e.type = "transfer" /\ e.id = s /\ Pending(e.id)
  BY SignedEntry
<1>2. QED
  BY <1>1 DEF LedgerStep, NewEntry, Agree

LEMMA ScheduleRetainerStep ==
  ASSUME IInv, NEW c \in Commands, ScheduleRetainer(c)
  PROVE  LedgerStep /\ CommandStep
<1>1. PICK s \in Schedules :
        Authorise(s) /\ Becomes(c, [command[c] EXCEPT !.pc = "anchor", !.schedule = s])
  BY DEF ScheduleRetainer
<1>2. LedgerStep /\ ~ Executed(s)
  BY <1>1, AuthoriseStep
<1>3. command[c].pc = "create"
  BY DEF ScheduleRetainer
<1>4. (\E call \in Call : Becomes(c, call)) /\ command'[c].schedule = s
  BY <1>1, <1>3, ScheduleRetainerForm
<1>5. PICK call \in Call : Becomes(c, call)
  BY <1>4
<1>6. TypeOK
  BY DEF IInv
<1>7. call.schedule = s
  BY <1>4, <1>5, <1>6, CallChanges
<1>8. \A t \in AllSchedules : MayAnchor(call, t) => ~ Executed(t)
  BY <1>2, <1>7 DEF MayAnchor
<1>9. QED
  BY <1>2, <1>5, <1>6, <1>8, OthersStay

LEMMA GoesOn ==
  ASSUME IInv, NEW c \in Commands, NEW p \in {"wait", "anchor"}, Goto(c, p),
         command[c].pc = "wait" \/ ~ Executed(command[c].schedule)
  PROVE  CommandStep
<1>1. PICK call \in Call : Becomes(c, call)
  BY CallGoes
<1>2. TypeOK
  BY DEF IInv
<1>3. call.pc = p /\ call.schedule = command[c].schedule /\ call.late = command[c].late
  BY <1>1, <1>2, CallChanges, CallGoes
<1>4. QED
  BY <1>1, <1>2, <1>3, OthersStay DEF MayAnchor

LEMMA ReleaseRetainerStep ==
  ASSUME IInv, NEW c \in Commands, ReleaseRetainer(c)
  PROVE  LedgerStep /\ CommandStep
<1>1. command[c].pc = "release" /\ Sign(command[c].schedule) /\ Goto(c, "wait")
  BY DEF ReleaseRetainer
<1>2. command[c].schedule \in AllSchedules
  BY <1>1, CallSound DEF CommandSound, Verbs
<1>3. LedgerStep
  BY <1>1, <1>2, SignStep
<1>4. CommandStep
  BY <1>1, GoesOn DEF Sign, Pending
<1>5. QED
  BY <1>3, <1>4

(* What a command that is gone had sent.                                   *)
LEMMA LandStep ==
  ASSUME IInv, NEW c \in Commands, LandCreation(c) \/ LandSignature(c) \/ Expire(c)
  PROVE  LedgerStep /\ CommandStep
<1>1. command[c].late # "none" /\ Settle(c)
  BY DEF LandCreation, LandSignature, Expire
<1>2. CommandStep
  BY <1>1, SettlesQuietly
<1>3. CASE LandCreation(c)
  BY <1>2, <1>3, AuthoriseStep DEF LandCreation
<1>4. CASE LandSignature(c)
  <2>1. command[c].schedule \in AllSchedules
    BY <1>4, CallSound DEF LandSignature, CommandSound, Verbs
  <2>2. QED
    BY <1>2, <1>4, <2>1, SignStep DEF LandSignature
<1>5. CASE Expire(c)
  BY <1>2, <1>5 DEF Expire, LedgerStep
<1>6. QED
  BY <1>3, <1>4, <1>5

LEMMA WaitForExecutionStep ==
  ASSUME IInv, NEW c \in Commands, NEW n \in DOMAIN ledger, WaitForExecution(c, n)
  PROVE  LedgerStep /\ CommandStep
<1>1. /\ command[c].pc = "wait" /\ Look(n)
      /\ \/ Goto(c, "anchor")
         \/ End(c, 1)
         \/ command[c].polls > 0 /\ PollAgain(c)
  BY DEF WaitForExecution
<1>2. LedgerStep
  BY <1>1 DEF Look, LedgerStep
<1>3. CASE command[c].polls > 0 /\ PollAgain(c)
  <2> DEFINE call == [command[c] EXCEPT !.polls = command[c].polls - 1]
  <2>1. command[c] \in Call
    BY CallSound
  <2>2. call \in Call
    BY <1>3, <2>1, CallForms
  <2>3. /\ call.pc = command[c].pc /\ call.schedule = command[c].schedule
        /\ call.late = command[c].late
    BY <2>1 DEF Call
  <2>4. Becomes(c, call)
    BY <1>3 DEF PollAgain
  <2> HIDE DEF call
  <2>5. TypeOK
    BY DEF IInv
  <2>6. \A s \in AllSchedules : MayAnchor(call, s) => MayAnchor(command[c], s)
    BY <2>3 DEF MayAnchor
  <2>7. QED
    BY <1>2, <2>2, <2>4, <2>5, <2>6, OthersStay
<1>4. QED
  BY <1>1, <1>2, <1>3, GoesOn, EndsQuietly

LEMMA AnchorLandsStep ==
  ASSUME IInv, NEW c \in Commands, AnchorLands(c)
  PROVE  LedgerStep /\ CommandStep
<1>1. /\ command[c].pc = "anchor" \/ command[c].late = "anchor"
      /\ Agree(Message(Topic, RetainerAnchor(c)))
  BY DEF AnchorLands
<1>2. CommandStep
  BY FallsBack DEF AnchorLands, MayAnchor
<1>3. CommandSound(command[c]) /\ TypeOK
  BY CallSound DEF IInv
<1>4. PICK m, s : m = command[c].order /\ s = command[c].schedule
  OBVIOUS
<1>5. \/ command[c].verb = "create" /\ s \in AllSchedules
      \/ command[c].verb = "release" /\ s \in AllSchedules /\ Seen(s, shown)
  BY <1>1, <1>3, <1>4 DEF CommandSound, AllSchedules
<1>6. m \in Orders
  BY <1>3, <1>4, <1>5 DEF CommandSound
<1>7. PICK e : e = Message(Topic, RetainerAnchor(c))
  OBVIOUS
<1>8. /\ command[c].verb = "create" => e = ScheduledAnchor(m, s)
      /\ command[c].verb = "release" => e = ReleasedAnchor(m, s)
  BY <1>4, <1>7 DEF RetainerAnchor, ScheduledAnchor, ReleasedAnchor
<1>9. e \in Entries /\ e.type = "message"
  BY <1>5, <1>6, <1>7, <1>8, EntryTypes DEF Entries, AnchorsOf
<1>10. ASSUME NEW o \in Orders, NEW t \in AllSchedules, e = ReleasedAnchor(o, t)
       PROVE  /\ Terms(t).payee = Agency /\ Executed(t)
              /\ MayAnchor(command[c], t)
  <2>1. command[c].verb = "release" /\ t = s
    BY <1>5, <1>8, <1>10 DEF ScheduledAnchor, ReleasedAnchor, Message, Anchor
  <2>2. Seen(s, shown)
    BY <1>5, <2>1
  <2>3. QED
    BY <1>1, <1>3, <1>4, <2>1, <2>2, ExecutedIs DEF Seen, TypeOK, MayAnchor
<1>11. NewEntry(e)
  BY <1>9, <1>10 DEF NewEntry
<1>12. LedgerStep
  BY <1>1, <1>7, <1>9, <1>11 DEF LedgerStep, Agree
<1>13. QED
  BY <1>2, <1>12

LEMMA StepForms ==
  ASSUME IInv, [Next]_vars
  PROVE  LedgerStep /\ CommandStep
<1>1. CASE UNCHANGED vars
  BY <1>1 DEF vars, LedgerStep, CommandStep
<1>2. ASSUME NEW m \in Orders, Deliver(m) PROVE LedgerStep /\ CommandStep
  BY <1>2, DeliverStep
<1>3. ASSUME NEW s \in Schedules, Lapse(s) PROVE LedgerStep /\ CommandStep
  BY <1>3 DEF Lapse, LedgerStep, CommandStep
<1>4. ASSUME NEW c \in Commands, Proceed(c) PROVE LedgerStep /\ CommandStep
  <2>1. CASE ScheduleRetainer(c)
    BY <2>1, ScheduleRetainerStep
  <2>2. CASE ReleaseRetainer(c)
    BY <2>2, ReleaseRetainerStep
  <2>3. CASE Refused(c)
    BY <2>3, EndsQuietly DEF Refused, LedgerStep
  <2>4. CASE SubmitAnchor(c)
    BY <2>4, AnchorLandsIs, AnchorLandsStep
  <2>5. ASSUME NEW n \in DOMAIN ledger, WaitForExecution(c, n) PROVE LedgerStep /\ CommandStep
    BY <2>5, WaitForExecutionStep
  <2>6. ASSUME NEW n \in DOMAIN ledger, RunStatus(c, n) PROVE LedgerStep /\ CommandStep
    <3>1. PICK code \in {0, 1} : End(c, code)
      BY <2>6 DEF RunStatus
    <3>2. LedgerStep
      BY <2>6 DEF RunStatus, Look, LedgerStep
    <3>3. QED
      BY <3>1, <3>2, EndsQuietly
  <2>7. QED
    BY <1>4, <2>1, <2>2, <2>3, <2>4, <2>5, <2>6 DEF Proceed
<1>5. ASSUME NEW c \in Commands, NEW m \in Orders, Create(c, m) PROVE LedgerStep /\ CommandStep
  BY <1>5, StartStep DEF Create, Verbs
<1>6. ASSUME NEW c \in Commands, NEW m \in Orders, NEW s \in AllSchedules, Release(c, m, s)
      PROVE  LedgerStep /\ CommandStep
  BY <1>6, StartStep DEF Release, Verbs
<1>7. ASSUME NEW c \in Commands, NEW s \in AllSchedules, Status(c, s)
      PROVE  LedgerStep /\ CommandStep
  BY <1>7, StartStep DEF Status, Verbs
<1>8. ASSUME NEW c \in Commands,
             Throw(c) \/ LandCreation(c) \/ LandSignature(c) \/ LandAnchor(c) \/ Expire(c)
      PROVE  LedgerStep /\ CommandStep
  BY <1>8, ThrowStep, LandStep, AnchorLandsIs, AnchorLandsStep
<1>9. QED
  BY <1>1, <1>2, <1>3, <1>4, <1>5, <1>6, <1>7, <1>8 DEF Next

-----------------------------------------------------------------------------
(* An order whose money moved while nobody is left to anchor it, read from *)
(* the ledger: the first authorisation at `k` names `s`.                   *)
Lost(m, k, s) ==
  /\ ledger[k] = ScheduledAnchor(m, s)
  /\ \A o \in DOMAIN ledger : \A t \in AllSchedules : ledger[o] = ScheduledAnchor(m, t) => k <= o
  /\ Executed(s)
  /\ ~ OnRecord(ReleasedAnchor(m, s))
  /\ \A c \in Commands : ~ MayAnchor(command[c], s)

UnrecordedRead ==
  \A m \in Orders :
    /\ Unrecorded(m) => Verdict(m) = "fail"
    /\ Unrecorded(m) <=> \E k \in DOMAIN ledger : \E s \in AllSchedules : Lost(m, k, s)

LEMMA UnrecordedIs == IInv => UnrecordedRead
<1> SUFFICES ASSUME IInv, NEW m \in Orders
             PROVE  /\ Unrecorded(m) => Verdict(m) = "fail"
                    /\ Unrecorded(m) <=>
                         \E k \in DOMAIN ledger : \E s \in AllSchedules : Lost(m, k, s)
  BY DEF UnrecordedRead
<1> DEFINE scheduled == FirstOf(AllAnchors, m, "retainer_scheduled")
           released == FirstOf(AllAnchors, m, "retainer_released")
<1>1. TypeOK
  BY DEF IInv
<1>2. HeldFor(m) # {} <=> Held(AllAnchors, m)
  BY DEF HeldFor, NamedBy, Held, HasAnchor
<1>3. Unrecorded(m) =>
        /\ Executed(scheduled.by) /\ scheduled.by \notin ReleasedFor(m)
        /\ \A c \in Commands : ~ MayAnchor(command[c], scheduled.by)
  BY DEF Unrecorded, Moved, FirstHeld
<1>4. ASSUME Unrecorded(m)
      PROVE  \E k \in DOMAIN ledger : \E s \in AllSchedules : Lost(m, k, s)
  <2>1. Held(AllAnchors, m)
    BY <1>2, <1>4 DEF Unrecorded, Moved
  <2>2. PICK k \in DOMAIN ledger, s \in AllSchedules :
          /\ ledger[k] = ScheduledAnchor(m, s) /\ scheduled.by = s
          /\ \A o \in DOMAIN ledger : \A t \in AllSchedules :
               ledger[o] = ScheduledAnchor(m, t) => k <= o
    BY <1>1, <2>1, FirstScheduled
  <2>3. ~ OnRecord(ReleasedAnchor(m, s))
    BY <1>1, <1>3, <1>4, <2>2, NamedIs
  <2>4. QED
    BY <1>3, <1>4, <2>2, <2>3 DEF Lost
<1>5. ASSUME NEW k \in DOMAIN ledger, NEW s \in AllSchedules, Lost(m, k, s)
      PROVE  Unrecorded(m)
  <2>1. s \in HeldFor(m) /\ s \notin ReleasedFor(m)
    BY <1>1, <1>5, NamedIs DEF Lost, OnRecord
  <2>2. PICK l \in DOMAIN ledger, t \in AllSchedules :
          /\ ledger[l] = ScheduledAnchor(m, t) /\ scheduled.by = t
          /\ \A o \in DOMAIN ledger : \A u \in AllSchedules :
               ledger[o] = ScheduledAnchor(m, u) => l <= o
    BY <1>1, <1>2, <2>1, FirstScheduled
  <2>3. l = k
    BY <1>1, <1>5, <2>2 DEF Lost, TypeOK
  <2>4. t = s
    BY <1>5, <2>2, <2>3 DEF Lost, ScheduledAnchor, Message, Anchor
  <2>5. QED
    BY <1>5, <2>1, <2>2, <2>4 DEF Lost, Unrecorded, Moved, FirstHeld
<1>6. ASSUME Unrecorded(m) PROVE Verdict(m) = "fail"
  <2>1. Held(AllAnchors, m)
    BY <1>2, <1>6 DEF Unrecorded, Moved
  <2>2. PICK i \in RecordsOf(ledger, Len(ledger), scheduled.by) : TRUE
    BY <1>3, <1>6 DEF Executed
  <2>3. i # 0 /\ \A u \in Reads(scheduled.by) : u.executed = i
    BY <1>1, <2>2, OneExecution DEF Reads, TypeOK
  <2>4. ASSUME Verdict(m) = "pass" PROVE FALSE
    <3>1. /\ Authorised(scheduled, Reads(scheduled.by), Customer)
          /\ PaidOut(AllAnchors, m) =>
               ReleaseStands(AllAnchors, m, Reads(scheduled.by), Transfers(released.by), Customer, Agency)
          /\ ~ PaidOut(AllAnchors, m) => \A u \in Reads(scheduled.by) : u.executed = 0
      BY <2>1, <2>4, VerdictOf
    <3>2. PaidOut(AllAnchors, m)
      BY <2>3, <3>1 DEF Authorised
    <3>3. released.by = scheduled.by
      BY <3>1, <3>2 DEF ReleaseStands
    <3>4. released.by \in ReleasedFor(m)
      BY <1>1, <3>2, FirstReleased, NamedIs DEF OnRecord
    <3>5. QED
      BY <1>3, <1>6, <3>3, <3>4
  <2>5. QED
    BY <2>1, <2>4, VerdictOf
<1>7. QED
  BY <1>4, <1>5, <1>6

LEMMA LostStays ==
  ASSUME IInv, [Next]_vars, NEW m \in Orders, NEW k \in DOMAIN ledger, NEW s \in AllSchedules,
         Lost(m, k, s)
  PROVE  k \in DOMAIN ledger' /\ Lost(m, k, s)'
<1>1. LedgerStep /\ CommandStep
  BY StepForms
<1>2. TypeOK /\ k \in Nat
  BY DEF IInv, TypeOK
<1>3. /\ ScheduledAnchor(m, s)' = ScheduledAnchor(m, s)
      /\ ReleasedAnchor(m, s)' = ReleasedAnchor(m, s)
      /\ \A t : ScheduledAnchor(m, t)' = ScheduledAnchor(m, t)
      /\ AllSchedules' = AllSchedules
  BY DEF ScheduledAnchor, ReleasedAnchor, AllSchedules
<1>4. \A c \in Commands : ~ MayAnchor(command'[c], s)
  BY <1>1 DEF CommandStep, Lost
<1>5. CASE ledger' = ledger
  BY <1>3, <1>4, <1>5 DEF Lost, MayAnchor, Executed, OnRecord
<1>6. ASSUME NEW e \in Entries, ledger' = Append(ledger, e), NewEntry(e)
      PROVE  k \in DOMAIN ledger' /\ Lost(m, k, s)'
  <2>1. e # ReleasedAnchor(m, s)
    BY <1>6 DEF NewEntry, Lost, MayAnchor, ReleasedAnchor, Message
  <2>2. ~ OnRecord(ReleasedAnchor(m, s))'
    <3> DEFINE r == ReleasedAnchor(m, s)
    <3>1. ~ \E i \in DOMAIN ledger' : ledger'[i] = r
      BY <1>2, <1>6, <2>1, LedgerGrows DEF Lost, OnRecord
    <3>2. QED
      BY <1>3, <3>1 DEF OnRecord
  <2>3. Executed(s)'
    BY <1>2, <1>6, FactsGrow DEF Lost
  <2>4. /\ k \in DOMAIN ledger' /\ ledger'[k] = ScheduledAnchor(m, s)
        /\ \A o \in DOMAIN ledger' : \A t \in AllSchedules :
             ledger'[o] = ScheduledAnchor(m, t) => k <= o
    BY <1>2, <1>6, LedgerGrows DEF Lost
  <2>5. QED
    BY <1>3, <1>4, <2>2, <2>3, <2>4 DEF Lost, MayAnchor
<1>7. QED
  BY <1>1, <1>5, <1>6 DEF LedgerStep

(* The first authorisation of an order is at `k` and names `s`, its first  *)
(* release at `l` names `r`, and the money of `s` moved at `i`.            *)
SettledAt(m, k, s, l, r, i) ==
  /\ k \in DOMAIN ledger /\ ledger[k] = ScheduledAnchor(m, s)
  /\ \A o \in DOMAIN ledger : \A t \in AllSchedules : ledger[o] = ScheduledAnchor(m, t) => k <= o
  /\ l \in DOMAIN ledger /\ ledger[l] = ReleasedAnchor(m, r)
  /\ \A o \in DOMAIN ledger : \A t \in AllSchedules : ledger[o] = ReleasedAnchor(m, t) => l <= o
  /\ i \in DOMAIN ledger /\ ledger[i].type = "transfer" /\ ledger[i].id = s
  /\ OnRecord(ReleasedAnchor(m, s))

(* Check 7 on such an order, read from the ledger.                         *)
StandsAt(m, k, s, l, r, i) ==
  /\ r = s /\ k < l
  /\ \E j \in DOMAIN ledger :
       ledger[j].type = "schedule" /\ ledger[j].id = s /\ ledger[j].creator = Customer
  /\ ledger[i].payer = Customer /\ ledger[i].payee = Agency
  /\ \E d \in DOMAIN ledger : d < i /\ ledger[d] = Message(Topic, Anchor("delivered", m, m))

AccountedRead ==
  \A m \in Orders :
    /\ Accounted(m) <=>
         \E k, l, i \in DOMAIN ledger : \E s, r \in AllSchedules : SettledAt(m, k, s, l, r, i)
    /\ \A k, l, i \in DOMAIN ledger : \A s, r \in AllSchedules :
         SettledAt(m, k, s, l, r, i) =>
           Verdict(m) = IF StandsAt(m, k, s, l, r, i) THEN "pass" ELSE "fail"

(* The anchors check 7 looks at are those at `k` and `l`.                  *)
LEMMA SettledFirsts ==
  ASSUME TypeOK, NEW m \in Orders, NEW k \in DOMAIN ledger, NEW l \in DOMAIN ledger,
         NEW i \in DOMAIN ledger, NEW s \in AllSchedules, NEW r \in AllSchedules,
         SettledAt(m, k, s, l, r, i)
  PROVE  /\ Held(AllAnchors, m) /\ PaidOut(AllAnchors, m)
         /\ FirstOf(AllAnchors, m, "retainer_scheduled").by = s
         /\ FirstOf(AllAnchors, m, "retainer_scheduled").at = k
         /\ FirstOf(AllAnchors, m, "retainer_released").by = r
         /\ FirstOf(AllAnchors, m, "retainer_released").at = l
<1>1. Held(AllAnchors, m) /\ PaidOut(AllAnchors, m)
  BY AnchorAt DEF SettledAt, Held, PaidOut, HasAnchor
<1>2. PICK o \in DOMAIN ledger, t \in AllSchedules :
           /\ ledger[o] = ScheduledAnchor(m, t)
           /\ FirstOf(AllAnchors, m, "retainer_scheduled").by = t
           /\ FirstOf(AllAnchors, m, "retainer_scheduled").at = o
           /\ \A p \in DOMAIN ledger : \A u \in AllSchedules :
                ledger[p] = ScheduledAnchor(m, u) => o <= p
  BY <1>1, FirstScheduled
<1>3. o = k
  BY <1>2 DEF SettledAt, TypeOK
<1>4. t = s
  BY <1>2, <1>3 DEF SettledAt, ScheduledAnchor, Message, Anchor
<1>5. PICK q \in DOMAIN ledger, v \in AllSchedules :
           /\ ledger[q] = ReleasedAnchor(m, v)
           /\ FirstOf(AllAnchors, m, "retainer_released").by = v
           /\ FirstOf(AllAnchors, m, "retainer_released").at = q
           /\ \A p \in DOMAIN ledger : \A u \in AllSchedules :
                ledger[p] = ReleasedAnchor(m, u) => q <= p
  BY <1>1, FirstReleased
<1>6. q = l
  BY <1>5 DEF SettledAt, TypeOK
<1>7. v = r
  BY <1>5, <1>6 DEF SettledAt, ReleasedAnchor, Message, Anchor
<1>8. QED
  BY <1>1, <1>2, <1>3, <1>4, <1>5, <1>6, <1>7

LEMMA AuthorisedIs ==
  ASSUME IInv, NEW a, NEW s \in AllSchedules, a.by = s
  PROVE  Authorised(a, Reads(s), Customer) <=>
           \E j \in DOMAIN ledger :
             ledger[j].type = "schedule" /\ ledger[j].id = s /\ ledger[j].creator = Customer
<1>1. TypeOK
  BY DEF IInv
<1>2. DOMAIN ledger = 1..Len(ledger) /\ Len(ledger) \in 1..Len(ledger)
  BY <1>1 DEF TypeOK
<1>3. \A u \in Reads(s) :
        /\ u.id = s /\ ~ u.deleted
        /\ \E j \in 1..Len(ledger) : ledger[j].type = "schedule" /\ ledger[j].id = s
                                     /\ u.creator = ledger[j].creator
  BY <1>1, <1>2, ScheduleRead DEF Reads
<1>4. \A j \in DOMAIN ledger : ledger[j].type = "schedule" /\ ledger[j].id = s =>
        \E u \in Reads(s) : u.creator = ledger[j].creator
  <2> DEFINE executions == {i \in RecordsOf(ledger, Len(ledger), s) : ledger[i].scheduled}
             deleted == \E i \in 1..Len(ledger) : ledger[i].type = "deletion" /\ ledger[i].id = s
             executed == IF executions = {} THEN 0 ELSE CHOOSE j \in executions : TRUE
             record(j) == [id |-> s, creator |-> ledger[j].creator, deleted |-> deleted,
                           executed |-> executed]
  <2>1. Reads(s) = {record(i) : i \in {j \in 1..Len(ledger) :
                                        ledger[j].type = "schedule" /\ ledger[j].id = s}}
    BY DEF Reads, ReadSchedule
  <2>2. \A j : record(j).creator = ledger[j].creator
    OBVIOUS
  <2> HIDE DEF record
  <2>3. QED
    BY <1>2, <2>1, <2>2
<1>5. QED
  BY <1>2, <1>3, <1>4 DEF Authorised

LEMMA DeliveredBefore ==
  ASSUME TypeOK, NEW m \in Orders, NEW i \in DOMAIN ledger
  PROVE  ReleasedAfterDelivery(AllAnchors, m, {[at |-> i, transfer |-> ledger[i]]}) <=>
           \E d \in DOMAIN ledger : d < i /\ ledger[d] = Message(Topic, Anchor("delivered", m, m))
<1>1. ReleasedAfterDelivery(AllAnchors, m, {[at |-> i, transfer |-> ledger[i]]}) <=>
        HasAnchor(AllAnchors, m, "delivered") /\ i > FirstOf(AllAnchors, m, "delivered").at
  BY DEF ReleasedAfterDelivery
<1>2. DOMAIN ledger \subseteq Nat
  BY DEF TypeOK
<1>3. ASSUME HasAnchor(AllAnchors, m, "delivered"), i > FirstOf(AllAnchors, m, "delivered").at
      PROVE  \E d \in DOMAIN ledger : d < i /\ ledger[d] = Message(Topic, Anchor("delivered", m, m))
  <2>1. PICK d \in PositionsOf(AllAnchors, m, "delivered") :
          d \in DOMAIN ledger /\ FirstOf(AllAnchors, m, "delivered").at = d
    BY <1>3, FirstAnchor
  <2>2. QED
    BY <1>2, <1>3, <2>1, AnchorAt
<1>4. ASSUME NEW d \in DOMAIN ledger, d < i, ledger[d] = Message(Topic, Anchor("delivered", m, m))
      PROVE  HasAnchor(AllAnchors, m, "delivered") /\ i > FirstOf(AllAnchors, m, "delivered").at
  <2>1. d \in PositionsOf(AllAnchors, m, "delivered")
    BY <1>4, AnchorAt
  <2>2. HasAnchor(AllAnchors, m, "delivered")
    BY <2>1 DEF HasAnchor
  <2>3. PICK p \in DOMAIN ledger : FirstOf(AllAnchors, m, "delivered").at = p /\ p <= d
    BY <2>1, <2>2, FirstAnchor
  <2>4. QED
    BY <1>2, <1>4, <2>2, <2>3
<1>5. QED
  BY <1>1, <1>3, <1>4

LEMMA SettledVerdict ==
  ASSUME IInv, NEW m \in Orders, NEW k \in DOMAIN ledger, NEW l \in DOMAIN ledger,
         NEW i \in DOMAIN ledger, NEW s \in AllSchedules, NEW r \in AllSchedules,
         SettledAt(m, k, s, l, r, i)
  PROVE  Verdict(m) = IF StandsAt(m, k, s, l, r, i) THEN "pass" ELSE "fail"
<1> DEFINE scheduled == FirstOf(AllAnchors, m, "retainer_scheduled")
           released == FirstOf(AllAnchors, m, "retainer_released")
<1>1. TypeOK
  BY DEF IInv
<1>2. /\ Held(AllAnchors, m) /\ PaidOut(AllAnchors, m)
      /\ scheduled.by = s /\ scheduled.at = k /\ released.by = r /\ released.at = l
  BY <1>1, SettledFirsts
<1> HIDE DEF scheduled, released
<1>3. /\ Verdict(m) \in {"pass", "fail"}
      /\ Verdict(m) = "pass" <=>
           /\ Authorised(scheduled, Reads(s), Customer)
           /\ ReleaseStands(AllAnchors, m, Reads(s), Transfers(r), Customer, Agency)
  BY <1>2, VerdictOf DEF scheduled, released
<1>4. i \in RecordsOf(ledger, Len(ledger), s)
  BY <1>1 DEF SettledAt, RecordsOf, TypeOK
<1>5. /\ Transfers(s) = {[at |-> i, transfer |-> ledger[i]]}
      /\ \A u \in Reads(s) : u.executed = i
  BY <1>4, OneExecution DEF Transfers, Reads
<1>6. Authorised(scheduled, Reads(s), Customer) <=>
        \E j \in DOMAIN ledger :
          ledger[j].type = "schedule" /\ ledger[j].id = s /\ ledger[j].creator = Customer
  BY <1>2, AuthorisedIs
<1>7. ReleaseStands(AllAnchors, m, Reads(s), Transfers(r), Customer, Agency) => r = s
  BY <1>2 DEF ReleaseStands, scheduled, released
<1>8. ledger[i].result = "SUCCESS" /\ ledger[i].scheduled
  BY <1>1, TransferEntry DEF SettledAt, TypeOK
<1>9. ASSUME r = s
      PROVE  ReleaseStands(AllAnchors, m, Reads(s), Transfers(r), Customer, Agency) <=>
               /\ k < l /\ ledger[i].payer = Customer /\ ledger[i].payee = Agency
               /\ \E d \in DOMAIN ledger :
                    d < i /\ ledger[d] = Message(Topic, Anchor("delivered", m, m))
  <2>1. ReleaseStands(AllAnchors, m, Reads(s), Transfers(r), Customer, Agency) <=>
          /\ k < l /\ ledger[i].payer = Customer /\ ledger[i].payee = Agency
          /\ ReleasedAfterDelivery(AllAnchors, m, {[at |-> i, transfer |-> ledger[i]]})
    <3> DEFINE t == [at |-> i, transfer |-> ledger[i]]
    <3>1. Transfers(r) = {t} /\ t.at = i /\ t.transfer = ledger[i]
      BY <1>5, <1>9
    <3> HIDE DEF t
    <3>2. ReleasedAmount({t}, Customer, Agency) <=>
            ledger[i].payer = Customer /\ ledger[i].payee = Agency
      BY <3>1 DEF ReleasedAmount
    <3>3. \A x \in {t} : /\ x.transfer.result = "SUCCESS" /\ x.transfer.scheduled
                        /\ \A u \in Reads(s) : u.executed = x.at
      BY <1>5, <1>8, <3>1
    <3>4. ReleaseStands(AllAnchors, m, Reads(s), {t}, Customer, Agency) <=>
            /\ k < l /\ ReleasedAmount({t}, Customer, Agency)
            /\ ReleasedAfterDelivery(AllAnchors, m, {t})
      BY <1>2, <1>9, <3>3 DEF ReleaseStands, scheduled, released
    <3>5. QED
      BY <3>1, <3>2, <3>4 DEF t
  <2>2. QED
    BY <1>1, <2>1, DeliveredBefore
<1>10. Verdict(m) = "pass" <=> StandsAt(m, k, s, l, r, i)
  BY <1>3, <1>6, <1>7, <1>9 DEF StandsAt
<1>11. QED
  BY <1>3, <1>10

LEMMA AccountedIs == IInv => AccountedRead
<1> SUFFICES ASSUME IInv, NEW m \in Orders
             PROVE  Accounted(m) <=> \E k, l, i \in DOMAIN ledger : \E s, r \in AllSchedules :
                      SettledAt(m, k, s, l, r, i)
  BY SettledVerdict DEF AccountedRead
<1>1. TypeOK
  BY DEF IInv
<1>2. HeldFor(m) # {} <=> Held(AllAnchors, m)
  BY DEF HeldFor, NamedBy, Held, HasAnchor
<1>3. ASSUME Accounted(m)
      PROVE  \E k, l, i \in DOMAIN ledger : \E s, r \in AllSchedules : SettledAt(m, k, s, l, r, i)
  <2>1. PICK k \in DOMAIN ledger, s \in AllSchedules :
          /\ ledger[k] = ScheduledAnchor(m, s) /\ FirstHeld(m) = s
          /\ \A o \in DOMAIN ledger : \A t \in AllSchedules :
               ledger[o] = ScheduledAnchor(m, t) => k <= o
    BY <1>1, <1>2, <1>3, FirstScheduled DEF Accounted, Moved, FirstHeld
  <2>2. Executed(s) /\ OnRecord(ReleasedAnchor(m, s))
    BY <1>1, <1>3, <2>1, NamedIs DEF Accounted, Moved
  <2>3. PICK i \in DOMAIN ledger : ledger[i].type = "transfer" /\ ledger[i].id = s
    BY <1>1, <2>2, ExecutedIs
  <2>4. PaidOut(AllAnchors, m)
    BY <1>1, <2>2, AnchorAt DEF OnRecord, PaidOut, HasAnchor
  <2>5. PICK l \in DOMAIN ledger, r \in AllSchedules :
          /\ ledger[l] = ReleasedAnchor(m, r)
          /\ \A o \in DOMAIN ledger : \A t \in AllSchedules :
               ledger[o] = ReleasedAnchor(m, t) => l <= o
    BY <1>1, <2>4, FirstReleased
  <2>6. SettledAt(m, k, s, l, r, i)
    BY <2>1, <2>2, <2>3, <2>5 DEF SettledAt
  <2>7. QED
    BY <2>6
<1>4. ASSUME NEW k \in DOMAIN ledger, NEW l \in DOMAIN ledger, NEW i \in DOMAIN ledger,
             NEW s \in AllSchedules, NEW r \in AllSchedules, SettledAt(m, k, s, l, r, i)
      PROVE  Accounted(m)
  <2>1. Held(AllAnchors, m) /\ FirstHeld(m) = s
    BY <1>1, <1>4, SettledFirsts DEF FirstHeld
  <2>2. Executed(s)
    BY <1>1, <1>4, ExecutedIs DEF SettledAt
  <2>3. s \in ReleasedFor(m)
    BY <1>1, <1>4, NamedIs DEF SettledAt
  <2>4. QED
    BY <1>2, <2>1, <2>2, <2>3 DEF Accounted, Moved
<1>5. QED
  BY <1>3, <1>4

LEMMA SettledStays ==
  ASSUME IInv, [Next]_vars, NEW m \in Orders, NEW k \in DOMAIN ledger, NEW l \in DOMAIN ledger,
         NEW i \in DOMAIN ledger, NEW s \in AllSchedules, NEW r \in AllSchedules,
         SettledAt(m, k, s, l, r, i)
  PROVE  /\ k \in DOMAIN ledger' /\ l \in DOMAIN ledger' /\ i \in DOMAIN ledger'
         /\ SettledAt(m, k, s, l, r, i)'
         /\ StandsAt(m, k, s, l, r, i)' <=> StandsAt(m, k, s, l, r, i)
<1>1. LedgerStep
  BY StepForms
<1>2. TypeOK
  BY DEF IInv
<1>3. /\ \A t : ScheduledAnchor(m, t)' = ScheduledAnchor(m, t)
      /\ \A t : ReleasedAnchor(m, t)' = ReleasedAnchor(m, t)
      /\ AllSchedules' = AllSchedules
  BY DEF ScheduledAnchor, ReleasedAnchor, AllSchedules
<1>4. CASE ledger' = ledger
  BY <1>3, <1>4 DEF SettledAt, StandsAt, OnRecord
<1>5. ASSUME NEW e \in Entries, ledger' = Append(ledger, e), NewEntry(e)
      PROVE  /\ k \in DOMAIN ledger' /\ l \in DOMAIN ledger' /\ i \in DOMAIN ledger'
             /\ SettledAt(m, k, s, l, r, i)'
             /\ StandsAt(m, k, s, l, r, i)' <=> StandsAt(m, k, s, l, r, i)
  <2>1. /\ DOMAIN ledger' = DOMAIN ledger \cup {Len(ledger) + 1}
        /\ \A n \in DOMAIN ledger : ledger'[n] = ledger[n] /\ n \in Nat /\ n < Len(ledger) + 1
        /\ ledger'[Len(ledger) + 1] = e /\ Len(ledger) \in Nat
    BY <1>2, <1>5, LedgerGrows
  <2>2. \E x \in DOMAIN ledger' : ledger'[x] = ReleasedAnchor(m, s)
    BY <2>1 DEF SettledAt, OnRecord
  <2>3. \A o \in DOMAIN ledger' : k <= o \/ o \in DOMAIN ledger
    BY <2>1
  <2>4. \A o \in DOMAIN ledger' : l <= o \/ o \in DOMAIN ledger
    BY <2>1
  <2>5. SettledAt(m, k, s, l, r, i)'
    BY <1>3, <2>1, <2>2, <2>3, <2>4 DEF SettledAt, OnRecord
  <2>6. (\E d \in DOMAIN ledger' : d < i /\ ledger'[d] = Message(Topic, Anchor("delivered", m, m)))
          <=> \E d \in DOMAIN ledger : d < i /\ ledger[d] = Message(Topic, Anchor("delivered", m, m))
    BY <2>1
  <2>7. e.type = "schedule" => e.id # s
    <3>1. Created(s)
      BY <1>2, ExecutedIs DEF IInv, LedgerSound, SettledAt
    <3>2. QED
      BY <1>5, <3>1 DEF NewEntry
  <2>8. (\E j \in DOMAIN ledger' :
           ledger'[j].type = "schedule" /\ ledger'[j].id = s /\ ledger'[j].creator = Customer)
          <=> \E j \in DOMAIN ledger :
                ledger[j].type = "schedule" /\ ledger[j].id = s /\ ledger[j].creator = Customer
    BY <2>1, <2>7
  <2>9. StandsAt(m, k, s, l, r, i)' <=> StandsAt(m, k, s, l, r, i)
    BY <2>1, <2>6, <2>8 DEF StandsAt
  <2>10. QED
    BY <2>1, <2>5, <2>9
<1>6. QED
  BY <1>1, <1>4, <1>5 DEF LedgerStep

(* Once the money of a retainer moved, check 7 says the same for ever: a   *)
(* release on the topic is judged by the first anchors and by records that *)
(* do not change; one that is not there and that nobody has under way will *)
(* never be, because the network refuses a second `release`.               *)
THEOREM VerdictIsFinalHolds == Spec => VerdictIsFinal
<1>1. IInv /\ UnrecordedRead /\ UnrecordedRead' /\ AccountedRead /\ AccountedRead' /\ [Next]_vars =>
        [\A m \in Orders :
           /\ Accounted(m) => Accounted(m)' /\ Verdict(m)' = Verdict(m)
           /\ Unrecorded(m) => Unrecorded(m)' /\ Verdict(m)' = "fail"]_vars
  <2> SUFFICES ASSUME IInv, UnrecordedRead, UnrecordedRead', AccountedRead, AccountedRead',
                      [Next]_vars, NEW m \in Orders
               PROVE  /\ Accounted(m) => Accounted(m)' /\ Verdict(m)' = Verdict(m)
                      /\ Unrecorded(m) => Unrecorded(m)' /\ Verdict(m)' = "fail"
    OBVIOUS
  <2>1. AllSchedules' = AllSchedules
    BY DEF AllSchedules
  <2>2. ASSUME Unrecorded(m) PROVE Unrecorded(m)' /\ Verdict(m)' = "fail"
    <3>1. PICK k \in DOMAIN ledger, s \in AllSchedules : Lost(m, k, s)
      BY <2>2 DEF UnrecordedRead
    <3>2. k \in DOMAIN ledger' /\ Lost(m, k, s)'
      BY <3>1, LostStays
    <3>3. QED
      BY <2>1, <3>2 DEF UnrecordedRead
  <2>3. ASSUME Accounted(m) PROVE Accounted(m)' /\ Verdict(m)' = Verdict(m)
    <3>1. PICK k, l, i \in DOMAIN ledger, s, r \in AllSchedules : SettledAt(m, k, s, l, r, i)
      BY <2>3 DEF AccountedRead
    <3>2. /\ k \in DOMAIN ledger' /\ l \in DOMAIN ledger' /\ i \in DOMAIN ledger'
          /\ SettledAt(m, k, s, l, r, i)'
          /\ StandsAt(m, k, s, l, r, i)' <=> StandsAt(m, k, s, l, r, i)
      BY <3>1, SettledStays
    <3>3. Accounted(m)'
      BY <2>1, <3>2 DEF AccountedRead
    <3>4. Verdict(m) = IF StandsAt(m, k, s, l, r, i) THEN "pass" ELSE "fail"
      BY <3>1 DEF AccountedRead
    <3>5. Verdict(m)' = IF StandsAt(m, k, s, l, r, i)' THEN "pass" ELSE "fail"
      BY <2>1, <3>2 DEF AccountedRead
    <3>6. QED
      BY <3>2, <3>3, <3>4, <3>5
  <2>4. QED
    BY <2>2, <2>3
<1>2. QED
  BY <1>1, InvariantHolds, UnrecordedIs, AccountedIs, PTL DEF Spec, VerdictIsFinal

-----------------------------------------------------------------------------
(* The commands implement EscrowPromise: every step authorises, moves or   *)
(* lapses one authorisation, records one release, or changes neither.      *)
escrowed == <<[s \in AllSchedules |-> MoneyOf(s)],
              {s \in AllSchedules : \E m \in Orders : OnRecord(ReleasedAnchor(m, s))}>>

Recorded(s) == \E m \in Orders : OnRecord(ReleasedAnchor(m, s))

LEMMA Moves ==
  ASSUME NEW s \in AllSchedules, NEW from, NEW to,
         MoneyOf(s) = from, MoneyOf(s)' = to,
         \A t \in AllSchedules \ {s} : MoneyOf(t)' = MoneyOf(t),
         \A t \in AllSchedules : Recorded(t)' <=> Recorded(t)
  PROVE  Escrow!Become(s, from, to)
<1>1. AllSchedules' = AllSchedules
  BY DEF AllSchedules
<1>2. [t \in AllSchedules |-> MoneyOf(t)]'
        = [[t \in AllSchedules |-> MoneyOf(t)] EXCEPT ![s] = to]
  BY <1>1
<1>3. {t \in AllSchedules : \E m \in Orders : OnRecord(ReleasedAnchor(m, t))}'
        = {t \in AllSchedules : \E m \in Orders : OnRecord(ReleasedAnchor(m, t))}
  BY <1>1 DEF Recorded
<1>4. [t \in AllSchedules |-> MoneyOf(t)][s] = from
  OBVIOUS
<1>5. QED
  BY <1>2, <1>3, <1>4 DEF Escrow!Become

LEMMA Stays ==
  ASSUME \A t \in AllSchedules : MoneyOf(t)' = MoneyOf(t),
         \A t \in AllSchedules : Recorded(t)' <=> Recorded(t)
  PROVE  UNCHANGED escrowed
<1>1. AllSchedules' = AllSchedules
  BY DEF AllSchedules
<1>2. QED
  BY <1>1 DEF escrowed, Recorded

LEMMA RecordedIs ==
  ASSUME TypeOK, NEW e \in Entries, ledger' = Append(ledger, e), NEW t
  PROVE  Recorded(t)' <=> Recorded(t) \/ \E m \in Orders : e = ReleasedAnchor(m, t)
<1>1. \A x : OnRecord(x)' <=> OnRecord(x) \/ x = e
  BY FactsGrow
<1>2. \A m : ReleasedAnchor(m, t)' = ReleasedAnchor(m, t)
  BY DEF ReleasedAnchor
<1>3. QED
  BY <1>1, <1>2 DEF Recorded, ReleasedAnchor

LEMMA EscrowStep ==
  ASSUME IInv, [Next]_vars
  PROVE  Escrow!Next \/ UNCHANGED escrowed
<1>1. TypeOK /\ LedgerSound /\ LedgerStep
  BY StepForms DEF IInv
<1>2. \A s : Executed(s) => Created(s)
  BY <1>1, ExecutedIs DEF LedgerSound
<1>3. \A s \in lapsed : Created(s) /\ ~ Executed(s)
  BY <1>1 DEF LedgerSound
<1>4. ASSUME ledger' = ledger
      PROVE  /\ \A t : Created(t)' <=> Created(t)
             /\ \A t : Executed(t)' <=> Executed(t)
             /\ \A t : Recorded(t)' <=> Recorded(t)
  BY <1>4 DEF Created, Executed, Recorded, OnRecord, ReleasedAnchor
<1>5. CASE ledger' = ledger /\ lapsed' = lapsed
  BY <1>4, <1>5, Stays DEF MoneyOf
<1>6. ASSUME ledger' = ledger, NEW s \in Schedules, Pending(s), lapsed' = lapsed \cup {s}
      PROVE  Escrow!Next
  <2>1. s \in AllSchedules
    BY DEF AllSchedules
  <2>2. MoneyOf(s) = "held" /\ MoneyOf(s)' = "lapsed"
    BY <1>4, <1>6 DEF MoneyOf, Pending
  <2>3. \A t \in AllSchedules \ {s} : MoneyOf(t)' = MoneyOf(t)
    BY <1>4, <1>6 DEF MoneyOf
  <2>4. Escrow!Become(s, "held", "lapsed")
    BY <1>4, <1>6, <2>1, <2>2, <2>3, Moves
  <2>5. QED
    BY <2>1, <2>4 DEF Escrow!Next, Escrow!Lapse
<1>7. ASSUME NEW e \in Entries, ledger' = Append(ledger, e), lapsed' = lapsed, NewEntry(e)
      PROVE  Escrow!Next \/ UNCHANGED escrowed
  <2>1. /\ \A t : Created(t)' <=> Created(t) \/ (e.type = "schedule" /\ e.id = t)
        /\ \A t : Executed(t)' <=> Executed(t) \/ (e.type = "transfer" /\ e.id = t)
    BY <1>1, <1>7, FactsGrow
  <2>2. \A t : Recorded(t)' <=> Recorded(t) \/ \E m \in Orders : e = ReleasedAnchor(m, t)
    BY <1>1, <1>7, RecordedIs
  <2>3. e.type # "message" => \A m, t : e # ReleasedAnchor(m, t)
    BY DEF ReleasedAnchor, Message
  <2>4. CASE e.type = "schedule" /\ e.id \in Schedules /\ ~ Created(e.id)
    <3>1. e.id \in AllSchedules
      BY <2>4 DEF AllSchedules
    <3>2. ASSUME NEW s, s = e.id PROVE MoneyOf(s) = "none" /\ MoneyOf(s)' = "held"
      BY <1>2, <1>3, <1>7, <2>1, <2>4, <3>2 DEF MoneyOf
    <3>3. \A t \in AllSchedules \ {e.id} : MoneyOf(t)' = MoneyOf(t)
      BY <1>7, <2>1, <2>4 DEF MoneyOf
    <3>4. Escrow!Become(e.id, "none", "held")
      BY <2>2, <2>3, <2>4, <3>1, <3>2, <3>3, Moves
    <3>5. QED
      BY <3>1, <3>4 DEF Escrow!Next, Escrow!Authorise
  <2>5. CASE e.type = "transfer" /\ Pending(e.id)
    <3>1. e.id \in AllSchedules
      BY <2>5, TransferEntry
    <3>2. ASSUME NEW s, s = e.id PROVE MoneyOf(s) = "held" /\ MoneyOf(s)' = "paid"
      BY <1>7, <2>1, <2>5, <3>2 DEF MoneyOf, Pending
    <3>3. \A t \in AllSchedules \ {e.id} : MoneyOf(t)' = MoneyOf(t)
      BY <1>7, <2>1, <2>5 DEF MoneyOf
    <3>4. Escrow!Become(e.id, "held", "paid")
      BY <2>2, <2>3, <2>5, <3>1, <3>2, <3>3, Moves
    <3>5. QED
      BY <3>1, <3>4 DEF Escrow!Next, Escrow!Release
  <2>6. CASE e.type = "message"
    <3>1. \A t \in AllSchedules : MoneyOf(t)' = MoneyOf(t)
      BY <1>7, <2>1, <2>6 DEF MoneyOf
    <3>2. ASSUME NEW m \in Orders, NEW s \in AllSchedules, e = ReleasedAnchor(m, s)
          PROVE  Escrow!Next
      <4>1. Terms(s).payee = Agency /\ MoneyOf(s) = "paid"
        BY <1>7, <2>6, <3>2 DEF NewEntry, MoneyOf
      <4>2. \A t : (\E o \in Orders : e = ReleasedAnchor(o, t)) <=> t = s
        BY <3>2 DEF ReleasedAnchor, Message, Anchor
      <4>3. \A t : Recorded(t)' <=> Recorded(t) \/ t = s
        BY <2>2, <4>2
      <4>4. AllSchedules' = AllSchedules
        BY DEF AllSchedules
      <4>5. {t \in AllSchedules : \E o \in Orders : OnRecord(ReleasedAnchor(o, t))}'
              = {t \in AllSchedules : \E o \in Orders : OnRecord(ReleasedAnchor(o, t))} \cup {s}
        BY <4>3, <4>4 DEF Recorded
      <4>6. [t \in AllSchedules |-> MoneyOf(t)]' = [t \in AllSchedules |-> MoneyOf(t)]
        BY <3>1, <4>4
      <4>7. Escrow!Record(s)
        BY <4>1, <4>5, <4>6 DEF Escrow!Record
      <4>8. QED
        BY <4>7 DEF Escrow!Next
    <3>3. ASSUME \A m \in Orders : \A s \in AllSchedules : e # ReleasedAnchor(m, s)
          PROVE  UNCHANGED escrowed
      BY <2>2, <3>1, <3>3, Stays
    <3>4. QED
      BY <3>2, <3>3
  <2>7. QED
    BY <1>7, <2>4, <2>5, <2>6 DEF NewEntry
<1>8. QED
  BY <1>1, <1>5, <1>6, <1>7 DEF LedgerStep

LEMMA EscrowInit == Init => Escrow!Init
<1> SUFFICES ASSUME Init PROVE Escrow!Init
  OBVIOUS
<1>1. TypeOK /\ lapsed = {}
  BY InitIInv DEF IInv, Init
<1>2. \A i \in DOMAIN ledger : ledger[i].type \notin {"transfer", "message"}
  BY InitLedger
<1>3. \A s : ~ Executed(s)
  BY <1>1, <1>2, ExecutedIs
<1>4. \A s \in AllSchedules : ~ \E m \in Orders : OnRecord(ReleasedAnchor(m, s))
  BY <1>2 DEF OnRecord, ReleasedAnchor, Message
<1>5. \A s \in AllSchedules : MoneyOf(s) \in {"none", "held"}
  BY <1>1, <1>3 DEF MoneyOf
<1>6. QED
  BY <1>4, <1>5 DEF Escrow!Init

(* The retainer keeps the promise of an escrow.                            *)
THEOREM EscrowIsKept == Spec => EscrowKept
<1>1. Init => Escrow!Init
  BY EscrowInit
<1>2. IInv /\ [Next]_vars => [Escrow!Next]_(Escrow!vars)
  BY EscrowStep DEF escrowed, Escrow!vars
<1>3. QED
  BY <1>1, <1>2, InvariantHolds, PTL DEF Spec, EscrowKept, Escrow!Spec
=============================================================================
