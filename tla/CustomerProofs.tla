--------------------------- MODULE CustomerProofs ---------------------------
(***************************************************************************)
(* Proofs about the customer and the contractor it pays, for any number of *)
(* invocations, environments and faults.                                   *)
(***************************************************************************)
EXTENDS CustomerProperties, TLAPS

-----------------------------------------------------------------------------
(* Sequences of requests.                                                  *)

LEMMA RowDomain ==
  ASSUME NEW s, IsRow(s)
  PROVE  Len(s) \in Nat /\ DOMAIN s = 1..Len(s)
BY DEF IsRow

LEMMA RowAppend ==
  ASSUME NEW s, IsRow(s), NEW e
  PROVE  /\ IsRow(Append(s, e))
         /\ Len(Append(s, e)) = Len(s) + 1
         /\ DOMAIN Append(s, e) = 1..(Len(s) + 1)
         /\ \A k \in DOMAIN s : Append(s, e)[k] = s[k]
         /\ Append(s, e)[Len(s) + 1] = e
<1> DEFINE S == {s[k] : k \in DOMAIN s} \cup {e}
           t == Append(s, e)
<1>1. s \in Seq(S)
  BY DEF IsRow
<1>2. /\ t \in Seq(S) /\ Len(t) = Len(s) + 1 /\ DOMAIN t = 1..(Len(s) + 1)
      /\ \A k \in DOMAIN s : t[k] = s[k]
      /\ t[Len(s) + 1] = e
  BY <1>1
<1>3. t \in Seq({t[k] : k \in DOMAIN t})
  BY <1>2
<1>4. QED
  BY <1>2, <1>3 DEF IsRow

(* Another sequence over the same positions.                               *)
LEMMA RowOver ==
  ASSUME NEW s, IsRow(s), NEW t, t = [k \in DOMAIN s |-> t[k]]
  PROVE  IsRow(t) /\ Len(t) = Len(s) /\ DOMAIN t = DOMAIN s
<1>1. DOMAIN s = 1..Len(s) /\ Len(s) \in Nat
  BY RowDomain
<1>2. t = [k \in 1..Len(s) |-> t[k]]
  BY <1>1
<1>3. t \in Seq({t[k] : k \in 1..Len(s)})
  BY <1>1, <1>2
<1>4. DOMAIN t = 1..Len(s) /\ Len(t) = Len(s)
  BY <1>1, <1>2, <1>3
<1>5. QED
  BY <1>1, <1>3, <1>4 DEF IsRow

LEMMA RowExcept ==
  ASSUME NEW s, IsRow(s), NEW k \in DOMAIN s, NEW r
  PROVE  LET t == [s EXCEPT ![k] = r]
         IN  /\ IsRow(t) /\ Len(t) = Len(s) /\ DOMAIN t = DOMAIN s
             /\ t[k] = r
             /\ \A j \in DOMAIN s : j # k => t[j] = s[j]
<1> DEFINE t == [s EXCEPT ![k] = r]
<1>1. t = [j \in DOMAIN s |-> t[j]]
  BY DEF IsRow
<1>2. IsRow(t) /\ Len(t) = Len(s) /\ DOMAIN t = DOMAIN s
  BY <1>1, RowOver
<1>3. t[k] = r /\ \A j \in DOMAIN s : j # k => t[j] = s[j]
  OBVIOUS
<1>4. QED
  BY <1>2, <1>3

LEMMA RowEmpty == IsRow(<<>>) /\ Len(<<>>) = 0 /\ DOMAIN <<>> = {}
BY DEF IsRow

-----------------------------------------------------------------------------
(* What a step leaves of an invocation and of a request.                   *)

(* An invocation that only goes on.                                       *)
LEMMA GotoForm ==
  ASSUME NEW call, DOMAIN call = CallFields, NEW pc
  PROVE  LET new == [call EXCEPT !.pc = pc]
         IN  /\ DOMAIN new = CallFields
             /\ new.pc = pc
             /\ new.args = call.args /\ new.order = call.order /\ new.envelope = call.envelope
             /\ new.leg = call.leg /\ new.owned = call.owned /\ new.polls = call.polls
             /\ new.sent = call.sent /\ new.got = call.got /\ new.exit = call.exit
             /\ new.signed = call.signed
BY DEF CallFields

(* ... or has asked once more,                                            *)
LEMMA PolledForm ==
  ASSUME NEW call, DOMAIN call = CallFields, NEW polls
  PROVE  LET new == [call EXCEPT !.polls = polls]
         IN  /\ DOMAIN new = CallFields
             /\ new.polls = polls
             /\ new.pc = call.pc /\ new.args = call.args /\ new.order = call.order
             /\ new.envelope = call.envelope /\ new.leg = call.leg /\ new.owned = call.owned
             /\ new.sent = call.sent /\ new.got = call.got /\ new.exit = call.exit
             /\ new.signed = call.signed
BY DEF CallFields

(* ... has signed,                                                        *)
LEMMA SignedForm ==
  ASSUME NEW call, DOMAIN call = CallFields, NEW pc, NEW envelope
  PROVE  LET new == [call EXCEPT !.pc = pc, !.envelope = envelope]
         IN  /\ DOMAIN new = CallFields
             /\ new.pc = pc /\ new.envelope = envelope
             /\ new.args = call.args /\ new.order = call.order /\ new.leg = call.leg
             /\ new.owned = call.owned /\ new.polls = call.polls /\ new.sent = call.sent
             /\ new.got = call.got /\ new.exit = call.exit
             /\ new.signed = call.signed
BY DEF CallFields

(* ... has an answer,                                                     *)
LEMMA AnsweredForm ==
  ASSUME NEW call, DOMAIN call = CallFields, NEW pc, NEW got
  PROVE  LET new == [call EXCEPT !.pc = pc, !.got = got]
         IN  /\ DOMAIN new = CallFields
             /\ new.pc = pc /\ new.got = got
             /\ new.args = call.args /\ new.order = call.order /\ new.envelope = call.envelope
             /\ new.leg = call.leg /\ new.owned = call.owned /\ new.polls = call.polls
             /\ new.sent = call.sent /\ new.exit = call.exit
             /\ new.signed = call.signed
BY DEF CallFields

(* ... has sent a request,                                                *)
LEMMA AskedForm ==
  ASSUME NEW call, DOMAIN call = CallFields, NEW pc, NEW sent
  PROVE  LET new == [[call EXCEPT !.signed = @ + 1] EXCEPT !.pc = pc, !.sent = sent]
         IN  /\ DOMAIN new = CallFields
             /\ new.pc = pc /\ new.sent = sent /\ new.signed = call.signed + 1
             /\ new.args = call.args /\ new.order = call.order /\ new.envelope = call.envelope
             /\ new.leg = call.leg /\ new.owned = call.owned /\ new.polls = call.polls
             /\ new.got = call.got /\ new.exit = call.exit
BY DEF CallFields

(* ... is served,                                                         *)
LEMMA ServedForm ==
  ASSUME NEW call, DOMAIN call = CallFields, NEW sent
  PROVE  LET new == [call EXCEPT !.sent = sent]
         IN  /\ DOMAIN new = CallFields
             /\ new.sent = sent
             /\ new.pc = call.pc /\ new.args = call.args /\ new.order = call.order
             /\ new.envelope = call.envelope /\ new.leg = call.leg /\ new.owned = call.owned
             /\ new.polls = call.polls /\ new.got = call.got /\ new.exit = call.exit
             /\ new.signed = call.signed
BY DEF CallFields

(* ... or turns to the balance.                                           *)
LEMMA TurnedForm ==
  ASSUME NEW call, DOMAIN call = CallFields, NEW pc, NEW leg
  PROVE  LET new == [call EXCEPT !.pc = pc, !.leg = leg]
         IN  /\ DOMAIN new = CallFields
             /\ new.pc = pc /\ new.leg = leg
             /\ new.args = call.args /\ new.order = call.order /\ new.envelope = call.envelope
             /\ new.owned = call.owned /\ new.polls = call.polls /\ new.sent = call.sent
             /\ new.got = call.got /\ new.exit = call.exit
             /\ new.signed = call.signed
BY DEF CallFields

(* What is left when it has ended.                                        *)
LEMMA EndedForm ==
  ASSUME NEW call, DOMAIN call = CallFields, NEW code, NEW sent
  PROVE  LET new == [call EXCEPT !.pc = "ended", !.got = {}, !.polls = 0, !.signed = 0, !.exit = code,
                               !.sent = sent]
         IN  /\ DOMAIN new = CallFields
             /\ new.pc = "ended" /\ new.polls = 0 /\ new.signed = 0 /\ new.sent = sent
             /\ new.got = {} /\ new.exit = code
             /\ new.args = call.args /\ new.order = call.order /\ new.envelope = call.envelope
             /\ new.leg = call.leg /\ new.owned = call.owned
BY DEF CallFields

LEMMA NewForm ==
  ASSUME NEW i, NEW m
  PROVE  /\ DOMAIN NewCall(i, m) = CallFields
         /\ NewCall(i, m).pc = FirstStep(i.verb) /\ NewCall(i, m).args = i
         /\ NewCall(i, m).order = m /\ NewCall(i, m).envelope = {}
         /\ NewCall(i, m).leg = IF i.verb = "collect" THEN "balance" ELSE "intake"
         /\ NewCall(i, m).owned = Collectable(m) /\ NewCall(i, m).polls = MaxPolls
         /\ NewCall(i, m).signed = 0
         /\ NewCall(i, m).sent = <<>> /\ NewCall(i, m).got = {} /\ NewCall(i, m).exit = 0
BY DEF NewCall, CallFields

(* A request that is as it was, or over; nobody claims or takes anything.  *)
Fades(r, q) ==
  /\ RequestForm(q)
  /\ q.header = r.header /\ q.leg = r.leg /\ q.took = r.took
  /\ \/ q = r
     \/ /\ Over(q)
        /\ (q.answer = r.answer /\ q.age = r.age) \/ q.answer = NoAnswer

FadesAll(s, t) ==
  /\ IsRow(t) /\ Len(t) <= Len(s)
  /\ DOMAIN t \subseteq DOMAIN s
  /\ \A k \in DOMAIN t : Fades(s[k], t[k])

LEMMA FadesOnce ==
  ASSUME NEW r, RequestForm(r)
  PROVE  Fades(r, r) /\ Fades(r, Left(r)) /\ Fades(r, Dead(r))
<1>1. Fades(r, r)
  BY DEF Fades
<1>2. Fades(r, Left(r))
  <2>1. CASE Over(r)
    <3>1. Left(r) = [r EXCEPT !.stage = "dead", !.age = 0, !.answer = NoAnswer]
      BY <2>1 DEF Left
    <3>2. RequestForm(Left(r))
      BY <3>1, TtlAssumption DEF RequestForm, RequestFields
    <3>3. QED
      BY <3>1, <3>2 DEF Fades, Over, RequestForm, RequestFields
  <2>2. CASE ~ Over(r)
    BY <2>2, <1>1 DEF Left
  <2>3. QED
    BY <2>1, <2>2
<1>3. Fades(r, Dead(r))
  <2>1. CASE r.stage # "answered"
    <3>1. Dead(r) = [r EXCEPT !.stage = "dead"]
      BY <2>1 DEF Dead
    <3>2. RequestForm(Dead(r))
      BY <3>1 DEF RequestForm, RequestFields
    <3>3. QED
      BY <3>1, <3>2 DEF Fades, Over, RequestForm, RequestFields
  <2>2. CASE r.stage = "answered"
    BY <2>2, <1>1 DEF Dead
  <2>3. QED
    BY <2>1, <2>2
<1>4. QED
  BY <1>1, <1>2, <1>3

LEMMA FadesTwice ==
  ASSUME NEW r, NEW q, NEW p, Fades(r, q), Fades(q, p)
  PROVE  Fades(r, p)
BY DEF Fades

LEMMA LeftFades ==
  ASSUME NEW s, IsRow(s), \A k \in DOMAIN s : RequestForm(s[k])
  PROVE  /\ FadesAll(s, LeftOf(s))
         /\ s = <<>> => LeftOf(s) = <<>>
<1>1. CASE \A k \in DOMAIN s : Over(s[k])
  BY <1>1, RowEmpty, RowDomain DEF LeftOf, FadesAll
<1>2. CASE ~ \A k \in DOMAIN s : Over(s[k])
  <2> DEFINE t == [k \in DOMAIN s |-> Left(s[k])]
  <2>1. LeftOf(s) = t
    BY <1>2 DEF LeftOf
  <2>2. IsRow(t) /\ Len(t) = Len(s) /\ DOMAIN t = DOMAIN s
    BY RowOver
  <2>3. \A k \in DOMAIN s : Fades(s[k], t[k])
    BY FadesOnce
  <2>4. s # <<>>
    BY <1>2, RowEmpty
  <2>5. Len(t) <= Len(s)
    BY <2>2, RowDomain
  <2>6. QED
    BY <2>1, <2>2, <2>3, <2>4, <2>5 DEF FadesAll
<1>3. QED
  BY <1>1, <1>2

LEMMA CutFades ==
  ASSUME NEW s, IsRow(s), \A k \in DOMAIN s : RequestForm(s[k])
  PROVE  LET t == [k \in DOMAIN s |-> Dead(s[k])]
         IN  FadesAll(s, t) /\ (s = <<>> => t = <<>>)
             /\ \A k \in DOMAIN t : Over(t[k])
<1> DEFINE t == [k \in DOMAIN s |-> Dead(s[k])]
<1>1. IsRow(t) /\ Len(t) = Len(s) /\ DOMAIN t = DOMAIN s
  BY RowOver
<1>2. \A k \in DOMAIN s : Fades(s[k], t[k]) /\ t[k] = Dead(s[k])
  BY FadesOnce
<1>3. s = <<>> => t = <<>>
  BY RowEmpty
<1>4. \A k \in DOMAIN t : Over(t[k])
  BY <1>1, <1>2 DEF Dead, Over, RequestForm, RequestFields
<1>5. Len(t) <= Len(s)
  BY <1>1, RowDomain
<1>6. QED
  BY <1>1, <1>2, <1>3, <1>4, <1>5 DEF FadesAll

-----------------------------------------------------------------------------
(* What a step leaves of the invariant.                                    *)

(* A settlement that can still be claimed stays.                           *)
KeepsFor(h) ==
  h \in DOMAIN registry /\ registry[h].age <= Ttl =>
    h \in DOMAIN registry' /\ registry'[h].age = registry[h].age

(* What a step leaves alone or only adds to.                               *)
Grows ==
  /\ config' = config
  /\ known \subseteq known'
  /\ ledger \subseteq ledger'
  /\ faults \in Nat /\ faults' \in Nat /\ faults <= faults'
  /\ \A m \in Orders : Collectable(m) => Collectable(m)'

LEMMA RequestFades ==
  ASSUME NEW c, NEW r, NEW q, RequestForm(r), RequestSound(c, r), Fades(r, q), Grows,
         q.stage = "claim" => KeepsFor(r.header),
         q.leg = "intake" /\ q.stage \in {"claim", "work"} /\ jobs[c] = {} => jobs'[c] = {},
         TypeOK
  PROVE  RequestSound(c, q)'
<1>1. /\ q.header.by = c /\ q.header.leg = q.leg
      /\ config'.service # {}
      /\ Holds(q) => q.header \in ledger'
      /\ q.stage = "work" => q.took # {}
      /\ \A p \in q.took : p.tx = q.header
      /\ q.stage \in {"guard", "gate"} => q.age = 0
  BY DEF RequestSound, Fades, Grows, Holds, Over
<1>2. q.answer.status = 500 => q.age > Ttl
  BY DEF RequestSound, Fades, NoAnswer, Answer
<1>3. q.leg = "intake" => q.answer.status \notin {200, 422}
  BY DEF RequestSound, Fades, NoAnswer, Answer
<1>4. q.leg = "intake" => (q.stage \in {"claim", "work"} => jobs'[c] = {})
  BY DEF RequestSound, Fades, Over
<1>5. q.stage = "claim" =>
       q.age > Ttl \/ (q.header \in DOMAIN registry' /\ registry'[q.header].age <= q.age)
  <2>1. SUFFICES ASSUME q.stage = "claim", ~ (q.age > Ttl)
                 PROVE  q.header \in DOMAIN registry' /\ registry'[q.header].age <= q.age
    OBVIOUS
  <2>2. q = r
    BY <2>1 DEF Fades, Over
  <2>3. r.header \in DOMAIN registry /\ registry[r.header].age <= r.age
    BY <2>1, <2>2 DEF RequestSound
  <2>4. registry[r.header].age \in Nat /\ r.age \in Nat /\ Ttl \in Nat
    BY <2>3, TtlAssumption DEF TypeOK, RequestForm
  <2>5. registry[r.header].age <= Ttl
    BY <2>1, <2>2, <2>3, <2>4
  <2>6. QED
    BY <2>1, <2>2, <2>3, <2>5 DEF KeepsFor
<1>6. QED
  BY <1>1, <1>2, <1>3, <1>4, <1>5 DEF RequestSound

LEMMA RequestsFade ==
  ASSUME NEW c, NEW call, NEW new, CallForm(call), RequestsSound(c, call),
         FadesAll(call.sent, new.sent), new.args = call.args, new.envelope = call.envelope,
         Grows, jobs[c] = {} => jobs'[c] = {}, TypeOK,
         \A k \in DOMAIN new.sent : new.sent[k].stage = "claim" => KeepsFor(call.sent[k].header)
  PROVE  RequestsSound(c, new)'
<1>1. ASSUME NEW k \in DOMAIN new.sent
      PROVE  /\ RequestSound(c, new.sent[k])'
             /\ new.sent[k].leg = "intake" => new.args.verb # "collect" /\ new.envelope # {}
  <2>1. k \in DOMAIN call.sent /\ Fades(call.sent[k], new.sent[k])
    BY DEF FadesAll
  <2>2. RequestSound(c, call.sent[k]) /\ RequestForm(call.sent[k])
    BY <2>1 DEF RequestsSound, CallForm
  <2>3. RequestSound(c, new.sent[k])'
    BY <2>1, <2>2, RequestFades
  <2>4. QED
    BY <2>1, <2>3 DEF RequestsSound, Fades
<1>2. ASSUME NEW j \in DOMAIN new.sent, NEW k \in DOMAIN new.sent,
             Holds(new.sent[j]), Holds(new.sent[k]), new.sent[j].leg = new.sent[k].leg
      PROVE  j = k
  <2>1. /\ j \in DOMAIN call.sent /\ Fades(call.sent[j], new.sent[j])
        /\ k \in DOMAIN call.sent /\ Fades(call.sent[k], new.sent[k])
    BY DEF FadesAll
  <2>2. Holds(call.sent[j]) /\ Holds(call.sent[k])
    BY <2>1, <1>2 DEF Holds, Fades, Over
  <2>3. call.sent[j].leg = call.sent[k].leg
    BY <2>1, <1>2 DEF Fades
  <2>4. QED
    BY <2>1, <2>2, <2>3 DEF RequestsSound
<1>3. QED
  BY <1>1, <1>2 DEF RequestsSound

(* What is sent of a leg later on carries what was sent of it before.      *)
Carries(s, t) ==
  \A k \in DOMAIN t : \E j \in DOMAIN s : t[k].leg = s[j].leg /\ t[k].header = s[j].header

LEMMA FadesCarries ==
  ASSUME NEW s, NEW t, FadesAll(s, t)
  PROVE  Carries(s, t)
BY DEF FadesAll, Fades, Carries

(* The money that moves for an invocation: what one of its requests        *)
(* carries, or the leg that it asks for now.                               *)
Spends(c, call, new) ==
  \A t \in ledger' :
    \/ t \in ledger \/ t.by # c
    \/ \E k \in DOMAIN call.sent : t = call.sent[k].header /\ t.leg = call.sent[k].leg
    \/ /\ call.pc = "ask" /\ t.leg = call.leg
       /\ new.pc \in {"save", "ended"} /\ new.leg = call.leg

LEMMA SpendingStays ==
  ASSUME NEW c, NEW call, SpendingSound(c, call), NEW new, Carries(call.sent, new.sent),
         Spends(c, call, new),
         new.leg = "intake" => call.leg = "intake",
         new.pc \in {"gate", "sign", "ask"} =>
           \/ call.leg = "intake" /\ new.leg = "balance"
           \/ call.pc \in {"gate", "sign", "ask"} /\ new.leg = call.leg
  PROVE  SpendingSound(c, new)'
<1>1. ASSUME NEW leg, Unpaid(c, call, leg),
             new.pc \in {"save", "ended"} /\ new.leg = call.leg => leg # call.leg \/ call.pc # "ask"
      PROVE  Unpaid(c, new, leg)'
  <2>1. ASSUME NEW t \in ledger', t.by = c
        PROVE  t.leg # leg
    BY <1>1, <2>1 DEF Spends, Unpaid
  <2>2. \A k \in DOMAIN new.sent : new.sent[k].leg # leg
    BY <1>1 DEF Carries, Unpaid
  <2>3. QED
    BY <2>1, <2>2 DEF Unpaid
<1>2. ASSUME new.pc \in {"gate", "sign", "ask"}
      PROVE  Unpaid(c, new, new.leg)'
  <2>1. Unpaid(c, call, new.leg)
    BY <1>2 DEF SpendingSound
  <2>2. QED
    BY <1>1, <1>2, <2>1
<1>3. ASSUME new.leg = "intake"
      PROVE  Unpaid(c, new, "balance")'
  <2>1. Unpaid(c, call, "balance") /\ call.leg = "intake"
    BY <1>3 DEF SpendingSound
  <2>2. QED
    BY <1>1, <2>1
<1>4. ASSUME NEW k \in DOMAIN new.sent, NEW j \in DOMAIN new.sent, new.sent[j].leg = new.sent[k].leg
      PROVE  new.sent[j].header = new.sent[k].header
  BY <1>4 DEF Carries, SpendingSound
<1>5. ASSUME NEW k \in DOMAIN new.sent, NEW t \in ledger', t.by = c, t.leg = new.sent[k].leg
      PROVE  t = new.sent[k].header
  <2>1. PICK j \in DOMAIN call.sent :
          new.sent[k].leg = call.sent[j].leg /\ new.sent[k].header = call.sent[j].header
    BY DEF Carries
  <2>2. CASE t \in ledger
    BY <1>5, <2>1, <2>2 DEF SpendingSound
  <2>3. CASE \E i \in DOMAIN call.sent : t = call.sent[i].header /\ t.leg = call.sent[i].leg
    BY <1>5, <2>1, <2>3 DEF SpendingSound
  <2>4. CASE call.pc = "ask" /\ t.leg = call.leg
    BY <1>5, <2>1, <2>4 DEF SpendingSound, Unpaid
  <2>5. QED
    BY <1>5, <2>2, <2>3, <2>4 DEF Spends
<1>6. QED
  BY <1>2, <1>3, <1>4, <1>5 DEF SpendingSound

LEMMA RowNone ==
  ASSUME NEW t, IsRow(t), Len(t) = 0
  PROVE  t = <<>>
BY DEF IsRow

(* An invocation whose requests are as they were, or over.                 *)
LEMMA CallFades ==
  ASSUME TypeOK, Grows, NEW c \in Calls, NEW call, CallForm(call), CallSound(c, call), NEW new,
         new.args = call.args, new.order = call.order, new.leg \in {"intake", "balance"},
         new.envelope = call.envelope, new.owned = call.owned,
         FadesAll(call.sent, new.sent),
         jobs[c] = {} => jobs'[c] = {},
         \A k \in DOMAIN new.sent : new.sent[k].stage = "claim" => KeepsFor(call.sent[k].header),
         StepSound(c, new), AnswerSound(c, new)', Spends(c, call, new),
         new.leg = "intake" => call.leg = "intake",
         new.pc = "ask" => call.leg = "intake" \/ call.pc = "ask",
         new.leg = "intake" /\ new.pc \in {"gate", "sign", "ask"} =>
           call.leg = "intake" /\ call.pc \in {"gate", "sign", "ask"},
         new.args.verb = "collect" /\ new.args.base = "contractor" /\ new.owned =>
           new.pc \in {"ask", "save", "ended"} /\ new.exit # 1 /\ \A t \in ledger' : t.by # c
  PROVE  CallSound(c, new)'
<1>1. EnvelopeSound(c, new)'
  BY DEF CallSound, EnvelopeSound, Grows
<1>2. SendingSound(new)'
  <2>1. Len(new.sent) <= Len(call.sent) /\ Len(new.sent) \in Nat /\ Len(call.sent) \in Nat
    BY RowDomain DEF FadesAll, CallForm
  <2>2. call.sent = <<>> => new.sent = <<>>
    BY <2>1, RowNone, RowEmpty DEF FadesAll
  <2>3. SendingSound(call)
    BY DEF CallSound
  <2>4. QED
    BY <2>1, <2>2, <2>3 DEF SendingSound, Grows
<1>3. OwnedSound(c, new)'
  <2>1. SUFFICES ASSUME new.args.verb = "collect", new.args.base = "contractor", new.owned
                 PROVE  Collectable(new.order)' /\ new.sent = <<>>
    BY DEF OwnedSound
  <2>2. Collectable(call.order) /\ call.sent = <<>>
    BY <2>1 DEF CallSound, OwnedSound
  <2>3. new.sent = <<>>
    BY <2>2, RowEmpty, RowNone, RowDomain DEF FadesAll
  <2>4. QED
    BY <2>2, <2>3 DEF Grows, CallForm
<1>4. RequestsSound(c, new)'
  BY RequestsFade DEF CallSound
<1>5. StepSound(c, new)'
  BY DEF StepSound
<1>6. SpendingSound(c, new)'
  <2>1. Carries(call.sent, new.sent) /\ SpendingSound(c, call)
    BY FadesCarries DEF CallSound
  <2>2. ASSUME new.pc \in {"gate", "sign", "ask"}
        PROVE  \/ call.leg = "intake" /\ new.leg = "balance"
               \/ call.pc \in {"gate", "sign", "ask"} /\ new.leg = call.leg
    <3>1. CASE new.leg = "intake"
      BY <2>2, <3>1
    <3>2. CASE new.leg # "intake"
      <4>1. new.pc = "ask" /\ new.leg = "balance"
        BY <2>2, <3>2 DEF StepSound
      <4>2. QED
        BY <4>1 DEF CallForm
    <3>3. QED
      BY <3>1, <3>2
  <2>3. QED
    BY <2>1, <2>2, SpendingStays
<1>7. QED
  BY <1>1, <1>2, <1>3, <1>4, <1>5, <1>6 DEF CallSound

LEMMA FadesAllSelf ==
  ASSUME NEW call, CallForm(call)
  PROVE  FadesAll(call.sent, call.sent)
BY FadesOnce, RowDomain DEF CallForm, FadesAll

(* Nothing that an invocation which takes no step relies on is disturbed.  *)
Undisturbed(d) ==
  /\ files'[d].mandate = files[d].mandate /\ files'[d].accepted = files[d].accepted
  /\ jobs[d] = {} => jobs'[d] = {}
  /\ \A t \in ledger' : t \in ledger \/ t.by # d
  /\ \A k \in DOMAIN calls[d].sent :
       calls[d].sent[k].stage = "claim" => KeepsFor(calls[d].sent[k].header)

LEMMA CallStays ==
  ASSUME TypeOK, CallsSound, Grows, NEW d \in Calls, calls[d].pc # "off",
         Undisturbed(d), calls'[d] = calls[d]
  PROVE  CallSound(d, calls[d])'
<1> DEFINE call == calls[d]
<1>1. CallForm(call) /\ CallSound(d, call)
  BY DEF TypeOK, CallsSound
<1>2. AnswerSound(d, call) /\ StepSound(d, call) /\ OwnedSound(d, call)
  BY <1>1 DEF CallSound
<1>3. \A x : x = call => AnswerSound(d, x)'
  BY <1>2 DEF AnswerSound, Undisturbed
<1>4. FadesAll(call.sent, call.sent)
  BY <1>1, FadesAllSelf
<1>5. ASSUME NEW x, x = call
      PROVE  CallSound(d, x)'
  <2>1. x.args.verb = "collect" /\ x.args.base = "contractor" /\ x.owned =>
           x.pc \in {"ask", "save", "ended"} /\ x.exit # 1 /\ \A t \in ledger' : t.by # d
    BY <1>2, <1>5 DEF OwnedSound, Undisturbed
  <2>2. AnswerSound(d, x)' /\ StepSound(d, x)
    BY <1>2, <1>3, <1>5
  <2>3. \A k \in DOMAIN x.sent : x.sent[k].stage = "claim" => KeepsFor(x.sent[k].header)
    BY <1>5 DEF Undisturbed
  <2>4. CallForm(x) /\ CallSound(d, x) /\ FadesAll(x.sent, x.sent)
    BY <1>1, <1>4, <1>5
  <2>5. /\ jobs[d] = {} => jobs'[d] = {}
        /\ Spends(d, x, x)
    BY DEF Undisturbed, Spends
  <2>6. x.leg \in {"intake", "balance"}
    BY <2>4 DEF CallForm
  <2>7. QED
    BY <2>1, <2>2, <2>3, <2>4, <2>5, <2>6, CallFades
<1>6. QED
  BY <1>5

(* One invocation moves.                                                   *)
LEMMA Moved ==
  ASSUME TypeOK, NEW c \in Calls, NEW new, Becomes(c, new)
  PROVE  /\ calls' = [d \in Calls |-> calls'[d]]
         /\ calls'[c] = new
         /\ \A d \in Calls : d # c => calls'[d] = calls[d]
BY DEF TypeOK, Becomes

LEMMA CallMoves ==
  ASSUME TypeOK, CallsSound, Grows, NEW c \in Calls, NEW new, Becomes(c, new),
         CallSound(c, new)',
         \A d \in Calls : d # c /\ calls[d].pc # "off" => Undisturbed(d)
  PROVE  CallsSound'
<1>1. calls'[c] = new /\ \A d \in Calls : d # c => calls'[d] = calls[d]
  BY Moved
<1>2. CallSound(c, calls[c])'
  BY <1>1
<1>3. ASSUME NEW d \in Calls, d # c, calls[d].pc # "off"
      PROVE  CallSound(d, calls[d])'
  BY <1>1, <1>3, CallStays
<1>4. QED
  BY <1>1, <1>2, <1>3 DEF CallsSound

(* No invocation is undone, and what was signed stays.                     *)
StartedStays ==
  \A d \in Started : d \in Started' /\ (calls[d].envelope # {} => calls'[d].envelope # {})

LEMMA StartedMoves ==
  ASSUME TypeOK, NEW c \in Calls, NEW new, Becomes(c, new), new.pc # "off",
         calls[c].pc # "off" /\ calls[c].envelope # {} => new.envelope # {}
  PROVE  StartedStays
BY Moved DEF StartedStays, Started

LEMMA LedgerStays ==
  ASSUME LedgerSound, StartedStays, ledger' = ledger
  PROVE  LedgerSound'
BY DEF LedgerSound, ChargedOnce, StartedStays

LEMMA LedgerAdds ==
  ASSUME LedgerSound, StartedStays, NEW t, ledger' = ledger \cup {t},
         t.by \in Started', \A u \in ledger : u.by = t.by => u.leg # t.leg,
         t.leg = "intake" => calls'[t.by].envelope # {}
  PROVE  LedgerSound'
BY DEF LedgerSound, ChargedOnce, StartedStays

LEMMA JobsStay ==
  ASSUME JobsSound, Grows, jobs' = jobs
  PROVE  JobsSound'
BY DEF JobsSound, Grows

LEMMA FilesStay ==
  ASSUME FilesSound, StartedStays, files' = files
  PROVE  FilesSound'
BY DEF FilesSound, FiledUnderItsOrder, StartedStays

LEMMA TypeMoves ==
  ASSUME TypeOK, NEW c \in Calls, NEW new, Becomes(c, new), CallForm(new),
         synced' \in BOOLEAN, registry' = registry, jobs' = jobs, files' = files,
         known' \subseteq Calls, faults' \in 0..MaxFaults
  PROVE  TypeOK'
<1>1. /\ calls' = [d \in Calls |-> calls'[d]]
      /\ calls'[c] = new
      /\ \A d \in Calls : d # c => calls'[d] = calls[d]
  BY Moved
<1>2. \A d \in Calls : calls'[d].pc # "off" => CallForm(calls'[d])
  BY <1>1 DEF TypeOK
<1>3. QED
  BY <1>1, <1>2 DEF TypeOK

(* A step in which one invocation goes on and the rest of the world stays. *)
LEMMA QuietStep ==
  ASSUME IInv, NEW c \in Calls, NEW new, Becomes(c, new), CallForm(new), CallSound(c, new)',
         calls[c].pc # "off" /\ calls[c].envelope # {} => new.envelope # {},
         UNCHANGED <<config, service, ledger, files>>,
         known \subseteq known', known' \subseteq Calls,
         faults <= faults', faults' \in 0..MaxFaults
  PROVE  IInv'
<1>1. Grows
  BY BoundsAssumption DEF Grows, Collectable, service, IInv, TypeOK
<1>2. StartedStays
  BY StartedMoves DEF IInv, CallForm
<1>3. \A d \in Calls : Undisturbed(d)
  BY DEF Undisturbed, KeepsFor, service
<1>4. CallsSound'
  BY <1>1, <1>3, CallMoves DEF IInv
<1>5. TypeOK'
  BY TypeMoves DEF service, IInv, TypeOK
<1>6. ConfigSound' /\ RegistrySound' /\ LedgerSound' /\ JobsSound' /\ FilesSound'
  BY <1>1, <1>2, LedgerStays, JobsStay, FilesStay DEF IInv, ConfigSound, RegistrySound, service
<1>7. QED
  BY <1>4, <1>5, <1>6 DEF IInv

LEMMA EndForm ==
  ASSUME NEW call, CallForm(call), NEW code \in {0, 1, Killed}
  PROVE  LET new == Ended(call, code)
         IN  /\ CallForm(new) /\ new.pc = "ended" /\ new.exit = code
             /\ FadesAll(call.sent, new.sent)
             /\ new.args = call.args /\ new.order = call.order /\ new.leg = call.leg
             /\ new.envelope = call.envelope /\ new.owned = call.owned
             /\ \A k \in DOMAIN new.sent : new.sent[k].stage = "claim" => call.sent[k].stage = "claim"
<1> DEFINE new == Ended(call, code)
<1>1. /\ DOMAIN new = CallFields
      /\ new.pc = "ended" /\ new.exit = code /\ new.polls = 0 /\ new.signed = 0
      /\ new.sent = LeftOf(call.sent)
      /\ new.args = call.args /\ new.order = call.order /\ new.leg = call.leg
      /\ new.envelope = call.envelope /\ new.owned = call.owned
  BY EndedForm DEF CallForm, Ended
<1>2. FadesAll(call.sent, new.sent)
  BY <1>1, LeftFades DEF CallForm
<1>3. \A k \in DOMAIN new.sent :
        RequestForm(new.sent[k]) /\ (new.sent[k].stage = "claim" => call.sent[k].stage = "claim")
  BY <1>2 DEF FadesAll, Fades, Over
<1>4. CallForm(new)
  BY <1>1, <1>2, <1>3, BoundsAssumption DEF CallForm, FadesAll
<1>5. QED
  BY <1>1, <1>2, <1>3, <1>4

(* An invocation may end at any moment.                                    *)
LEMMA EndSound ==
  ASSUME TypeOK, Grows, NEW c \in Calls, NEW call, CallForm(call), CallSound(c, call),
         NEW code \in {0, 1, Killed},
         jobs[c] = {} => jobs'[c] = {},
         \A t \in ledger' : t \in ledger \/ t.by # c \/ (call.pc = "ask" /\ t.leg = call.leg),
         \A k \in DOMAIN call.sent : call.sent[k].stage = "claim" => KeepsFor(call.sent[k].header),
         call.args.verb = "collect" /\ call.args.base = "contractor" /\ call.owned =>
           code # 1 /\ \A t \in ledger' : t.by # c
  PROVE  CallSound(c, Ended(call, code))'
<1>1. PICK new : new = Ended(call, code)
  OBVIOUS
<1>2. /\ CallForm(new) /\ new.pc = "ended" /\ new.exit = code
      /\ FadesAll(call.sent, new.sent)
      /\ new.args = call.args /\ new.order = call.order /\ new.leg = call.leg
      /\ new.envelope = call.envelope /\ new.owned = call.owned
      /\ \A k \in DOMAIN new.sent : new.sent[k].stage = "claim" => call.sent[k].stage = "claim"
  BY <1>1, EndForm
<1>3. StepSound(c, new)
  BY <1>2 DEF CallSound, StepSound
<1>4. AnswerSound(c, new)'
  BY <1>2 DEF AnswerSound
<1>5. \A k \in DOMAIN new.sent : new.sent[k].stage = "claim" => KeepsFor(call.sent[k].header)
  BY <1>2 DEF FadesAll
<1>6. Spends(c, call, new) /\ new.leg \in {"intake", "balance"}
  BY <1>2 DEF Spends, CallForm
<1>7. CallSound(c, new)'
  BY <1>2, <1>3, <1>4, <1>5, <1>6, CallFades
<1>8. QED
  BY <1>1, <1>7 DEF Ended, LeftOf, Left, Over

LEMMA EndStep ==
  ASSUME IInv, NEW c \in Calls, calls[c].pc # "off", NEW code \in {0, 1, Killed}, End(c, code),
         UNCHANGED <<config, service, ledger, files>>,
         known \subseteq known', known' \subseteq Calls,
         faults <= faults', faults' \in 0..MaxFaults,
         calls[c].args.verb = "collect" /\ calls[c].args.base = "contractor" /\ calls[c].owned =>
           code # 1
  PROVE  IInv'
<1> DEFINE call == calls[c]
           new == Ended(call, code)
<1>1. CallForm(call) /\ CallSound(c, call) /\ TypeOK
  BY DEF IInv, TypeOK, CallsSound
<1>2. Grows
  BY BoundsAssumption DEF Grows, Collectable, service, IInv, TypeOK
<1>3. OwnedSound(c, call)
  BY <1>1 DEF CallSound
<1>4. PICK old : old = call
  OBVIOUS
<1>5. CallSound(c, Ended(old, code))'
  <2>1. CallForm(old) /\ CallSound(c, old)
    BY <1>1, <1>4
  <2>2. jobs[c] = {} => jobs'[c] = {}
    BY DEF service
  <2>3. \A k \in DOMAIN old.sent : old.sent[k].stage = "claim" => KeepsFor(old.sent[k].header)
    BY DEF service, KeepsFor
  <2>4. old.args.verb = "collect" /\ old.args.base = "contractor" /\ old.owned =>
           code # 1 /\ \A t \in ledger' : t.by # c
    BY <1>3, <1>4 DEF OwnedSound
  <2>5. QED
    BY <1>1, <1>2, <2>1, <2>2, <2>3, <2>4, EndSound
<1>6. PICK n : n = Ended(old, code)
  OBVIOUS
<1>7. CallForm(n) /\ n.envelope = call.envelope /\ Becomes(c, n) /\ CallSound(c, n)'
  BY <1>1, <1>4, <1>5, <1>6, EndForm DEF End
<1>8. QED
  BY <1>7, QuietStep

-----------------------------------------------------------------------------
(* The invocations.                                                        *)

LEMMA ThrowStep ==
  ASSUME IInv, NEW c \in Calls, Throw(c)
  PROVE  IInv'
<1>1. calls[c].pc # "off" /\ End(c, Killed)
  BY DEF Throw, Running
<1>2. Killed # 1
  BY DEF Killed
<1>3. UNCHANGED <<config, service, ledger, known, files, faults>>
  BY DEF Throw
<1>4. known \subseteq Calls /\ faults \in 0..MaxFaults /\ faults <= faults
  BY BoundsAssumption DEF IInv, TypeOK
<1>5. QED
  BY <1>1, <1>2, <1>3, <1>4, EndStep

LEMMA MisconfiguredStep ==
  ASSUME IInv, NEW c \in Calls, Misconfigured(c)
  PROVE  IInv'
<1>1. calls[c].pc = "refused" /\ End(c, 1)
      /\ UNCHANGED <<config, service, ledger, known, files, faults>>
  BY DEF Misconfigured
<1>2. known \subseteq Calls /\ faults \in 0..MaxFaults /\ faults <= faults
  BY BoundsAssumption DEF IInv, TypeOK
<1>3. ~ (calls[c].args.verb = "collect" /\ calls[c].args.base = "contractor" /\ calls[c].owned)
  BY <1>1 DEF IInv, CallsSound, CallSound, OwnedSound
<1>4. QED
  BY <1>1, <1>2, <1>3, EndStep

LEMMA StartStep ==
  ASSUME IInv, NEW c \in Calls, NEW i \in Invocations, NEW m \in Orders, Start(c, i, m)
  PROVE  IInv'
<1>1. PICK new : new = NewCall(i, m)
  OBVIOUS
<1>2. /\ calls[c].pc = "off"
      /\ IF i.verb = "collect" THEN m \in known \cup {0} ELSE m = c
      /\ Becomes(c, new)
      /\ UNCHANGED <<config, service, ledger, known, files, faults>>
  BY <1>1 DEF Start
<1>3. /\ DOMAIN new = CallFields
      /\ new.pc = FirstStep(i.verb) /\ new.args = i /\ new.order = m /\ new.envelope = {}
      /\ new.leg = (IF i.verb = "collect" THEN "balance" ELSE "intake")
      /\ new.owned = Collectable(m) /\ new.polls = MaxPolls
      /\ new.sent = <<>> /\ new.got = {} /\ new.exit = 0 /\ new.signed = 0
  BY <1>1, NewForm
<1>4. CallForm(new)
  BY <1>3, BoundsAssumption, InvocationsAssumption, RowEmpty DEF CallForm, FirstStep
<1>5. \A t \in ledger : t.by # c
  BY <1>2 DEF IInv, LedgerSound, Started
<1>6. files[c].accepted = {}
  BY <1>2 DEF IInv, FilesSound, Started, Orders, Calls
<1>7. CallSound(c, new)'
  <2>1. EnvelopeSound(c, new)'
    BY <1>3 DEF EnvelopeSound
  <2>2. StepSound(c, new)'
    BY <1>2, <1>3, InvocationsAssumption DEF StepSound, FirstStep
  <2>3. AnswerSound(c, new)'
    BY <1>2, <1>3, <1>6, InvocationsAssumption DEF AnswerSound, FirstStep
  <2>4. SendingSound(new)'
    BY <1>2, <1>3, RowEmpty, BoundsAssumption DEF SendingSound, IInv, TypeOK
  <2>5. OwnedSound(c, new)'
    <3>1. SUFFICES ASSUME i.verb = "collect", Collectable(m)
                   PROVE  Collectable(m)' /\ new.pc = "ask"
      BY <1>2, <1>3, <1>5 DEF OwnedSound
    <3>2. jobs[m] # {}
      BY <3>1 DEF Collectable
    <3>3. config.customer # {}
      BY <3>2 DEF IInv, JobsSound
    <3>4. new.pc = "ask"
      BY <1>3, <3>1, <3>3 DEF FirstStep
    <3>5. QED
      BY <1>2, <3>1, <3>4 DEF Collectable, service
  <2>6. RequestsSound(c, new)'
    BY <1>3, RowEmpty DEF RequestsSound
  <2>7. SpendingSound(c, new)'
    BY <1>2, <1>3, <1>5, RowEmpty DEF SpendingSound, Unpaid
  <2>8. QED
    BY <2>1, <2>2, <2>3, <2>4, <2>5, <2>6, <2>7 DEF CallSound
<1>8. known \subseteq Calls /\ faults \in 0..MaxFaults /\ faults <= faults
  BY BoundsAssumption DEF IInv, TypeOK
<1>9. QED
  BY <1>2, <1>4, <1>7, <1>8, QuietStep

(* An invocation that goes on without signing, sending or keeping          *)
(* anything.                                                               *)
LEMMA StepOn ==
  ASSUME IInv, NEW c \in Calls, calls[c].pc # "off", NEW new, Becomes(c, new), CallForm(new),
         new.args = calls[c].args, new.order = calls[c].order, new.leg = calls[c].leg,
         new.envelope = calls[c].envelope, new.owned = calls[c].owned,
         new.exit = calls[c].exit, new.sent = calls[c].sent,
         StepSound(c, new), AnswerSound(c, new)',
         new.pc = "ask" => calls[c].pc = "ask",
         new.leg = "intake" /\ new.pc \in {"gate", "sign", "ask"} =>
           calls[c].pc \in {"gate", "sign", "ask"},
         calls[c].args.verb = "collect" /\ calls[c].args.base = "contractor" /\ calls[c].owned =>
           new.pc \in {"ask", "save", "ended"},
         UNCHANGED <<config, service, ledger, files, faults>>,
         known \subseteq known', known' \subseteq Calls
  PROVE  IInv'
<1>1. PICK call : call = calls[c]
  OBVIOUS
<1>2. CallForm(call) /\ CallSound(c, call) /\ TypeOK
  BY <1>1 DEF IInv, TypeOK, CallsSound
<1>3. Grows
  BY BoundsAssumption DEF Grows, Collectable, service, IInv, TypeOK
<1>4. OwnedSound(c, call)
  BY <1>2 DEF CallSound
<1>5. CallSound(c, new)'
  <2>1. FadesAll(call.sent, new.sent)
    BY <1>1, <1>2, FadesAllSelf
  <2>2. /\ jobs[c] = {} => jobs'[c] = {}
        /\ \A k \in DOMAIN new.sent : new.sent[k].stage = "claim" => KeepsFor(call.sent[k].header)
    BY DEF service, KeepsFor
  <2>3. new.args.verb = "collect" /\ new.args.base = "contractor" /\ new.owned =>
           new.pc \in {"ask", "save", "ended"} /\ new.exit # 1 /\ \A t \in ledger' : t.by # c
    BY <1>1, <1>4 DEF OwnedSound
  <2>4. new.leg = "intake" \/ new.pc = "ask" => call.leg = "intake" \/ call.pc = "ask"
    BY <1>1
  <2>5. new.leg = "intake" /\ new.pc \in {"gate", "sign", "ask"} =>
           call.leg = "intake" /\ call.pc \in {"gate", "sign", "ask"}
    BY <1>1
  <2>6. Spends(c, call, new) /\ new.leg \in {"intake", "balance"}
    BY <1>1, <1>2 DEF Spends, CallForm
  <2>7. QED
    BY <1>1, <1>2, <1>3, <2>1, <2>2, <2>3, <2>4, <2>5, <2>6, CallFades
<1>6. faults \in 0..MaxFaults /\ faults <= faults
  BY <1>2, BoundsAssumption DEF TypeOK
<1>7. QED
  BY <1>5, <1>6, QuietStep

LEMMA WaitForPaymentGateStep ==
  ASSUME IInv, NEW c \in Calls, WaitForPaymentGate(c)
  PROVE  IInv'
<1>1. /\ calls[c].pc = "gate"
      /\ UNCHANGED <<config, service, ledger, known, files, faults>>
  BY DEF WaitForPaymentGate
<1>2. CallForm(calls[c]) /\ StepSound(c, calls[c]) /\ AnswerSound(c, calls[c])
      /\ OwnedSound(c, calls[c])
  BY <1>1 DEF IInv, TypeOK, CallsSound, CallSound
<1>3. known \subseteq Calls /\ faults \in 0..MaxFaults /\ faults <= faults
  BY BoundsAssumption DEF IInv, TypeOK
<1>4. ~ (calls[c].args.verb = "collect" /\ calls[c].args.base = "contractor" /\ calls[c].owned)
  BY <1>1, <1>2 DEF OwnedSound
<1>5. CASE synced
  <2>1. PICK new : new = [calls[c] EXCEPT !.pc = "sign"]
    OBVIOUS
  <2>2. Becomes(c, new)
    BY <1>1, <1>5, <2>1 DEF WaitForPaymentGate, Goto
  <2>3. /\ DOMAIN new = CallFields /\ new.pc = "sign" /\ new.args = calls[c].args
        /\ new.order = calls[c].order /\ new.envelope = calls[c].envelope
        /\ new.leg = calls[c].leg /\ new.owned = calls[c].owned /\ new.polls = calls[c].polls
        /\ new.sent = calls[c].sent /\ new.got = calls[c].got /\ new.exit = calls[c].exit /\ new.signed = calls[c].signed
    BY <1>2, <2>1, GotoForm DEF CallForm
  <2>4. CallForm(new)
    BY <1>2, <2>3 DEF CallForm
  <2>5. StepSound(c, new)
    BY <1>1, <1>2, <2>3 DEF StepSound
  <2>6. AnswerSound(c, new)'
    BY <1>1, <1>2, <2>3 DEF AnswerSound
  <2>7. QED
    BY <1>1, <1>3, <1>4, <2>2, <2>3, <2>4, <2>5, <2>6, StepOn
<1>6. CASE ~ synced /\ calls[c].polls > 0
  <2>1. PICK new : new = [calls[c] EXCEPT !.polls = calls[c].polls - 1]
    OBVIOUS
  <2>2. Becomes(c, new)
    BY <1>1, <1>6, <2>1 DEF WaitForPaymentGate
  <2>3. /\ DOMAIN new = CallFields /\ new.polls = calls[c].polls - 1 /\ new.args = calls[c].args
        /\ new.order = calls[c].order /\ new.envelope = calls[c].envelope
        /\ new.leg = calls[c].leg /\ new.owned = calls[c].owned /\ new.pc = calls[c].pc
        /\ new.sent = calls[c].sent /\ new.got = calls[c].got /\ new.exit = calls[c].exit /\ new.signed = calls[c].signed
    BY <1>2, <2>1, PolledForm DEF CallForm
  <2>4. CallForm(new)
    BY <1>2, <1>6, <2>3, BoundsAssumption DEF CallForm
  <2>5. StepSound(c, new)
    BY <1>1, <1>2, <2>3 DEF StepSound
  <2>6. AnswerSound(c, new)'
    BY <1>1, <1>2, <2>3 DEF AnswerSound
  <2>7. QED
    BY <1>1, <1>3, <1>4, <2>2, <2>3, <2>4, <2>5, <2>6, StepOn
<1>7. CASE ~ synced /\ ~ (calls[c].polls > 0)
  BY <1>1, <1>3, <1>4, <1>7, EndStep DEF WaitForPaymentGate
<1>8. QED
  BY <1>5, <1>6, <1>7

(* A signed order is the only one, is not refused and names its            *)
(* invocation.                                                             *)
LEMMA SignedOrderSound ==
  ASSUME ConfigSound, NEW c \in Calls
  PROVE  /\ \A x, y \in SignedOrder(c) : x = y
         /\ \A e \in SignedOrder(c) : ~ Refuse(e) /\ e.body.data.order = c
         /\ SignedOrder(c) # {} => config.customer # {}
<1> DEFINE Signer(cfg) == ResolveCounterparty(cfg.signing, CardOf(c))
           Order(cfg) == [order |-> c, acceptance |-> calls[c].args.story.acceptance,
                          issuer |-> Signer(cfg).handle]
<1>1. ASSUME NEW cfg \in config.customer
      PROVE  Signer(cfg).key \in Keys
  BY <1>1 DEF ConfigSound, ResolveCounterparty
<1>2. ASSUME NEW e \in SignedOrder(c)
      PROVE  \E cfg \in config.customer :
               /\ e = BuildMandateEnvelope(Order(cfg), Signer(cfg))
               /\ ValidMandate(Order(cfg))
  <2>1. PICK cfg \in config.customer : e \in SignedBy(c, Signer(cfg))
    BY <1>2 DEF SignedOrder
  <2>2. PICK mandate \in BuildMandate(c, calls[c].args.story, Signer(cfg)) :
           e = BuildMandateEnvelope(mandate, Signer(cfg))
    BY <2>1 DEF SignedBy
  <2>3. mandate = Order(cfg) /\ ValidMandate(mandate)
    BY <2>2 DEF BuildMandate, Some
  <2>4. QED
    BY <2>2, <2>3
<1>3. ASSUME NEW e \in SignedOrder(c)
      PROVE  ~ Refuse(e) /\ e.body.data.order = c
  <2>1. PICK cfg \in config.customer : /\ e = BuildMandateEnvelope(Order(cfg), Signer(cfg))
                                       /\ ValidMandate(Order(cfg))
    BY <1>2, <1>3
  <2>2. /\ e.body.schema = "mandate.v1" /\ e.body.data = Order(cfg)
        /\ e.sig.pub = Signer(cfg).key /\ e.sig.over = e.body
    BY <2>1 DEF BuildMandateEnvelope, SignEnvelope
  <2>3. e.sig.pub \in Keys
    BY <1>1, <2>2
  <2>4. QED
    BY <2>1, <2>2, <2>3 DEF Refuse, VerifyEnvelope
<1>4. ASSUME NEW x \in SignedOrder(c), NEW y \in SignedOrder(c)
      PROVE  x = y
  <2>1. PICK cfg \in config.customer : x = BuildMandateEnvelope(Order(cfg), Signer(cfg))
    BY <1>2
  <2>2. PICK dfg \in config.customer : y = BuildMandateEnvelope(Order(dfg), Signer(dfg))
    BY <1>2
  <2>3. cfg = dfg
    BY DEF ConfigSound
  <2>4. QED
    BY <2>1, <2>2, <2>3
<1>5. QED
  BY <1>2, <1>3, <1>4

LEMMA SignStep ==
  ASSUME IInv, NEW c \in Calls, Sign(c)
  PROVE  IInv'
<1>1. /\ calls[c].pc = "sign"
      /\ UNCHANGED <<config, service, ledger, files, faults>>
  BY DEF Sign
<1>2. CallForm(calls[c]) /\ CallSound(c, calls[c])
  BY <1>1 DEF IInv, TypeOK, CallsSound
<1>3. StepSound(c, calls[c]) /\ AnswerSound(c, calls[c]) /\ OwnedSound(c, calls[c])
      /\ SendingSound(calls[c])
  BY <1>2 DEF CallSound
<1>4. known \subseteq Calls /\ faults \in 0..MaxFaults /\ faults <= faults
  BY BoundsAssumption DEF IInv, TypeOK
<1>5. ~ (calls[c].args.verb = "collect" /\ calls[c].args.base = "contractor" /\ calls[c].owned)
  BY <1>1, <1>3 DEF OwnedSound
<1>6. calls[c].args.verb # "collect"
  BY <1>1, <1>3 DEF StepSound
<1>7. CASE calls[c].args.story.readable /\ SignedOrder(c) # {}
  <2>1. PICK envelope : envelope = SignedOrder(c)
    OBVIOUS
  <2>2. PICK new : new = [calls[c] EXCEPT !.pc = "ask", !.envelope = envelope]
    OBVIOUS
  <2>3. Becomes(c, new) /\ known' = IF calls[c].args.via = "cli" THEN known \cup {c} ELSE known
    BY <1>7, <2>1, <2>2 DEF Sign
  <2>4. /\ DOMAIN new = CallFields /\ new.pc = "ask" /\ new.args = calls[c].args
        /\ new.order = calls[c].order /\ new.envelope = envelope
        /\ new.leg = calls[c].leg /\ new.owned = calls[c].owned /\ new.polls = calls[c].polls
        /\ new.sent = calls[c].sent /\ new.got = calls[c].got /\ new.exit = calls[c].exit /\ new.signed = calls[c].signed
    BY <1>2, <2>2, SignedForm DEF CallForm
  <2>5. CallForm(new)
    BY <1>2, <2>4 DEF CallForm
  <2>6. CallSound(c, new)'
    <3>1. /\ \A x, y \in envelope : x = y
          /\ \A e \in envelope : ~ Refuse(e) /\ e.body.data.order = c
          /\ envelope # {} /\ config.customer # {}
      BY <1>7, <2>1, SignedOrderSound DEF IInv
    <3>2. EnvelopeSound(c, new)'
      BY <1>1, <2>3, <2>4, <3>1 DEF EnvelopeSound
    <3>3. StepSound(c, new)'
      BY <1>1, <1>3, <2>4, <3>1 DEF StepSound
    <3>4. AnswerSound(c, new)'
      BY <1>1, <1>3, <2>4 DEF AnswerSound
    <3>5. new.leg = "intake" => new.sent = <<>>
      BY <1>1, <1>3, <2>4 DEF SendingSound
    <3>6. new.leg = "intake"
      BY <1>1, <1>3, <2>4 DEF StepSound
    <3>7. SendingSound(new)'
      BY <1>1, <1>4, <2>4, <3>5, <3>6, RowEmpty, BoundsAssumption DEF SendingSound
    <3>8. OwnedSound(c, new)'
      BY <1>6, <2>4 DEF OwnedSound
    <3>9. RequestsSound(c, new)'
      BY <3>5, <3>6, RowEmpty DEF RequestsSound
    <3>10. SpendingSound(c, new)'
      BY <1>1, <1>2, <2>4, <3>5, <3>6, RowEmpty DEF CallSound, SpendingSound, Unpaid
    <3>11. QED
      BY <3>2, <3>3, <3>4, <3>7, <3>8, <3>9, <3>10 DEF CallSound
  <2>7. known \subseteq known' /\ known' \subseteq Calls
    BY <1>4, <2>3
  <2>8. new.envelope # {}
    BY <1>7, <2>1, <2>4
  <2>9. QED
    BY <1>1, <1>4, <2>3, <2>5, <2>6, <2>7, <2>8, QuietStep
<1>8. CASE ~ (calls[c].args.story.readable /\ SignedOrder(c) # {})
  <2>1. End(c, 1) /\ known' = known
    BY <1>8 DEF Sign
  <2>2. QED
    BY <1>1, <1>4, <1>5, <2>1, EndStep
<1>9. QED
  BY <1>7, <1>8

(* What is taken from an answer is about the order.                        *)
LEMMA ReceiptInSound ==
  ASSUME NEW call, NEW answer, NEW r \in ReceiptIn(call, answer)
  PROVE  /\ call.leg = "intake" => VerifyEnvelope(r) /\ r.body.data.mandate \in call.envelope
         /\ call.leg # "intake" => ReceiptSound(r, call.order)
BY DEF ReceiptIn, ReceiptSound, ParseAcceptedResponse, ParseDeliveredResponse, TakeReceipt

LEMMA ConcludeSound ==
  ASSUME IInv, NEW c \in Calls, calls[c].pc \in {"ask", "wait"}, NEW answer, Conclude(c, answer),
         Grows, registry' = registry, jobs' = jobs, files' = files,
         \A t \in ledger' :
           t \in ledger \/ t.by # c \/ (calls[c].pc = "ask" /\ t.leg = calls[c].leg),
         calls[c].args.verb = "collect" /\ calls[c].args.base = "contractor" /\ calls[c].owned =>
           /\ PayFor(answer, TRUE) /\ ReceiptIn(calls[c], answer) # {}
           /\ ledger' = ledger
  PROVE  \E new : /\ Becomes(c, new) /\ CallForm(new) /\ CallSound(c, new)'
                  /\ new.envelope = calls[c].envelope
<1>1. PICK call : call = calls[c]
  OBVIOUS
<1>2. CallForm(call) /\ CallSound(c, call) /\ TypeOK
  BY <1>1 DEF IInv, TypeOK, CallsSound
<1>3. StepSound(c, call) /\ AnswerSound(c, call) /\ OwnedSound(c, call)
  BY <1>2 DEF CallSound
<1>4. /\ jobs[c] = {} => jobs'[c] = {}
      /\ \A k \in DOMAIN call.sent : call.sent[k].stage = "claim" => KeepsFor(call.sent[k].header)
  BY DEF KeepsFor
<1>5. call.args.verb = "collect" => call.leg = "balance"
  BY <1>3 DEF StepSound
<1>6. CASE PayFor(answer, call.leg = "balance") /\ ReceiptIn(call, answer) # {}
  <2>1. PICK got : got = ReceiptIn(call, answer)
    OBVIOUS
  <2>2. PICK new : new = [call EXCEPT !.pc = "save", !.got = got]
    OBVIOUS
  <2>3. Becomes(c, new)
    BY <1>1, <1>6, <2>1, <2>2 DEF Conclude
  <2>4. /\ DOMAIN new = CallFields /\ new.pc = "save" /\ new.got = got
        /\ new.args = call.args /\ new.order = call.order /\ new.envelope = call.envelope
        /\ new.leg = call.leg /\ new.owned = call.owned /\ new.polls = call.polls
        /\ new.sent = call.sent /\ new.exit = call.exit /\ new.signed = call.signed
    BY <1>2, <2>2, AnsweredForm DEF CallForm
  <2>5. CallForm(new)
    BY <1>2, <2>4 DEF CallForm
  <2>6. StepSound(c, new)
    BY <1>1, <1>3, <2>4 DEF StepSound
  <2>7. AnswerSound(c, new)'
    <3>1. new.leg = "intake" => \A r \in got : VerifyEnvelope(r) /\ r.body.data.mandate \in new.envelope
      BY <2>1, <2>4, ReceiptInSound
    <3>2. new.leg = "balance" => \A r \in got : ReceiptSound(r, new.order)
      BY <2>1, <2>4, ReceiptInSound
    <3>3. files[c].accepted # {} => new.leg = "balance"
      BY <1>1, <1>3, <2>4 DEF AnswerSound
    <3>4. QED
      BY <2>4, <3>1, <3>2, <3>3 DEF AnswerSound
  <2>8. new.args.verb = "collect" /\ new.args.base = "contractor" /\ new.owned =>
           new.pc \in {"ask", "save", "ended"} /\ new.exit # 1 /\ \A t \in ledger' : t.by # c
    BY <1>1, <1>3, <2>4 DEF OwnedSound
  <2>9. FadesAll(call.sent, new.sent)
    BY <1>2, <2>4, FadesAllSelf
  <2>10. \A k \in DOMAIN new.sent : new.sent[k].stage = "claim" => KeepsFor(call.sent[k].header)
    BY <1>4, <2>4
  <2>11. Spends(c, call, new) /\ new.leg \in {"intake", "balance"}
    BY <1>1, <1>2, <2>4 DEF Spends, CallForm
  <2>12. CallSound(c, new)'
    BY <1>2, <1>4, <2>4, <2>6, <2>7, <2>8, <2>9, <2>10, <2>11, CallFades
  <2>13. QED
    BY <1>1, <2>3, <2>4, <2>5, <2>12
<1>7. CASE ~ (PayFor(answer, call.leg = "balance") /\ ReceiptIn(call, answer) # {})
  <2>1. PICK new : new = Ended(call, 1)
    OBVIOUS
  <2>2. Becomes(c, new)
    BY <1>1, <1>7, <2>1 DEF Conclude, End
  <2>3. CallForm(new) /\ new.envelope = call.envelope
    BY <1>2, <2>1, EndForm
  <2>4. ~ (call.args.verb = "collect" /\ call.args.base = "contractor" /\ call.owned)
    <3>1. SUFFICES ASSUME call.args.verb = "collect", call.args.base = "contractor", call.owned
                   PROVE  FALSE
      OBVIOUS
    <3>2. call.leg = "balance" /\ PayFor(answer, TRUE) /\ ReceiptIn(call, answer) # {}
      BY <1>1, <1>5, <3>1
    <3>3. PayFor(answer, call.leg = "balance")
      BY <3>2 DEF PayFor
    <3>4. QED
      BY <1>7, <3>2, <3>3
  <2>5. CallSound(c, Ended(call, 1))'
    BY <1>1, <1>2, <1>4, <2>4, EndSound
  <2>6. QED
    BY <1>1, <2>1, <2>2, <2>3, <2>5
<1>8. QED
  BY <1>6, <1>7

LEMMA ReceiveStep ==
  ASSUME IInv, NEW c \in Calls, Receive(c)
  PROVE  IInv'
<1>1. PICK answer : Conclude(c, answer)
  BY DEF Receive
<1>2. calls[c].pc = "wait" /\ UNCHANGED <<config, service, ledger, known, files, faults>>
  BY DEF Receive, Copies
<1>3. Grows
  BY <1>2, BoundsAssumption DEF Grows, Collectable, service, IInv, TypeOK
<1>4. ~ (calls[c].args.verb = "collect" /\ calls[c].args.base = "contractor" /\ calls[c].owned)
  BY <1>2 DEF IInv, CallsSound, CallSound, OwnedSound
<1>5. \E new : /\ Becomes(c, new) /\ CallForm(new) /\ CallSound(c, new)'
               /\ new.envelope = calls[c].envelope
  BY <1>1, <1>2, <1>3, <1>4, ConcludeSound DEF service
<1>6. known \subseteq Calls /\ faults \in 0..MaxFaults /\ faults <= faults
  BY BoundsAssumption DEF IInv, TypeOK
<1>7. QED
  BY <1>2, <1>5, <1>6, QuietStep

(* A receipt that is there is handed out.                                  *)
LEMMA GuardGives ==
  ASSUME JobsSound, NEW m \in Orders, Collectable(m), NEW answer \in Guard("balance", m)
  PROVE  /\ PayFor(answer, TRUE)
         /\ ParseDeliveredResponse(answer.body, m) # {}
<1>1. PICK job \in jobs[m] : job.receipt # {}
  BY DEF Collectable
<1>2. \A x \in jobs[m] : x = job
  BY DEF JobsSound
<1>3. answer \in UNION {GuardOf(x) : x \in jobs[m]}
  BY <1>1 DEF Guard
<1>4. answer \in GuardOf(job)
  BY <1>2, <1>3
<1>5. answer = Answer(200, "none", job.receipt)
  BY <1>1, <1>4 DEF GuardOf
<1>6. answer.status = 200 /\ answer.payment = "none" /\ answer.body = job.receipt
  BY <1>5 DEF Answer
<1>7. PayFor(answer, TRUE)
  BY <1>6 DEF PayFor
<1>8. \A r \in job.receipt : r \in ParseDeliveredResponse(job.receipt, m)
  <2>1. \A r \in job.receipt : ReceiptSound(r, m)
    BY DEF JobsSound
  <2>2. \A r \in job.receipt : r \in TakeReceipt(job.receipt)
    BY <2>1, Zenon DEF ReceiptSound, TakeReceipt
  <2>3. QED
    BY <2>1, <2>2, Zenon DEF ReceiptSound, ParseDeliveredResponse
<1>9. QED
  BY <1>1, <1>6, <1>7, <1>8

LEMMA OwnedGuarded ==
  ASSUME JobsSound, NEW m \in Orders, Collectable(m)
  PROVE  Guard("balance", m) # {} /\ config.service # {}
<1>1. PICK job \in jobs[m] : job.receipt # {}
  BY DEF Collectable
<1>2. Answer(200, "none", job.receipt) \in GuardOf(job)
  BY <1>1 DEF GuardOf
<1>3. Guard("balance", m) = UNION {GuardOf(x) : x \in jobs[m]}
  BY <1>1 DEF Guard
<1>4. Guard("balance", m) # {}
  BY <1>1, <1>2, <1>3, Zenon
<1>5. QED
  BY <1>1, <1>4 DEF JobsSound

(* A request that is not settled is added.                                 *)
LEMMA RequestAdded ==
  ASSUME TypeOK, Grows, NEW c \in Calls, NEW call, CallForm(call), RequestsSound(c, call),
         NEW new, NEW r, new.sent = Append(call.sent, r),
         new.args = call.args, new.envelope = call.envelope,
         RequestForm(r), RequestSound(c, r)', ~ Holds(r),
         r.leg = "intake" => call.args.verb # "collect" /\ call.envelope # {},
         jobs[c] = {} => jobs'[c] = {},
         \A k \in DOMAIN call.sent : call.sent[k].stage = "claim" => KeepsFor(call.sent[k].header)
  PROVE  /\ RequestsSound(c, new)'
         /\ IsRow(new.sent) /\ Len(new.sent) = Len(call.sent) + 1
         /\ \A k \in DOMAIN new.sent : RequestForm(new.sent[k])
<1> DEFINE n == Len(call.sent) + 1
<1>1. /\ IsRow(new.sent) /\ Len(new.sent) = n /\ DOMAIN new.sent = 1..n
      /\ \A k \in DOMAIN call.sent : new.sent[k] = call.sent[k]
      /\ new.sent[n] = r
      /\ DOMAIN call.sent = 1..Len(call.sent) /\ Len(call.sent) \in Nat
  BY RowAppend, RowDomain DEF CallForm
<1>2. \A k \in DOMAIN new.sent : k \in DOMAIN call.sent \/ k = n
  BY <1>1
<1>3. ASSUME NEW k \in DOMAIN call.sent
      PROVE  RequestSound(c, new.sent[k])' /\ RequestForm(new.sent[k])
  <2>1. PICK q : q = call.sent[k]
    OBVIOUS
  <2>2. RequestForm(q) /\ RequestSound(c, q) /\ Fades(q, q)
    BY <2>1, FadesOnce DEF CallForm, RequestsSound
  <2>3. RequestSound(c, q)'
    BY <2>1, <2>2, RequestFades
  <2>4. new.sent[k] = q
    BY <1>1, <2>1
  <2>5. QED
    BY <2>2, <2>3, <2>4
<1>4. ASSUME NEW k \in DOMAIN new.sent
      PROVE  /\ RequestForm(new.sent[k])
             /\ RequestSound(c, new.sent[k])'
             /\ new.sent[k].leg = "intake" => new.args.verb # "collect" /\ new.envelope # {}
  BY <1>1, <1>2, <1>3 DEF RequestsSound
<1>5. ASSUME NEW j \in DOMAIN new.sent, NEW k \in DOMAIN new.sent,
             Holds(new.sent[j]), Holds(new.sent[k]), new.sent[j].leg = new.sent[k].leg
      PROVE  j = k
  <2>1. j \in DOMAIN call.sent /\ k \in DOMAIN call.sent
    BY <1>1, <1>2, <1>5
  <2>2. QED
    BY <1>1, <1>5, <2>1 DEF RequestsSound
<1>6. QED
  BY <1>1, <1>4, <1>5 DEF RequestsSound

LEMMA NewRequestForm ==
  ASSUME NEW c, calls[c].leg \in {"intake", "balance"}
  PROVE  LET r == NewRequest(c)
         IN  /\ RequestForm(r) /\ ~ Holds(r) /\ r.leg = calls[c].leg
             /\ config.service # {} => RequestSound(c, r)
BY TtlAssumption
   DEF NewRequest, NewPayment, RequestForm, RequestFields, Holds, RequestSound, NoAnswer, Answer

(* What is asked for was not paid, so it is the first of its leg.          *)
LEMMA SpendingAdded ==
  ASSUME NEW c, NEW call, CallForm(call), SpendingSound(c, call), call.pc = "ask",
         NEW new, new.pc = "wait", new.leg = call.leg, NEW r, r.leg = call.leg,
         new.sent = Append(call.sent, r), ledger' = ledger
  PROVE  SpendingSound(c, new)'
<1> DEFINE n == Len(call.sent) + 1
<1>1. /\ new.sent[n] = r /\ \A k \in DOMAIN call.sent : new.sent[k] = call.sent[k]
      /\ \A k \in DOMAIN new.sent : k \in DOMAIN call.sent \/ k = n
  BY RowAppend, RowDomain DEF CallForm
<1>2. Unpaid(c, call, call.leg)
  BY DEF SpendingSound
<1>3. new.leg = "intake" => Unpaid(c, new, "balance")'
  <2>1. SUFFICES ASSUME new.leg = "intake"
                 PROVE  Unpaid(c, new, "balance")'
    OBVIOUS
  <2>2. Unpaid(c, call, "balance") /\ r.leg # "balance"
    BY <2>1 DEF SpendingSound
  <2>3. QED
    BY <1>1, <2>2 DEF Unpaid
<1>4. ASSUME NEW k \in DOMAIN new.sent, NEW j \in DOMAIN new.sent, new.sent[j].leg = new.sent[k].leg
      PROVE  new.sent[j].header = new.sent[k].header
  <2>1. CASE k = n \/ j = n
    BY <1>1, <1>2, <1>4, <2>1 DEF Unpaid
  <2>2. CASE k \in DOMAIN call.sent /\ j \in DOMAIN call.sent
    BY <1>1, <1>4, <2>2 DEF SpendingSound
  <2>3. QED
    BY <1>1, <2>1, <2>2
<1>5. ASSUME NEW k \in DOMAIN new.sent, NEW t \in ledger', t.by = c, t.leg = new.sent[k].leg
      PROVE  t = new.sent[k].header
  <2>1. CASE k = n
    BY <1>1, <1>2, <1>5, <2>1 DEF Unpaid
  <2>2. CASE k \in DOMAIN call.sent
    BY <1>1, <1>5, <2>2 DEF SpendingSound
  <2>3. QED
    BY <1>1, <2>1, <2>2
<1>6. QED
  BY <1>3, <1>4, <1>5 DEF SpendingSound

LEMMA AskStep ==
  ASSUME IInv, NEW c \in Calls, Ask(c)
  PROVE  IInv'
<1>1. /\ calls[c].pc = "ask" /\ calls[c].args.base = "contractor"
      /\ UNCHANGED <<config, service, ledger, known, files, faults>>
  BY DEF Ask
<1>2. PICK call : call = calls[c]
  OBVIOUS
<1>3. CallForm(call) /\ CallSound(c, call)
  BY <1>1, <1>2 DEF IInv, TypeOK, CallsSound
<1>4. StepSound(c, call) /\ AnswerSound(c, call) /\ OwnedSound(c, call)
      /\ SendingSound(call) /\ EnvelopeSound(c, call) /\ RequestsSound(c, call)
      /\ SpendingSound(c, call)
  BY <1>3 DEF CallSound
<1>5. known \subseteq Calls /\ faults \in 0..MaxFaults /\ faults <= faults
  BY BoundsAssumption DEF IInv, TypeOK
<1>6. Grows
  BY <1>1, BoundsAssumption DEF Grows, Collectable, service, IInv, TypeOK
<1>7. call.args.verb = "collect" => call.leg = "balance"
  BY <1>4 DEF StepSound
<1> DEFINE Owned == call.args.verb = "collect" /\ call.args.base = "contractor" /\ call.owned
           guarded == Guard(calls[c].leg, calls[c].order)
<1>8. Owned => guarded # {} /\ config.service # {}
  BY <1>2, <1>3, <1>4, <1>7, OwnedGuarded DEF OwnedSound, IInv, CallForm
<1>9. \/ \E a \in guarded : Conclude(c, a)
      \/ /\ config.service # {} /\ guarded = {}
         /\ Becomes(c, [Paying(c) EXCEPT !.pc = "wait",
                                         !.sent = Append(calls[c].sent, NewRequest(c))])
      \/ (config.service = {} \/ guarded = {}) /\ End(c, 1)
  BY DEF Ask
<1>10. CASE \E a \in guarded : Conclude(c, a)
  <2>1. PICK a \in guarded : Conclude(c, a)
    BY <1>10
  <2>2. Owned => PayFor(a, TRUE) /\ ReceiptIn(calls[c], a) # {}
    <3>1. SUFFICES ASSUME Owned
                   PROVE  PayFor(a, TRUE) /\ ReceiptIn(calls[c], a) # {}
      OBVIOUS
    <3>2. Collectable(call.order) /\ call.leg = "balance" /\ call.order \in Orders
      BY <1>3, <1>4, <1>7, <3>1 DEF OwnedSound, CallForm
    <3>3. PayFor(a, TRUE) /\ ParseDeliveredResponse(a.body, call.order) # {}
      BY <1>2, <3>2, GuardGives DEF IInv
    <3>4. QED
      BY <1>2, <3>2, <3>3 DEF ReceiptIn
  <2>3. \E new : /\ Becomes(c, new) /\ CallForm(new) /\ CallSound(c, new)'
                 /\ new.envelope = calls[c].envelope
    BY <1>1, <1>2, <1>6, <2>1, <2>2, ConcludeSound DEF service
  <2>4. QED
    BY <1>1, <1>5, <2>3, QuietStep
<1>11. CASE /\ config.service # {} /\ guarded = {}
            /\ Becomes(c, [Paying(c) EXCEPT !.pc = "wait",
                                            !.sent = Append(calls[c].sent, NewRequest(c))])
  <2>1. PICK r : r = NewRequest(c)
    OBVIOUS
  <2>2. PICK sent : sent = Append(call.sent, r)
    OBVIOUS
  <2>3. PICK new : new = [[call EXCEPT !.signed = @ + 1] EXCEPT !.pc = "wait", !.sent = sent]
    OBVIOUS
  <2>4. Becomes(c, new)
    BY <1>2, <1>11, <2>1, <2>2, <2>3 DEF Paying
  <2>5. /\ DOMAIN new = CallFields /\ new.pc = "wait" /\ new.sent = Append(call.sent, r)
        /\ new.args = call.args /\ new.order = call.order /\ new.envelope = call.envelope
        /\ new.leg = call.leg /\ new.owned = call.owned /\ new.polls = call.polls
        /\ new.got = call.got /\ new.exit = call.exit /\ new.signed = call.signed + 1
    BY <1>3, <2>2, <2>3, AskedForm DEF CallForm
  <2>6. RequestForm(r) /\ ~ Holds(r) /\ r.leg = call.leg /\ RequestSound(c, r)
    BY <1>2, <1>3, <1>11, <2>1, NewRequestForm DEF CallForm
  <2>7. RequestSound(c, r)'
    BY <1>1, <2>6 DEF RequestSound, service
  <2>8. r.leg = "intake" => call.args.verb # "collect" /\ call.envelope # {}
    BY <1>1, <1>2, <1>4, <1>7, <2>6 DEF StepSound
  <2>9. /\ jobs[c] = {} => jobs'[c] = {}
        /\ \A k \in DOMAIN call.sent : call.sent[k].stage = "claim" => KeepsFor(call.sent[k].header)
    BY <1>1 DEF service, KeepsFor
  <2>10. /\ RequestsSound(c, new)'
         /\ IsRow(new.sent) /\ Len(new.sent) = Len(call.sent) + 1
         /\ \A k \in DOMAIN new.sent : RequestForm(new.sent[k])
    BY <1>3, <1>4, <1>6, <2>5, <2>6, <2>7, <2>8, <2>9, RequestAdded DEF IInv
  <2>11. CallForm(new)
    BY <1>3, <2>5, <2>10 DEF CallForm
  <2>12. CallSound(c, new)'
    <3>1. EnvelopeSound(c, new)'
      BY <1>1, <1>4, <2>5 DEF EnvelopeSound
    <3>2. StepSound(c, new)'
      BY <1>1, <1>2, <1>4, <2>5 DEF StepSound
    <3>3. AnswerSound(c, new)'
      BY <1>1, <1>2, <1>4, <2>5 DEF AnswerSound
    <3>4. SendingSound(new)'
      <4>1. Len(call.sent) \in Nat /\ faults \in Nat /\ faults' = faults
        BY <1>1, <1>3, <1>5, RowDomain, BoundsAssumption DEF CallForm
      <4>2. call.leg = "intake" => Len(call.sent) = 0
        BY <1>1, <1>2, <1>4, RowEmpty DEF SendingSound
      <4>3. Len(call.sent) <= faults + 1
        BY <1>1, <1>2, <1>4 DEF SendingSound
      <4>4. QED
        BY <2>5, <2>10, <4>1, <4>2, <4>3 DEF SendingSound
    <3>5. OwnedSound(c, new)'
      BY <1>8, <1>11, <2>5 DEF OwnedSound
    <3>6. SpendingSound(c, new)'
      BY <1>1, <1>2, <1>3, <1>4, <2>5, <2>6, SpendingAdded
    <3>7. QED
      BY <2>10, <3>1, <3>2, <3>3, <3>4, <3>5, <3>6 DEF CallSound
  <2>13. QED
    BY <1>1, <1>2, <1>5, <2>4, <2>5, <2>11, <2>12, QuietStep
<1>12. CASE (config.service = {} \/ guarded = {}) /\ End(c, 1)
  <2>1. ~ Owned
    BY <1>8, <1>12
  <2>2. calls[c].pc # "off"
    BY <1>1
  <2>3. QED
    BY <1>1, <1>2, <1>5, <1>12, <2>1, <2>2, EndStep
<1>13. QED
  BY <1>9, <1>10, <1>11, <1>12

LEMMA AskElsewhereStep ==
  ASSUME IInv, NEW c \in Calls, NEW paid \in BOOLEAN, NEW body, AskElsewhere(c, paid, body)
  PROVE  IInv'
<1> DEFINE t == NewPayment(c)
<1> t.by = c /\ t.leg = calls[c].leg
  BY DEF NewPayment
<1> HIDE DEF t
<1>1. /\ calls[c].pc = "ask" /\ calls[c].args.base = "elsewhere"
      /\ ledger' = ledger \cup (IF paid THEN {t} ELSE {})
      /\ UNCHANGED <<config, service, known, files, faults>>
  BY DEF AskElsewhere, t
<1>2. PICK answer : Conclude(c, answer)
  BY DEF AskElsewhere
<1>3. Grows
  BY <1>1, BoundsAssumption DEF Grows, Collectable, service, IInv, TypeOK
<1>4. ~ (calls[c].args.verb = "collect" /\ calls[c].args.base = "contractor" /\ calls[c].owned)
  BY <1>1
<1>5. PICK new : /\ Becomes(c, new) /\ CallForm(new) /\ CallSound(c, new)'
                 /\ new.envelope = calls[c].envelope
  BY <1>1, <1>2, <1>3, <1>4, ConcludeSound DEF service
<1>6. StartedStays
  BY <1>5, StartedMoves DEF IInv, CallForm
<1>7. \A d \in Calls : d # c => Undisturbed(d)
  BY <1>1 DEF Undisturbed, KeepsFor, service
<1>8. CallsSound'
  BY <1>3, <1>5, <1>7, CallMoves DEF IInv
<1>9. TypeOK'
  BY <1>1, <1>5, TypeMoves DEF service, IInv, TypeOK
<1>10. LedgerSound'
  <2>1. CASE paid
    <3>1. c \in Started /\ t.by = c /\ t.leg = calls[c].leg
      BY <1>1 DEF Started
    <3>2. t.leg = "intake" => calls[c].envelope # {}
      BY <1>1, <3>1 DEF IInv, CallsSound, CallSound, StepSound
    <3>3. c \in Started' /\ (t.leg = "intake" => calls'[c].envelope # {})
      BY <1>6, <3>1, <3>2 DEF StartedStays
    <3>4. ledger' = ledger \cup {t}
      BY <1>1, <2>1
    <3>5. \A u \in ledger : u.by = t.by => u.leg # t.leg
      BY <1>1, <3>1 DEF IInv, CallsSound, CallSound, SpendingSound, Unpaid
    <3>6. QED
      BY <1>6, <3>1, <3>3, <3>4, <3>5, LedgerAdds DEF IInv
  <2>2. CASE ~ paid
    BY <1>1, <1>6, <2>2, LedgerStays DEF IInv
  <2>3. QED
    BY <2>1, <2>2
<1>11. ConfigSound' /\ RegistrySound' /\ JobsSound' /\ FilesSound'
  BY <1>1, <1>3, <1>6, JobsStay, FilesStay DEF IInv, ConfigSound, RegistrySound, service
<1>12. QED
  BY <1>8, <1>9, <1>10, <1>11 DEF IInv

(* An artifact is written.                                                 *)
LEMMA FileStep ==
  ASSUME IInv, NEW c \in Calls, NEW m \in Orders, NEW new, NEW file,
         Becomes(c, new), CallForm(new), CallSound(c, new)',
         calls[c].pc # "off", new.envelope = calls[c].envelope,
         files' = [files EXCEPT ![m] = file], DOMAIN file = FileFields,
         m # c => file.mandate = files[m].mandate /\ file.accepted = files[m].accepted,
         \A r \in file.accepted : VerifyEnvelope(r) /\ file.mandate = {r.body.data.mandate},
         \A r \in file.receipt : ReceiptSound(r, m),
         UNCHANGED <<config, service, ledger, faults>>,
         known \subseteq known', known' \subseteq Calls
  PROVE  IInv'
<1>1. Grows
  BY BoundsAssumption DEF Grows, Collectable, service, IInv, TypeOK
<1>2. StartedStays
  BY StartedMoves DEF IInv, CallForm
<1>3. /\ files' = [x \in Orders |-> files'[x]]
      /\ files'[m] = file
      /\ \A x \in Orders : x # m => files'[x] = files[x]
  BY DEF IInv, TypeOK
<1>4. Calls \subseteq Orders
  BY DEF Calls, Orders
<1>5. \A d \in Calls : d # c => Undisturbed(d)
  BY <1>3, <1>4 DEF Undisturbed, KeepsFor, service
<1>6. CallsSound'
  BY <1>1, <1>5, CallMoves DEF IInv
<1>7. TypeOK'
  <2>1. /\ calls' = [d \in Calls |-> calls'[d]]
        /\ calls'[c] = new
        /\ \A d \in Calls : d # c => calls'[d] = calls[d]
    BY Moved DEF IInv
  <2>2. \A d \in Calls : calls'[d].pc # "off" => CallForm(calls'[d])
    BY <2>1 DEF IInv, TypeOK
  <2>3. \A x \in Orders : DOMAIN files'[x] = FileFields
    BY <1>3 DEF IInv, TypeOK
  <2>4. QED
    BY <1>3, <2>1, <2>2, <2>3 DEF IInv, TypeOK, service
<1>8. FilesSound'
  <2>1. \A x \in Orders : files'[x].accepted # {} => x \in Started'
    <3>1. c \in Started'
      BY <1>2 DEF StartedStays, Started
    <3>2. \A x \in Orders : x # c => files'[x].accepted = files[x].accepted
      BY <1>3
    <3>3. QED
      BY <1>2, <3>1, <3>2 DEF IInv, FilesSound, StartedStays
  <2>2. FiledUnderItsOrder'
    BY <1>3 DEF IInv, FilesSound, FiledUnderItsOrder, ReceiptSound
  <2>3. QED
    BY <2>1, <2>2 DEF FilesSound
<1>9. ConfigSound' /\ RegistrySound' /\ LedgerSound' /\ JobsSound'
  BY <1>1, <1>2, LedgerStays, JobsStay DEF IInv, ConfigSound, RegistrySound, service
<1>10. QED
  BY <1>6, <1>7, <1>8, <1>9 DEF IInv

LEMMA SaveOrderArtifactsStep ==
  ASSUME IInv, NEW c \in Calls, SaveOrderArtifacts(c)
  PROVE  IInv'
<1>1. /\ calls[c].pc \in {"save", "saved"} /\ calls[c].leg = "intake"
      /\ UNCHANGED <<config, service, ledger, faults>>
  BY DEF SaveOrderArtifacts
<1>2. PICK call : call = calls[c]
  OBVIOUS
<1>3. CallForm(call) /\ CallSound(c, call)
  BY <1>1, <1>2 DEF IInv, TypeOK, CallsSound
<1>4. StepSound(c, call) /\ AnswerSound(c, call) /\ EnvelopeSound(c, call)
  BY <1>3 DEF CallSound
<1>5. known \subseteq Calls /\ c \in Orders
  BY DEF IInv, TypeOK, Calls, Orders
<1>6. call.args.verb # "collect"
  BY <1>1, <1>2, <1>4 DEF StepSound
<1>7. files[c].accepted = {}
  BY <1>1, <1>2, <1>4 DEF AnswerSound
<1>8. DOMAIN files[c] = FileFields /\ \A r \in files[c].receipt : ReceiptSound(r, c)
  BY <1>5 DEF IInv, TypeOK, FilesSound, FiledUnderItsOrder, ReceiptSound
<1>9. CASE /\ calls[c].pc = "save"
           /\ files' = [files EXCEPT ![c] = [files[c] EXCEPT !.mandate = calls[c].envelope]]
           /\ Goto(c, "saved")
           /\ UNCHANGED known
  <2>1. PICK file : file = [files[c] EXCEPT !.mandate = calls[c].envelope]
    OBVIOUS
  <2>2. /\ DOMAIN file = FileFields /\ file.mandate = call.envelope
        /\ file.accepted = {} /\ file.receipt = files[c].receipt
    BY <1>2, <1>7, <1>8, <2>1 DEF FileFields
  <2>3. PICK new : new = [call EXCEPT !.pc = "saved"]
    OBVIOUS
  <2>4. Becomes(c, new) /\ files' = [files EXCEPT ![c] = file] /\ known' = known
    BY <1>2, <1>9, <2>1, <2>3 DEF Goto
  <2>5. /\ DOMAIN new = CallFields /\ new.pc = "saved" /\ new.args = call.args
        /\ new.order = call.order /\ new.envelope = call.envelope
        /\ new.leg = call.leg /\ new.owned = call.owned /\ new.polls = call.polls
        /\ new.sent = call.sent /\ new.got = call.got /\ new.exit = call.exit /\ new.signed = call.signed
    BY <1>3, <2>3, GotoForm DEF CallForm
  <2>6. CallForm(new)
    BY <1>3, <2>5 DEF CallForm
  <2>7. files'[c] = file
    BY <1>5, <2>4 DEF IInv, TypeOK
  <2>8. CallSound(c, new)'
    <3>1. StepSound(c, new)
      BY <1>1, <1>2, <1>4, <2>5 DEF StepSound
    <3>2. AnswerSound(c, new)'
      BY <1>1, <1>2, <1>4, <1>9, <2>2, <2>5, <2>7 DEF AnswerSound
    <3>3. FadesAll(call.sent, new.sent)
      BY <1>3, <2>5, FadesAllSelf
    <3>4. /\ jobs[c] = {} => jobs'[c] = {}
          /\ \A k \in DOMAIN new.sent : new.sent[k].stage = "claim" => KeepsFor(call.sent[k].header)
      BY <1>1 DEF service, KeepsFor
    <3>5. Grows
      BY <1>1, <2>4, BoundsAssumption DEF Grows, Collectable, service, IInv, TypeOK
    <3>6. new.args.verb = "collect" /\ new.args.base = "contractor" /\ new.owned =>
            new.pc \in {"ask", "save", "ended"} /\ new.exit # 1 /\ \A t \in ledger' : t.by # c
      BY <1>6, <2>5
    <3>7. call.leg = "intake" /\ Spends(c, call, new)
      BY <1>1, <1>2 DEF Spends
    <3>8. QED
      BY <1>3, <2>5, <3>1, <3>2, <3>3, <3>4, <3>5, <3>6, <3>7, CallFades DEF IInv
  <2>9. QED
    BY <1>1, <1>2, <1>5, <1>8, <2>2, <2>4, <2>5, <2>6, <2>8, FileStep
<1>10. CASE /\ calls[c].pc = "saved"
            /\ files' = [files EXCEPT ![c] = [files[c] EXCEPT !.accepted = calls[c].got]]
            /\ known' = known \cup {c}
            /\ IF calls[c].args.verb = "demo" THEN Goto(c, "deliver") ELSE End(c, 0)
  <2>1. PICK file : file = [files[c] EXCEPT !.accepted = calls[c].got]
    OBVIOUS
  <2>2. /\ DOMAIN file = FileFields /\ file.mandate = files[c].mandate
        /\ file.accepted = call.got /\ file.receipt = files[c].receipt
    BY <1>2, <1>8, <2>1 DEF FileFields
  <2>3. \A r \in file.accepted : VerifyEnvelope(r) /\ file.mandate = {r.body.data.mandate}
    <3>1. file.mandate = call.envelope
      BY <1>2, <1>4, <1>10, <2>2 DEF AnswerSound
    <3>2. \A r \in call.got : VerifyEnvelope(r) /\ r.body.data.mandate \in call.envelope
      BY <1>1, <1>2, <1>4, <1>10 DEF AnswerSound
    <3>3. \A x, y \in call.envelope : x = y
      BY <1>4 DEF EnvelopeSound
    <3>4. QED
      BY <2>2, <3>1, <3>2, <3>3
  <2>4. /\ files' = [files EXCEPT ![c] = file]
        /\ known \subseteq known' /\ known' \subseteq Calls
    BY <1>5, <1>10, <2>1
  <2>5. Grows
    BY <1>1, <2>4, BoundsAssumption DEF Grows, Collectable, service, IInv, TypeOK
  <2>6. \E new : /\ Becomes(c, new) /\ CallForm(new) /\ CallSound(c, new)'
                 /\ new.envelope = call.envelope
    <3>1. CASE calls[c].args.verb # "demo"
      <4>1. PICK new : new = Ended(call, 0)
        OBVIOUS
      <4>2. Becomes(c, new)
        BY <1>2, <1>10, <3>1, <4>1 DEF End
      <4>3. CallForm(new) /\ new.envelope = call.envelope
        BY <1>3, <4>1, EndForm
      <4>4. /\ jobs[c] = {} => jobs'[c] = {}
            /\ \A t \in ledger' : t \in ledger
            /\ \A k \in DOMAIN call.sent : call.sent[k].stage = "claim" => KeepsFor(call.sent[k].header)
        BY <1>1 DEF service, KeepsFor
      <4>5. CallSound(c, Ended(call, 0))'
        BY <1>3, <1>6, <2>5, <4>4, EndSound DEF IInv
      <4>6. QED
        BY <4>1, <4>2, <4>3, <4>5
    <3>2. CASE calls[c].args.verb = "demo"
      <4>1. PICK new : new = [call EXCEPT !.pc = "deliver"]
        OBVIOUS
      <4>2. Becomes(c, new)
        BY <1>2, <1>10, <3>2, <4>1 DEF Goto
      <4>3. /\ DOMAIN new = CallFields /\ new.pc = "deliver" /\ new.args = call.args
            /\ new.order = call.order /\ new.envelope = call.envelope
            /\ new.leg = call.leg /\ new.owned = call.owned /\ new.polls = call.polls
            /\ new.sent = call.sent /\ new.got = call.got /\ new.exit = call.exit /\ new.signed = call.signed
        BY <1>3, <4>1, GotoForm DEF CallForm
      <4>4. CallForm(new)
        BY <1>3, <4>3 DEF CallForm
      <4>5. StepSound(c, new)
        BY <1>1, <1>2, <1>4, <1>10, <4>3 DEF StepSound
      <4>6. AnswerSound(c, new)'
        BY <4>3 DEF AnswerSound
      <4>7. FadesAll(call.sent, new.sent)
        BY <1>3, <4>3, FadesAllSelf
      <4>8. /\ jobs[c] = {} => jobs'[c] = {}
            /\ \A k \in DOMAIN new.sent : new.sent[k].stage = "claim" => KeepsFor(call.sent[k].header)
        BY <1>1 DEF service, KeepsFor
      <4>9. call.leg = "intake" /\ new.args.verb # "collect" /\ Spends(c, call, new)
        BY <1>1, <1>2, <1>6, <4>3 DEF Spends
      <4>10. CallSound(c, new)'
        BY <1>3, <2>5, <4>3, <4>5, <4>6, <4>7, <4>8, <4>9, CallFades DEF IInv
      <4>11. QED
        BY <4>2, <4>3, <4>4, <4>10
    <3>3. QED
      BY <3>1, <3>2
  <2>7. \A r \in file.receipt : ReceiptSound(r, c)
    BY <1>8, <2>2
  <2>8. calls[c].pc # "off"
    BY <1>1
  <2>9. QED
    BY <1>1, <1>2, <1>5, <2>2, <2>3, <2>4, <2>6, <2>7, <2>8, FileStep
<1>11. QED
  BY <1>9, <1>10 DEF SaveOrderArtifacts

LEMMA SaveReceiptArtifactStep ==
  ASSUME IInv, NEW c \in Calls, SaveReceiptArtifact(c)
  PROVE  IInv'
<1>1. PICK call : call = calls[c]
  OBVIOUS
<1>2. PICK m : m = call.order
  OBVIOUS
<1>3. PICK file : file = [files[m] EXCEPT !.receipt = call.got]
  OBVIOUS
<1>4. /\ call.pc = "save" /\ call.leg = "balance"
      /\ files' = [files EXCEPT ![m] = file]
      /\ Becomes(c, Ended(call, 0))
      /\ UNCHANGED <<config, service, ledger, known, faults>>
  BY <1>1, <1>2, <1>3 DEF SaveReceiptArtifact, End
<1>5. CallForm(call) /\ CallSound(c, call)
  BY <1>1, <1>4 DEF IInv, TypeOK, CallsSound
<1>6. AnswerSound(c, call) /\ OwnedSound(c, call)
  BY <1>5 DEF CallSound
<1>7. m \in Orders /\ known \subseteq Calls
  BY <1>2, <1>5 DEF CallForm, IInv, TypeOK
<1>8. DOMAIN files[m] = FileFields
  BY <1>7 DEF IInv, TypeOK
<1>9. /\ DOMAIN file = FileFields /\ file.mandate = files[m].mandate
      /\ file.accepted = files[m].accepted /\ file.receipt = call.got
  BY <1>3, <1>8 DEF FileFields
<1>10. /\ \A r \in file.accepted : VerifyEnvelope(r) /\ file.mandate = {r.body.data.mandate}
       /\ \A r \in file.receipt : ReceiptSound(r, m)
  BY <1>2, <1>4, <1>6, <1>7, <1>9 DEF AnswerSound, IInv, FilesSound, FiledUnderItsOrder
<1>11. Grows
  BY <1>4, BoundsAssumption DEF Grows, Collectable, service, IInv, TypeOK
<1>12. /\ jobs[c] = {} => jobs'[c] = {}
       /\ \A t \in ledger' : t \in ledger
       /\ \A k \in DOMAIN call.sent : call.sent[k].stage = "claim" => KeepsFor(call.sent[k].header)
  BY <1>4 DEF service, KeepsFor
<1>13. call.args.verb = "collect" /\ call.args.base = "contractor" /\ call.owned =>
         0 # 1 /\ \A t \in ledger' : t.by # c
  BY <1>4, <1>6 DEF OwnedSound
<1>14. PICK new : new = Ended(call, 0)
  OBVIOUS
<1>15. CallForm(new) /\ new.envelope = call.envelope
  BY <1>5, <1>14, EndForm
<1>16. CallSound(c, Ended(call, 0))'
  BY <1>5, <1>11, <1>12, <1>13, EndSound DEF IInv
<1>17. Becomes(c, new) /\ CallSound(c, new)' /\ calls[c].pc # "off"
  BY <1>1, <1>4, <1>14, <1>16
<1>18. QED
  BY <1>1, <1>4, <1>7, <1>9, <1>10, <1>15, <1>17, FileStep

(* A deliverable is recorded.                                              *)
LEMMA DeliveredSound ==
  ASSUME TypeOK, JobsSound, NEW m \in Orders, jobs' = Delivered(m),
         ledger' = ledger, config' = config
  PROVE  /\ JobsSound'
         /\ jobs' = [x \in Orders |-> jobs'[x]]
         /\ \A x \in Orders : \A job \in jobs'[x] : DOMAIN job = JobFields
         /\ \A x \in Orders : Collectable(x) => Collectable(x)'
         /\ \A x \in Orders : jobs[x] = {} => jobs'[x] = {}
<1> DEFINE Done(job) == [job EXCEPT !.delivered = TRUE]
<1>1. /\ jobs' = [x \in Orders |-> jobs'[x]]
      /\ jobs'[m] = {Done(job) : job \in jobs[m]}
      /\ \A x \in Orders : x # m => jobs'[x] = jobs[x]
  BY DEF TypeOK, Delivered
<1>2. ASSUME NEW job \in jobs[m]
      PROVE  /\ DOMAIN Done(job) = JobFields
             /\ Done(job).envelope = job.envelope /\ Done(job).receipt = job.receipt
  <2>1. DOMAIN job = JobFields
    BY DEF TypeOK
  <2>2. QED
    BY <2>1 DEF JobFields
<1> HIDE DEF Done
<1>3. \A x \in Orders : jobs[x] = {} => jobs'[x] = {}
  BY <1>1
<1>4. \A x \in Orders : \A job \in jobs'[x] : DOMAIN job = JobFields
  BY <1>1, <1>2 DEF TypeOK
<1>5. \A x \in Orders : Collectable(x) => Collectable(x)'
  BY <1>1, <1>2 DEF Collectable
<1>6. JobsSound'
  <2>1. ASSUME NEW x \in Orders
        PROVE  /\ \A y, z \in jobs'[x] : y = z
               /\ \A job \in jobs'[x] :
                    /\ job.envelope.body.data.order = x
                    /\ \A r \in job.receipt : ReceiptSound(r, x)
    <3>1. CASE x = m
      <4>1. /\ \A y, z \in jobs[m] : y = z
            /\ \A job \in jobs[m] :
                 /\ job.envelope.body.data.order = m
                 /\ \A r \in job.receipt : ReceiptSound(r, m)
        BY DEF JobsSound
      <4>2. \A y, z \in jobs'[m] : y = z
        BY <1>1, <4>1
      <4>3. \A job \in jobs'[m] : /\ job.envelope.body.data.order = m
                                  /\ \A r \in job.receipt : ReceiptSound(r, m)
        BY <1>1, <1>2, <4>1
      <4>4. QED
        BY <3>1, <4>2, <4>3
    <3>2. CASE x # m
      BY <1>1, <3>2 DEF JobsSound
    <3>3. QED
      BY <3>1, <3>2
  <2>2. \A x \in Orders : jobs'[x] # {} => jobs[x] # {}
    BY <1>1
  <2>3. \A x \in Orders : jobs'[x] # {} =>
          /\ \E t \in ledger' : t.by = x /\ t.leg = "intake"
          /\ config'.service # {} /\ config'.customer # {}
    BY <2>2 DEF JobsSound
  <2>4. QED
    BY <2>1, <2>3 DEF JobsSound
<1>7. QED
  BY <1>1, <1>3, <1>4, <1>5, <1>6

LEMMA DemoDeliversStep ==
  ASSUME IInv, NEW c \in Calls, DemoDelivers(c)
  PROVE  IInv'
<1>1. PICK call : call = calls[c]
  OBVIOUS
<1>2. /\ call.pc = "deliver" /\ jobs' = Delivered(c)
      /\ UNCHANGED <<config, synced, registry, ledger, known, files, faults>>
  BY <1>1 DEF DemoDelivers
<1>3. c \in Orders
  BY DEF Calls, Orders
<1>4. CallForm(call) /\ CallSound(c, call)
  BY <1>1, <1>2 DEF IInv, TypeOK, CallsSound
<1>5. StepSound(c, call) /\ AnswerSound(c, call) /\ SendingSound(call)
  BY <1>4 DEF CallSound
<1>6. call.leg = "intake" /\ call.args.verb # "collect"
  BY <1>2, <1>5 DEF StepSound
<1>7. /\ JobsSound'
      /\ jobs' = [x \in Orders |-> jobs'[x]]
      /\ \A x \in Orders : \A job \in jobs'[x] : DOMAIN job = JobFields
      /\ \A x \in Orders : Collectable(x) => Collectable(x)'
      /\ \A x \in Orders : jobs[x] = {} => jobs'[x] = {}
  BY <1>2, <1>3, DeliveredSound DEF IInv
<1>8. Grows
  BY <1>2, <1>7, BoundsAssumption DEF Grows, IInv, TypeOK
<1>9. /\ jobs[c] = {} => jobs'[c] = {}
      /\ \A t \in ledger' : t \in ledger
      /\ \A k \in DOMAIN call.sent : call.sent[k].stage = "claim" => KeepsFor(call.sent[k].header)
  BY <1>2, <1>3, <1>7 DEF KeepsFor
<1>10. \E new : /\ Becomes(c, new) /\ CallForm(new) /\ CallSound(c, new)'
                /\ new.envelope = call.envelope
  <2>1. CASE jobs[c] = {}
    <3>1. PICK new : new = Ended(call, 1)
      OBVIOUS
    <3>2. Becomes(c, new)
      BY <1>1, <2>1, <3>1 DEF DemoDelivers, End
    <3>3. CallForm(new) /\ new.envelope = call.envelope
      BY <1>4, <3>1, EndForm
    <3>4. CallSound(c, Ended(call, 1))'
      BY <1>4, <1>6, <1>8, <1>9, EndSound DEF IInv
    <3>5. QED
      BY <3>1, <3>2, <3>3, <3>4
  <2>2. CASE jobs[c] # {}
    <3>1. PICK new : new = [call EXCEPT !.pc = "ask", !.leg = "balance"]
      OBVIOUS
    <3>2. Becomes(c, new)
      BY <1>1, <2>2, <3>1 DEF DemoDelivers
    <3>3. /\ DOMAIN new = CallFields /\ new.pc = "ask" /\ new.leg = "balance"
          /\ new.args = call.args /\ new.order = call.order /\ new.envelope = call.envelope
          /\ new.owned = call.owned /\ new.polls = call.polls
          /\ new.sent = call.sent /\ new.got = call.got /\ new.exit = call.exit /\ new.signed = call.signed
      BY <1>4, <3>1, TurnedForm DEF CallForm
    <3>4. CallForm(new)
      BY <1>4, <3>3 DEF CallForm
    <3>5. StepSound(c, new)
      BY <1>5, <1>6, <3>3 DEF StepSound
    <3>6. AnswerSound(c, new)'
      BY <3>3 DEF AnswerSound
    <3>7. FadesAll(call.sent, new.sent)
      BY <1>4, <3>3, FadesAllSelf
    <3>8. \A k \in DOMAIN new.sent : new.sent[k].stage = "claim" => KeepsFor(call.sent[k].header)
      BY <1>9, <3>3
    <3>9. Spends(c, call, new)
      BY <1>2 DEF Spends
    <3>10. QED
      BY <1>4, <1>6, <1>8, <1>9, <3>2, <3>3, <3>4, <3>5, <3>6, <3>7, <3>8, <3>9, CallFades DEF IInv
  <2>3. QED
    BY <2>1, <2>2
<1>11. PICK new : /\ Becomes(c, new) /\ CallForm(new) /\ CallSound(c, new)'
                  /\ new.envelope = call.envelope
  BY <1>10
<1>12. StartedStays
  BY <1>1, <1>11, StartedMoves DEF IInv, CallForm
<1>13. \A d \in Calls : Undisturbed(d)
  BY <1>2, <1>7 DEF Undisturbed, KeepsFor, Calls, Orders
<1>14. CallsSound'
  BY <1>8, <1>11, <1>13, CallMoves DEF IInv
<1>15. TypeOK'
  <2>1. /\ calls' = [d \in Calls |-> calls'[d]]
        /\ calls'[c] = new
        /\ \A d \in Calls : d # c => calls'[d] = calls[d]
    BY <1>11, Moved DEF IInv
  <2>2. \A d \in Calls : calls'[d].pc # "off" => CallForm(calls'[d])
    BY <1>11, <2>1 DEF IInv, TypeOK
  <2>3. QED
    BY <1>2, <1>7, <2>1, <2>2 DEF IInv, TypeOK
<1>16. ConfigSound' /\ RegistrySound' /\ LedgerSound' /\ FilesSound'
  BY <1>2, <1>12, LedgerStays, FilesStay DEF IInv, ConfigSound, RegistrySound
<1>17. QED
  BY <1>7, <1>14, <1>15, <1>16 DEF IInv

(* No invocation moves.                                                    *)
LEMMA CallsStay ==
  ASSUME IInv, calls' = calls, Grows, \A d \in Calls : Undisturbed(d)
  PROVE  CallsSound' /\ StartedStays
<1>1. \A d \in Calls : calls[d].pc # "off" => CallSound(d, calls[d])'
  BY CallStays DEF IInv
<1>2. QED
  BY <1>1 DEF CallsSound, StartedStays, Started

LEMMA SyncStep ==
  ASSUME IInv, Sync
  PROVE  IInv'
<1>1. synced' = TRUE /\ UNCHANGED <<config, registry, jobs, ledger, calls, known, files, faults>>
  BY DEF Sync
<1>2. Grows
  BY <1>1, BoundsAssumption DEF Grows, Collectable, IInv, TypeOK
<1>3. \A d \in Calls : Undisturbed(d)
  BY <1>1 DEF Undisturbed, KeepsFor
<1>4. CallsSound' /\ StartedStays
  BY <1>1, <1>2, <1>3, CallsStay
<1>5. TypeOK'
  BY <1>1 DEF IInv, TypeOK
<1>6. QED
  BY <1>1, <1>2, <1>4, <1>5, LedgerStays, JobsStay, FilesStay
     DEF IInv, ConfigSound, RegistrySound

LEMMA OperatorStep ==
  ASSUME IInv, NEW m \in Orders, Operator(m)
  PROVE  IInv'
<1>1. jobs' = Delivered(m)
      /\ UNCHANGED <<config, synced, registry, ledger, calls, known, files, faults>>
  BY DEF Operator
<1>2. /\ JobsSound'
      /\ jobs' = [x \in Orders |-> jobs'[x]]
      /\ \A x \in Orders : \A job \in jobs'[x] : DOMAIN job = JobFields
      /\ \A x \in Orders : Collectable(x) => Collectable(x)'
      /\ \A x \in Orders : jobs[x] = {} => jobs'[x] = {}
  BY <1>1, DeliveredSound DEF IInv
<1>3. Grows
  BY <1>1, <1>2, BoundsAssumption DEF Grows, IInv, TypeOK
<1>4. \A d \in Calls : Undisturbed(d)
  BY <1>1, <1>2 DEF Undisturbed, KeepsFor, Calls, Orders
<1>5. CallsSound' /\ StartedStays
  BY <1>1, <1>3, <1>4, CallsStay
<1>6. TypeOK'
  BY <1>1, <1>2 DEF IInv, TypeOK
<1>7. QED
  BY <1>1, <1>2, <1>3, <1>5, <1>6, LedgerStays, FilesStay
     DEF IInv, ConfigSound, RegistrySound

-----------------------------------------------------------------------------
(* The contractor.                                                         *)

(* Another request of the same kind that has a settlement.                 *)
Rival(call, k) ==
  \E j \in DOMAIN call.sent :
    j # k /\ Holds(call.sent[j]) /\ call.sent[j].leg = call.sent[k].leg

LEMMA ServeSound ==
  ASSUME TypeOK, Grows, NEW c \in Calls, NEW call, CallForm(call), CallSound(c, call),
         NEW k \in DOMAIN call.sent, NEW q, RequestForm(q), RequestSound(c, q)',
         q.leg = call.sent[k].leg, q.header = call.sent[k].header,
         \A t \in ledger' : t \in ledger \/ t.by # c \/ (t = q.header /\ t.leg = q.leg),
         Holds(q) => ~ Rival(call, k),
         files'[c] = files[c],
         \A j \in DOMAIN call.sent :
           j # k =>
             /\ call.sent[j].stage = "claim" => KeepsFor(call.sent[j].header)
             /\ call.sent[j].leg = "intake" /\ call.sent[j].stage \in {"claim", "work"}
                  /\ jobs[c] = {} => jobs'[c] = {},
         NEW new, new = [call EXCEPT !.sent = [call.sent EXCEPT ![k] = q]]
  PROVE  /\ CallForm(new) /\ CallSound(c, new)'
         /\ new.pc = call.pc /\ new.envelope = call.envelope
<1>1. PICK sent : sent = [call.sent EXCEPT ![k] = q]
  OBVIOUS
<1>2. /\ IsRow(sent) /\ Len(sent) = Len(call.sent) /\ DOMAIN sent = DOMAIN call.sent
      /\ sent[k] = q
      /\ \A j \in DOMAIN call.sent : j # k => sent[j] = call.sent[j]
  BY <1>1, RowExcept DEF CallForm
<1>3. /\ DOMAIN new = CallFields /\ new.pc = call.pc /\ new.sent = sent
      /\ new.args = call.args /\ new.order = call.order /\ new.envelope = call.envelope
      /\ new.leg = call.leg /\ new.owned = call.owned /\ new.polls = call.polls
      /\ new.got = call.got /\ new.exit = call.exit /\ new.signed = call.signed
  BY <1>1, ServedForm DEF CallForm
<1>4. CallForm(new)
  BY <1>2, <1>3 DEF CallForm
<1>5. RequestsSound(c, new)'
  <2>1. ASSUME NEW j \in DOMAIN call.sent, j # k
        PROVE  RequestSound(c, sent[j])'
    <3>1. PICK r : r = call.sent[j]
      OBVIOUS
    <3>2. RequestForm(r) /\ RequestSound(c, r) /\ Fades(r, r)
      BY <3>1, FadesOnce DEF CallForm, CallSound, RequestsSound
    <3>3. /\ r.stage = "claim" => KeepsFor(r.header)
          /\ r.leg = "intake" /\ r.stage \in {"claim", "work"} /\ jobs[c] = {} => jobs'[c] = {}
      BY <2>1, <3>1
    <3>4. RequestSound(c, r)'
      BY <3>2, <3>3, RequestFades
    <3>5. QED
      BY <1>2, <2>1, <3>1, <3>4
  <2>2. RequestSound(c, sent[k])'
    BY <1>2
  <2>3. \A j \in DOMAIN sent : RequestSound(c, sent[j])'
    BY <1>2, <2>1, <2>2
  <2>4. \A j \in DOMAIN sent : sent[j].leg = call.sent[j].leg
    BY <1>2
  <2>5. ASSUME NEW i \in DOMAIN sent, NEW j \in DOMAIN sent,
               Holds(sent[i]), Holds(sent[j]), sent[i].leg = sent[j].leg
        PROVE  i = j
    <3>1. CASE i # k /\ j # k
      BY <1>2, <2>5, <3>1 DEF CallSound, RequestsSound
    <3>2. CASE i = k /\ j # k
      BY <1>2, <2>4, <2>5, <3>2 DEF Rival
    <3>3. CASE i # k /\ j = k
      BY <1>2, <2>4, <2>5, <3>3 DEF Rival
    <3>4. QED
      BY <3>1, <3>2, <3>3
  <2>6. \A j \in DOMAIN sent :
          sent[j].leg = "intake" => call.args.verb # "collect" /\ call.envelope # {}
    BY <1>2, <2>4 DEF CallSound, RequestsSound
  <2>7. QED
    BY <1>3, <2>3, <2>5, <2>6 DEF RequestsSound
<1>6. call.sent # <<>>
  BY RowEmpty
<1>7. EnvelopeSound(c, new)' /\ StepSound(c, new)'
  BY <1>3 DEF CallSound, EnvelopeSound, StepSound, Grows
<1>8. AnswerSound(c, new)'
  BY <1>3 DEF CallSound, AnswerSound
<1>9. SendingSound(new)'
  <2>1. Len(call.sent) \in Nat
    BY RowDomain DEF CallForm
  <2>2. QED
    BY <1>2, <1>3, <1>6, <2>1 DEF CallSound, SendingSound, Grows
<1>10. OwnedSound(c, new)'
  BY <1>3, <1>6 DEF CallSound, OwnedSound
<1>11. SpendingSound(c, new)'
  <2>1. Carries(call.sent, new.sent)
    BY <1>2, <1>3 DEF Carries
  <2>2. Spends(c, call, new)
    BY DEF Spends
  <2>3. new.pc = call.pc /\ new.leg = call.leg /\ SpendingSound(c, call)
    BY <1>3 DEF CallSound
  <2>4. QED
    BY <2>1, <2>2, <2>3, SpendingStays
<1>12. QED
  BY <1>3, <1>4, <1>5, <1>7, <1>8, <1>9, <1>10, <1>11 DEF CallSound

LEMMA ServeStep ==
  ASSUME IInv, Grows, NEW c \in Calls, calls[c].pc # "off", NEW k \in DOMAIN calls[c].sent,
         NEW q, Serve(c, k, q), RequestForm(q), RequestSound(c, q)',
         q.leg = calls[c].sent[k].leg, q.header = calls[c].sent[k].header,
         \A t \in ledger' : t \in ledger \/ t.by # c \/ (t = q.header /\ t.leg = q.leg),
         Holds(q) => ~ Rival(calls[c], k),
         files' = files,
         \A j \in DOMAIN calls[c].sent :
           j # k =>
             /\ calls[c].sent[j].stage = "claim" => KeepsFor(calls[c].sent[j].header)
             /\ calls[c].sent[j].leg = "intake" /\ calls[c].sent[j].stage \in {"claim", "work"}
                  /\ jobs[c] = {} => jobs'[c] = {},
         \A d \in Calls : d # c /\ calls[d].pc # "off" => Undisturbed(d)
  PROVE  /\ CallsSound' /\ StartedStays
         /\ calls' = [d \in Calls |-> calls'[d]]
         /\ \A d \in Calls : calls'[d].pc # "off" => CallForm(calls'[d])
<1>1. PICK call : call = calls[c]
  OBVIOUS
<1>2. CallForm(call) /\ CallSound(c, call) /\ TypeOK
  BY <1>1 DEF IInv, TypeOK, CallsSound
<1>3. PICK new : new = [call EXCEPT !.sent = [call.sent EXCEPT ![k] = q]]
  OBVIOUS
<1>4. Becomes(c, new)
  BY <1>1, <1>3 DEF Serve
<1>5. /\ CallForm(new) /\ CallSound(c, new)'
      /\ new.pc = call.pc /\ new.envelope = call.envelope
  BY <1>1, <1>2, <1>3, ServeSound
<1>6. /\ calls' = [d \in Calls |-> calls'[d]]
      /\ calls'[c] = new
      /\ \A d \in Calls : d # c => calls'[d] = calls[d]
  BY <1>2, <1>4, Moved
<1>7. \A d \in Calls : calls'[d].pc # "off" => CallForm(calls'[d])
  BY <1>2, <1>5, <1>6 DEF TypeOK
<1>8. CallsSound'
  BY <1>2, <1>4, <1>5, CallMoves DEF IInv
<1>9. StartedStays
  BY <1>1, <1>2, <1>4, <1>5, StartedMoves
<1>10. QED
  BY <1>6, <1>7, <1>8, <1>9

(* A request is served and nothing else changes.                           *)
LEMMA QuietServeStep ==
  ASSUME IInv, NEW c \in Calls, calls[c].pc # "off", NEW k \in DOMAIN calls[c].sent,
         NEW q, Serve(c, k, q), RequestForm(q), RequestSound(c, q),
         q.leg = calls[c].sent[k].leg, q.header = calls[c].sent[k].header,
         Holds(q) => ~ Rival(calls[c], k),
         UNCHANGED <<config, service, ledger, known, files, faults>>
  PROVE  IInv'
<1>1. Grows
  BY BoundsAssumption DEF Grows, Collectable, service, IInv, TypeOK
<1>2. \A d \in Calls : Undisturbed(d)
  BY DEF Undisturbed, KeepsFor, service
<1>3. RequestSound(c, q)'
  BY DEF RequestSound, service
<1>4. \A j \in DOMAIN calls[c].sent :
           j # k =>
             /\ calls[c].sent[j].stage = "claim" => KeepsFor(calls[c].sent[j].header)
             /\ calls[c].sent[j].leg = "intake" /\ calls[c].sent[j].stage \in {"claim", "work"}
                  /\ jobs[c] = {} => jobs'[c] = {}
  BY DEF KeepsFor, service
<1>5. /\ CallsSound' /\ StartedStays
      /\ calls' = [d \in Calls |-> calls'[d]]
      /\ \A d \in Calls : calls'[d].pc # "off" => CallForm(calls'[d])
  BY <1>1, <1>2, <1>3, <1>4, ServeStep
<1>6. TypeOK'
  BY <1>5 DEF IInv, TypeOK, service
<1>7. QED
  BY <1>1, <1>5, <1>6, LedgerStays, JobsStay, FilesStay
     DEF IInv, ConfigSound, RegistrySound, service

(* A request at hand.                                                      *)
LEMMA RequestAt ==
  ASSUME IInv, NEW c \in Calls, calls[c].pc # "off", NEW k \in DOMAIN calls[c].sent
  PROVE  /\ RequestForm(calls[c].sent[k]) /\ RequestSound(c, calls[c].sent[k])
         /\ Holds(calls[c].sent[k]) => ~ Rival(calls[c], k)
         /\ calls[c].sent[k].leg = "intake" =>
              calls[c].args.verb # "collect" /\ calls[c].envelope # {}
         /\ CallForm(calls[c]) /\ CallSound(c, calls[c])
BY DEF IInv, TypeOK, CallsSound, CallSound, CallForm, RequestsSound, Rival

Replied(r, a) == [r EXCEPT !.stage = "answered", !.answer = a]

LEMMA ReplySound ==
  ASSUME NEW c, NEW r, RequestForm(r), RequestSound(c, r), NEW a, a.status # 500,
         r.leg = "intake" => a.status \notin {200, 422}
  PROVE  LET q == Replied(r, a)
         IN  /\ RequestForm(q) /\ RequestSound(c, q) /\ q.leg = r.leg /\ q.stage = "answered"
             /\ q.header = r.header
             /\ Holds(q) => Holds(r)
<1> DEFINE q == Replied(r, a)
<1>1. /\ DOMAIN q = RequestFields /\ q.stage = "answered" /\ q.answer = a
      /\ q.leg = r.leg /\ q.age = r.age /\ q.took = r.took /\ q.header = r.header
  BY DEF Replied, RequestForm, RequestFields
<1>2. RequestForm(q)
  BY <1>1 DEF RequestForm
<1>3. Holds(q) => Holds(r)
  BY <1>1 DEF Holds
<1>4. RequestSound(c, q)
  BY <1>1, <1>3 DEF RequestSound
<1>5. QED
  BY <1>1, <1>2, <1>3, <1>4

LEMMA AnswerFields ==
  ASSUME NEW status, NEW payment, NEW body
  PROVE  Answer(status, payment, body).status = status
BY DEF Answer

LEMMA GuardAnswers ==
  ASSUME NEW leg, NEW m \in Orders, NEW a \in Guard(leg, m)
  PROVE  leg # "intake" /\ a.status # 500
<1>1. leg # "intake"
  BY DEF Guard
<1>2. CASE jobs[m] = {}
  BY <1>1, <1>2, AnswerFields DEF Guard
<1>3. CASE jobs[m] # {}
  <2>1. a \in UNION {GuardOf(job) : job \in jobs[m]}
    BY <1>1, <1>3 DEF Guard
  <2>2. PICK job \in jobs[m] : a \in GuardOf(job)
    BY <2>1
  <2>3. QED
    BY <1>1, <2>2, AnswerFields DEF GuardOf
<1>4. QED
  BY <1>2, <1>3

LEMMA AdmitStep ==
  ASSUME IInv, NEW c \in Calls, calls[c].pc # "off", NEW k \in DOMAIN calls[c].sent, Admit(c, k)
  PROVE  IInv'
<1>1. PICK r : r = calls[c].sent[k]
  OBVIOUS
<1>2. /\ RequestForm(r) /\ RequestSound(c, r)
      /\ Holds(r) => ~ Rival(calls[c], k)
      /\ calls[c].order \in Orders
  BY <1>1, RequestAt DEF CallForm
<1>3. r.stage = "guard" /\ UNCHANGED <<config, service, ledger, known, files, faults>>
  BY <1>1 DEF Admit
<1>4. CASE Guard(r.leg, calls[c].order) = {}
  <2>1. PICK q : q = [r EXCEPT !.stage = "gate"]
    OBVIOUS
  <2>2. Serve(c, k, q)
    BY <1>1, <1>4, <2>1 DEF Admit
  <2>3. /\ DOMAIN q = RequestFields /\ q.stage = "gate" /\ q.answer = r.answer
        /\ q.leg = r.leg /\ q.age = r.age /\ q.took = r.took /\ q.header = r.header
    BY <1>2, <2>1 DEF RequestForm, RequestFields
  <2>4. RequestForm(q) /\ RequestSound(c, q) /\ (Holds(q) => Holds(r))
    BY <1>2, <1>3, <2>3 DEF RequestForm, RequestSound, Holds
  <2>5. QED
    BY <1>1, <1>2, <1>3, <2>2, <2>3, <2>4, QuietServeStep
<1>5. CASE Guard(r.leg, calls[c].order) # {}
  <2>1. PICK a \in Guard(r.leg, calls[c].order) : Reply(c, k, a)
    BY <1>1, <1>5 DEF Admit
  <2>2. PICK q : q = Replied(r, a)
    OBVIOUS
  <2>3. Serve(c, k, q)
    BY <1>1, <2>1, <2>2 DEF Reply, Replied
  <2>4. r.leg # "intake" /\ a.status # 500
    BY <1>2, GuardAnswers
  <2>5. RequestForm(q) /\ RequestSound(c, q) /\ q.leg = r.leg /\ q.header = r.header /\ (Holds(q) => Holds(r))
    BY <1>2, <2>2, <2>4, ReplySound
  <2>6. QED
    BY <1>1, <1>2, <1>3, <2>3, <2>5, QuietServeStep
<1>6. QED
  BY <1>4, <1>5

LEMMA FailStep ==
  ASSUME IInv, NEW c \in Calls, calls[c].pc # "off", NEW k \in DOMAIN calls[c].sent, Fail(c, k)
  PROVE  IInv'
<1>1. PICK r : r = calls[c].sent[k]
  OBVIOUS
<1>2. /\ RequestForm(r) /\ RequestSound(c, r)
      /\ Holds(r) => ~ Rival(calls[c], k)
  BY <1>1, RequestAt
<1>3. PICK a : a = Answer(502, "settled", {})
  OBVIOUS
<1>4. PICK q : q = Replied(r, a)
  OBVIOUS
<1>5. Serve(c, k, q) /\ UNCHANGED <<config, service, ledger, known, files, faults>>
  BY <1>1, <1>3, <1>4 DEF Fail, Reply, Replied
<1>6. a.status = 502
  BY <1>3, AnswerFields
<1>7. RequestForm(q) /\ RequestSound(c, q) /\ q.leg = r.leg /\ q.header = r.header /\ (Holds(q) => Holds(r))
  BY <1>2, <1>4, <1>6, ReplySound
<1>8. QED
  BY <1>1, <1>2, <1>5, <1>7, QuietServeStep

(* A settlement is recorded; others that can be claimed stay.              *)
LEMMA RecordSound ==
  ASSUME TypeOK, RegistrySound, NEW h, NEW payment, payment.tx = h,
         registry' = Record(registry, h, payment)
  PROVE  /\ RegistrySound'
         /\ h \in DOMAIN registry' /\ registry'[h].age = 0
         /\ \A g : g # h => KeepsFor(g)
         /\ \A g \in DOMAIN registry' :
              DOMAIN registry'[g] = {"payment", "age"} /\ registry'[g].age \in 0..(Ttl + 1)
<1> DEFINE kept == Prune(registry)
<1>1. /\ DOMAIN kept = {g \in DOMAIN registry : registry[g].age <= Ttl}
      /\ \A g \in DOMAIN kept : kept[g] = registry[g]
  BY DEF Prune
<1> HIDE DEF kept
<1>2. registry' = [g \in DOMAIN kept \cup {h} |->
                     IF g = h THEN [payment |-> payment, age |-> 0] ELSE kept[g]]
  BY DEF Record, kept
<1>3. /\ DOMAIN registry' = DOMAIN kept \cup {h}
      /\ registry'[h] = [payment |-> payment, age |-> 0]
      /\ \A g \in DOMAIN kept : g # h => registry'[g] = registry[g]
  BY <1>1, <1>2
<1>4. RegistrySound'
  BY <1>1, <1>3 DEF RegistrySound
<1>5. \A g : g # h => KeepsFor(g)
  BY <1>1, <1>3 DEF KeepsFor
<1>6. \A g \in DOMAIN registry' :
        DOMAIN registry'[g] = {"payment", "age"} /\ registry'[g].age \in 0..(Ttl + 1)
  BY <1>1, <1>3, TtlAssumption DEF TypeOK
<1>7. QED
  BY <1>3, <1>4, <1>5, <1>6

(* A payment that is new to the ledger is put there.                       *)
LEMMA PaidStep ==
  ASSUME IInv, NEW c \in Calls, calls[c].pc # "off", NEW k \in DOMAIN calls[c].sent,
         NEW q, Serve(c, k, q), RequestForm(q), RequestSound(c, q)',
         q.leg = calls[c].sent[k].leg, q.header = calls[c].sent[k].header,
         Holds(q) => ~ Rival(calls[c], k),
         calls[c].sent[k].header \notin ledger,
         ledger' = ledger \cup {calls[c].sent[k].header},
         RegistrySound',
         \A g \in DOMAIN registry' :
           DOMAIN registry'[g] = {"payment", "age"} /\ registry'[g].age \in 0..(Ttl + 1),
         \A g : g # calls[c].sent[k].header => KeepsFor(g),
         UNCHANGED <<config, synced, jobs, known, files, faults>>
  PROVE  IInv'
<1>1. PICK h : h = calls[c].sent[k].header
  OBVIOUS
<1>2. h.by = c /\ h.leg = calls[c].sent[k].leg /\ h \notin ledger
  BY <1>1, RequestAt DEF RequestSound
<1>3. Grows
  BY <1>1, BoundsAssumption DEF Grows, Collectable, IInv, TypeOK
<1>4. ASSUME NEW d \in Calls, calls[d].pc # "off", NEW j \in DOMAIN calls[d].sent,
             calls[d].sent[j].stage = "claim"
      PROVE  KeepsFor(calls[d].sent[j].header)
  <2>1. calls[d].sent[j].header \in ledger
    BY <1>4, RequestAt DEF RequestSound, Holds
  <2>2. QED
    BY <1>1, <1>2, <2>1
<1>5. \A j \in DOMAIN calls[c].sent :
           j # k =>
             /\ calls[c].sent[j].stage = "claim" => KeepsFor(calls[c].sent[j].header)
             /\ calls[c].sent[j].leg = "intake" /\ calls[c].sent[j].stage \in {"claim", "work"}
                  /\ jobs[c] = {} => jobs'[c] = {}
  BY <1>4
<1>6. \A d \in Calls : d # c /\ calls[d].pc # "off" => Undisturbed(d)
  BY <1>1, <1>2, <1>4 DEF Undisturbed
<1>7. /\ CallsSound' /\ StartedStays
      /\ calls' = [d \in Calls |-> calls'[d]]
      /\ \A d \in Calls : calls'[d].pc # "off" => CallForm(calls'[d])
  <2>1. \A t \in ledger' : t \in ledger \/ t.by # c \/ (t = q.header /\ t.leg = q.leg)
    BY <1>1, <1>2
  <2>2. QED
    BY <1>3, <1>5, <1>6, <2>1, ServeStep
<1>8. TypeOK'
  BY <1>7 DEF IInv, TypeOK
<1>9. LedgerSound'
  <2>1. c \in Started /\ h.by = c
    BY <1>2 DEF Started
  <2>2. h.leg = "intake" => calls[c].envelope # {}
    BY <1>2, RequestAt
  <2>3. c \in Started' /\ (h.leg = "intake" => calls'[c].envelope # {})
    BY <1>7, <2>1, <2>2 DEF StartedStays
  <2>4. \A u \in ledger : u.by = h.by => u.leg # h.leg
    BY <1>1, <1>2, RequestAt DEF CallSound, SpendingSound
  <2>5. QED
    BY <1>1, <1>7, <2>1, <2>3, <2>4, LedgerAdds DEF IInv
<1>10. ConfigSound' /\ JobsSound' /\ FilesSound'
  BY <1>3, <1>7, JobsStay, FilesStay DEF IInv, ConfigSound
<1>11. QED
  BY <1>7, <1>8, <1>9, <1>10 DEF IInv

LEMMA SettleStep ==
  ASSUME IInv, NEW c \in Calls, calls[c].pc # "off", NEW k \in DOMAIN calls[c].sent, Settle(c, k)
  PROVE  IInv'
<1>1. PICK r : r = calls[c].sent[k]
  OBVIOUS
<1>2. /\ RequestForm(r) /\ RequestSound(c, r)
      /\ Holds(r) => ~ Rival(calls[c], k)
      /\ SpendingSound(c, calls[c])
  BY <1>1, RequestAt DEF CallSound
<1>3. r.stage = "gate" /\ UNCHANGED <<config, synced, jobs, known, files, faults>>
  BY <1>1 DEF Settle
<1>4. PICK a : a = NotSettled
  OBVIOUS
<1>5. PICK refused : refused = Replied(r, a)
  OBVIOUS
<1>6. a.status = 402
  BY <1>4, AnswerFields DEF NotSettled
<1>7. /\ RequestForm(refused) /\ RequestSound(c, refused) /\ refused.leg = r.leg
      /\ refused.header = r.header
      /\ refused.stage = "answered" /\ (Holds(refused) => Holds(r))
  BY <1>2, <1>5, <1>6, ReplySound
<1>8. PICK paid : paid = [r EXCEPT !.stage = "claim"]
  OBVIOUS
<1>9. /\ DOMAIN paid = RequestFields /\ paid.stage = "claim" /\ paid.answer = r.answer
      /\ paid.leg = r.leg /\ paid.age = r.age /\ paid.took = r.took /\ paid.header = r.header
  BY <1>2, <1>8 DEF RequestForm, RequestFields
<1>10. \/ /\ r.header \notin ledger /\ ledger' = ledger \cup {r.header}
          /\ \E payer : registry' = Record(registry, r.header, [tx |-> r.header, payer |-> payer])
          /\ Serve(c, k, paid)
       \/ /\ r.header \notin ledger /\ ledger' = ledger \cup {r.header}
          /\ Serve(c, k, refused) /\ UNCHANGED registry
       \/ Serve(c, k, refused) /\ UNCHANGED <<ledger, registry>>
  BY <1>1, <1>4, <1>5, <1>8 DEF Settle, Reply, Replied
<1>11. CASE /\ r.header \notin ledger /\ ledger' = ledger \cup {r.header}
            /\ \E payer : registry' = Record(registry, r.header, [tx |-> r.header, payer |-> payer])
            /\ Serve(c, k, paid)
  <2>1. PICK payer : registry' = Record(registry, r.header, [tx |-> r.header, payer |-> payer])
    BY <1>11
  <2>2. /\ RegistrySound'
        /\ r.header \in DOMAIN registry' /\ registry'[r.header].age = 0
        /\ \A g : g # r.header => KeepsFor(g)
        /\ \A g \in DOMAIN registry' :
             DOMAIN registry'[g] = {"payment", "age"} /\ registry'[g].age \in 0..(Ttl + 1)
    <3>1. [tx |-> r.header, payer |-> payer].tx = r.header
      OBVIOUS
    <3>2. QED
      BY <2>1, <3>1, RecordSound DEF IInv
  <2>3. ~ Rival(calls[c], k)
    <3>1. SUFFICES ASSUME NEW j \in DOMAIN calls[c].sent, j # k, Holds(calls[c].sent[j]),
                          calls[c].sent[j].leg = r.leg
                   PROVE  FALSE
      BY <1>1 DEF Rival
    <3>2. calls[c].sent[j].header \in ledger
      BY <3>1, RequestAt DEF RequestSound
    <3>3. calls[c].sent[j].header = r.header
      BY <1>1, <1>2, <3>1 DEF SpendingSound
    <3>4. QED
      BY <1>11, <3>2, <3>3
  <2>4. r.leg = "intake" => jobs[c] = {}
    <3>1. SUFFICES ASSUME r.leg = "intake", jobs[c] # {}
                   PROVE  FALSE
      OBVIOUS
    <3>2. PICK t \in ledger : t.by = c /\ t.leg = "intake"
      BY <3>1 DEF IInv, JobsSound, Calls, Orders
    <3>3. t = r.header
      BY <1>1, <1>2, <3>1, <3>2 DEF SpendingSound
    <3>4. QED
      BY <1>11, <3>2, <3>3
  <2>5. RequestForm(paid)
    BY <1>2, <1>9 DEF RequestForm
  <2>6. RequestSound(c, paid)'
    BY <1>2, <1>3, <1>9, <1>11, <2>2, <2>4 DEF RequestSound, Holds
  <2>7. QED
    BY <1>1, <1>3, <1>9, <1>11, <2>2, <2>3, <2>5, <2>6, PaidStep
<1>12. CASE /\ r.header \notin ledger /\ ledger' = ledger \cup {r.header}
            /\ Serve(c, k, refused) /\ UNCHANGED registry
  <2>1. RequestSound(c, refused)'
    BY <1>3, <1>7, <1>12 DEF RequestSound
  <2>2. /\ RegistrySound'
        /\ \A g : KeepsFor(g)
        /\ \A g \in DOMAIN registry' :
             DOMAIN registry'[g] = {"payment", "age"} /\ registry'[g].age \in 0..(Ttl + 1)
    BY <1>12 DEF IInv, RegistrySound, TypeOK, KeepsFor
  <2>3. QED
    BY <1>1, <1>2, <1>3, <1>7, <1>12, <2>1, <2>2, PaidStep
<1>13. CASE Serve(c, k, refused) /\ UNCHANGED <<ledger, registry>>
  <2>1. UNCHANGED <<config, service, ledger, known, files, faults>>
    BY <1>3, <1>13 DEF service
  <2>2. QED
    BY <1>1, <1>2, <1>7, <1>13, <2>1, QuietServeStep
<1>14. QED
  BY <1>10, <1>11, <1>12, <1>13

(* A settlement is claimed; the others stay.                               *)
LEMMA ClaimSound ==
  ASSUME TypeOK, RegistrySound, NEW h, registry' = Claimed(registry, h)
  PROVE  /\ RegistrySound'
         /\ \A p \in Claim(registry, h) : p.tx = h
         /\ Claim(registry, h) = {} => h \notin DOMAIN registry \/ ~ (registry[h].age <= Ttl)
         /\ \A g : g # h => KeepsFor(g)
         /\ \A g \in DOMAIN registry' :
              DOMAIN registry'[g] = {"payment", "age"} /\ registry'[g].age \in 0..(Ttl + 1)
<1>1. /\ DOMAIN registry' = DOMAIN registry \ {h}
      /\ \A g \in DOMAIN registry' : registry'[g] = registry[g]
  BY DEF Claimed
<1>2. RegistrySound'
  BY <1>1 DEF RegistrySound
<1>3. \A p \in Claim(registry, h) : p.tx = h
  BY DEF Claim, RegistrySound
<1>4. h \in DOMAIN registry /\ registry[h].age <= Ttl => registry[h].payment \in Claim(registry, h)
  BY DEF Claim
<1>5. \A g : g # h => KeepsFor(g)
  BY <1>1 DEF KeepsFor
<1>6. \A g \in DOMAIN registry' :
        DOMAIN registry'[g] = {"payment", "age"} /\ registry'[g].age \in 0..(Ttl + 1)
  BY <1>1 DEF TypeOK
<1>7. QED
  BY <1>2, <1>3, <1>4, <1>5, <1>6

LEMMA HandleRequestStep ==
  ASSUME IInv, NEW c \in Calls, calls[c].pc # "off", NEW k \in DOMAIN calls[c].sent,
         HandleRequest(c, k)
  PROVE  IInv'
<1>1. PICK r : r = calls[c].sent[k]
  OBVIOUS
<1>2. PICK claim : claim = Claim(registry, r.header)
  OBVIOUS
<1>3. /\ RequestForm(r) /\ RequestSound(c, r)
      /\ Holds(r) => ~ Rival(calls[c], k)
      /\ r.leg = "intake" => calls[c].args.verb # "collect" /\ calls[c].envelope # {}
      /\ CallSound(c, calls[c])
  BY <1>1, RequestAt
<1>4. /\ r.stage = "claim"
      /\ registry' = Claimed(registry, r.header)
      /\ UNCHANGED <<config, synced, jobs, ledger, known, files, faults>>
  BY <1>1 DEF HandleRequest
<1>5. Holds(r) /\ ~ Rival(calls[c], k)
  BY <1>3, <1>4 DEF Holds
<1>6. /\ RegistrySound'
      /\ \A p \in claim : p.tx = r.header
      /\ claim = {} => r.header \notin DOMAIN registry \/ ~ (registry[r.header].age <= Ttl)
      /\ \A g : g # r.header => KeepsFor(g)
      /\ \A g \in DOMAIN registry' :
           DOMAIN registry'[g] = {"payment", "age"} /\ registry'[g].age \in 0..(Ttl + 1)
  BY <1>2, <1>4, ClaimSound DEF IInv
<1>7. claim = {} => r.age > Ttl
  <2>1. SUFFICES ASSUME claim = {}, r.header \in DOMAIN registry, registry[r.header].age <= r.age
                 PROVE  r.age > Ttl
    BY <1>3, <1>4 DEF RequestSound
  <2>2. registry[r.header].age \in Nat /\ r.age \in Nat /\ Ttl \in Nat
    BY <1>3, <2>1, TtlAssumption DEF IInv, TypeOK, RequestForm
  <2>3. QED
    BY <1>6, <2>1, <2>2
<1>8. r.leg = "intake" => jobs[c] = {} /\ calls[c].order = c /\ ~ \E e \in calls[c].envelope : Refuse(e)
  BY <1>3, <1>4 DEF RequestSound, CallSound, StepSound, EnvelopeSound
<1>9. PICK q : /\ Serve(c, k, q)
               /\ \/ /\ claim = {}
                     /\ q = [r EXCEPT !.took = claim, !.stage = "answered",
                                      !.answer = Answer(500, "settled", {})]
                  \/ /\ claim # {}
                     /\ q = [r EXCEPT !.took = claim, !.stage = "work"]
  BY <1>1, <1>2, <1>8 DEF HandleRequest
<1>10. /\ DOMAIN q = RequestFields /\ q.leg = r.leg /\ q.age = r.age /\ q.header = r.header
       /\ q.took = claim
       /\ \/ claim = {} /\ q.stage = "answered" /\ q.answer = Answer(500, "settled", {})
          \/ claim # {} /\ q.stage = "work" /\ q.answer = r.answer
  BY <1>3, <1>9 DEF RequestForm, RequestFields
<1>11. RequestForm(q)
  BY <1>3, <1>10 DEF RequestForm
<1>12. RequestSound(c, q)'
  <2>1. /\ q.answer.status = 500 => q.age > Ttl
        /\ q.leg = "intake" => q.answer.status \notin {200, 422}
    BY <1>3, <1>7, <1>10, AnswerFields DEF RequestSound
  <2>2. QED
    BY <1>3, <1>4, <1>5, <1>6, <1>8, <1>10, <2>1 DEF RequestSound, Holds
<1>13. Grows
  BY <1>4, BoundsAssumption DEF Grows, Collectable, IInv, TypeOK
<1>14. \A j \in DOMAIN calls[c].sent :
         j # k =>
           /\ calls[c].sent[j].stage = "claim" => KeepsFor(calls[c].sent[j].header)
           /\ calls[c].sent[j].leg = "intake" /\ calls[c].sent[j].stage \in {"claim", "work"}
                /\ jobs[c] = {} => jobs'[c] = {}
  <2>1. ASSUME NEW j \in DOMAIN calls[c].sent, j # k, calls[c].sent[j].stage = "claim"
        PROVE  KeepsFor(calls[c].sent[j].header)
    <3>1. calls[c].sent[j].leg # r.leg
      BY <1>1, <1>5, <2>1 DEF Rival, Holds
    <3>2. PICK other : other = calls[c].sent[j]
      OBVIOUS
    <3>3. other.header.leg = other.leg
      BY <2>1, <3>2, RequestAt DEF RequestSound
    <3>4. r.header.leg = r.leg
      BY <1>3 DEF RequestSound
    <3>5. other.header # r.header
      BY <3>1, <3>2, <3>3, <3>4
    <3>6. QED
      BY <1>6, <3>2, <3>5
  <2>2. QED
    BY <1>4, <2>1
<1>15. \A d \in Calls : d # c /\ calls[d].pc # "off" => Undisturbed(d)
  <2>1. ASSUME NEW d \in Calls, d # c, calls[d].pc # "off", NEW j \in DOMAIN calls[d].sent
        PROVE  KeepsFor(calls[d].sent[j].header)
    <3>1. PICK other : other = calls[d].sent[j]
      OBVIOUS
    <3>2. other.header.by = d
      BY <2>1, <3>1, RequestAt DEF RequestSound
    <3>3. r.header.by = c
      BY <1>3 DEF RequestSound
    <3>4. other.header # r.header
      BY <2>1, <3>2, <3>3
    <3>5. QED
      BY <1>6, <3>1, <3>4
  <2>2. QED
    BY <1>4, <2>1 DEF Undisturbed
<1>16. /\ CallsSound' /\ StartedStays
       /\ calls' = [d \in Calls |-> calls'[d]]
       /\ \A d \in Calls : calls'[d].pc # "off" => CallForm(calls'[d])
  BY <1>1, <1>4, <1>5, <1>9, <1>10, <1>11, <1>12, <1>13, <1>14, <1>15, ServeStep
<1>17. TypeOK'
  BY <1>4, <1>6, <1>16 DEF IInv, TypeOK
<1>18. QED
  BY <1>4, <1>6, <1>13, <1>16, <1>17, LedgerStays, JobsStay, FilesStay DEF IInv, ConfigSound

(* A request is served and a job changes.                                  *)
LEMMA JobStep ==
  ASSUME IInv, NEW c \in Calls, calls[c].pc # "off", NEW k \in DOMAIN calls[c].sent,
         NEW q, Serve(c, k, q), RequestForm(q), RequestSound(c, q), q.stage = "answered",
         q.leg = calls[c].sent[k].leg, q.header = calls[c].sent[k].header,
         Holds(q) => ~ Rival(calls[c], k),
         UNCHANGED <<config, synced, registry, ledger, known, files, faults>>,
         JobsSound',
         jobs' = [m \in Orders |-> jobs'[m]],
         \A m \in Orders : \A job \in jobs'[m] : DOMAIN job = JobFields,
         \A m \in Orders : Collectable(m) => Collectable(m)',
         \A j \in DOMAIN calls[c].sent :
           j # k /\ calls[c].sent[j].leg = "intake" /\ calls[c].sent[j].stage \in {"claim", "work"}
             /\ jobs[c] = {} => jobs'[c] = {},
         \A d \in Calls : d # c /\ jobs[d] = {} => jobs'[d] = {}
  PROVE  IInv'
<1>1. Grows
  BY BoundsAssumption DEF Grows, IInv, TypeOK
<1>2. \A d \in Calls : d # c => Undisturbed(d)
  BY DEF Undisturbed, KeepsFor
<1>3. RequestSound(c, q)'
  BY DEF RequestSound
<1>4. \A j \in DOMAIN calls[c].sent :
        j # k =>
          /\ calls[c].sent[j].stage = "claim" => KeepsFor(calls[c].sent[j].header)
          /\ calls[c].sent[j].leg = "intake" /\ calls[c].sent[j].stage \in {"claim", "work"}
               /\ jobs[c] = {} => jobs'[c] = {}
  BY DEF KeepsFor
<1>5. /\ CallsSound' /\ StartedStays
      /\ calls' = [d \in Calls |-> calls'[d]]
      /\ \A d \in Calls : calls'[d].pc # "off" => CallForm(calls'[d])
  BY <1>1, <1>2, <1>3, <1>4, ServeStep
<1>6. TypeOK'
  BY <1>5 DEF IInv, TypeOK
<1>7. QED
  BY <1>1, <1>5, <1>6, LedgerStays, FilesStay DEF IInv, ConfigSound, RegistrySound

LEMMA AcceptStep ==
  ASSUME IInv, NEW c \in Calls, calls[c].pc # "off", NEW k \in DOMAIN calls[c].sent, Accept(c, k)
  PROVE  IInv'
<1>1. PICK r : r = calls[c].sent[k]
  OBVIOUS
<1>2. /\ RequestForm(r) /\ RequestSound(c, r)
      /\ Holds(r) => ~ Rival(calls[c], k)
      /\ r.leg = "intake" => calls[c].envelope # {}
      /\ CallSound(c, calls[c])
  BY <1>1, RequestAt
<1>3. /\ r.stage = "work" /\ r.leg = "intake"
      /\ UNCHANGED <<config, synced, registry, ledger, known, files, faults>>
  BY <1>1 DEF Accept
<1>4. PICK e \in calls[c].envelope : e = (CHOOSE x \in calls[c].envelope : TRUE)
  BY <1>2, <1>3
<1>5. PICK a : a = Answer(201, "settled", {Accepted(s, e) : s \in config.service})
  OBVIOUS
<1>6. PICK source : source = (CHOOSE t \in r.took : TRUE).payer
  OBVIOUS
<1>7. PICK job : job = [envelope |-> e, payer |-> source, delivered |-> FALSE, receipt |-> {}]
  OBVIOUS
<1>8. PICK q : q = Replied(r, a)
  OBVIOUS
<1>9. jobs' = [jobs EXCEPT ![e.body.data.order] = {job}] /\ Serve(c, k, q)
  BY <1>1, <1>4, <1>5, <1>6, <1>7, <1>8 DEF Accept, Reply, Replied
<1>10. e.body.data.order = c /\ config.customer # {}
  BY <1>2, <1>4 DEF CallSound, EnvelopeSound
<1>11. c \in Orders
  BY DEF Calls, Orders
<1>12. /\ jobs' = [m \in Orders |-> jobs'[m]]
       /\ jobs'[c] = {job}
       /\ \A m \in Orders : m # c => jobs'[m] = jobs[m]
  BY <1>9, <1>10, <1>11 DEF IInv, TypeOK
<1>13. DOMAIN job = JobFields /\ job.envelope = e /\ job.receipt = {}
  BY <1>7 DEF JobFields
<1>14. /\ jobs[c] = {} /\ Holds(r) /\ config.service # {}
       /\ \E t \in ledger : t.by = c /\ t.leg = "intake"
  BY <1>2, <1>3 DEF RequestSound, Holds
<1>15. JobsSound'
  <2>1. ASSUME NEW m \in Orders
        PROVE  /\ \A x, y \in jobs'[m] : x = y
               /\ \A j \in jobs'[m] : /\ j.envelope.body.data.order = m
                                      /\ \A x \in j.receipt : ReceiptSound(x, m)
               /\ jobs'[m] # {} => /\ \E t \in ledger' : t.by = m /\ t.leg = "intake"
                                   /\ config'.service # {} /\ config'.customer # {}
    <3>1. CASE m = c
      BY <1>3, <1>10, <1>12, <1>13, <1>14, <3>1
    <3>2. CASE m # c
      BY <1>3, <1>12, <3>2 DEF IInv, JobsSound
    <3>3. QED
      BY <3>1, <3>2
  <2>2. QED
    BY <2>1 DEF JobsSound
<1>16. \A m \in Orders : \A j \in jobs'[m] : DOMAIN j = JobFields
  BY <1>12, <1>13 DEF IInv, TypeOK
<1>17. \A m \in Orders : Collectable(m) => Collectable(m)'
  BY <1>12, <1>14 DEF Collectable
<1>18. \A j \in DOMAIN calls[c].sent :
         j # k /\ calls[c].sent[j].leg = "intake" => calls[c].sent[j].stage \notin {"claim", "work"}
  <2>1. SUFFICES ASSUME NEW j \in DOMAIN calls[c].sent, j # k, calls[c].sent[j].leg = "intake",
                        calls[c].sent[j].stage \in {"claim", "work"}
                 PROVE  FALSE
    OBVIOUS
  <2>2. Holds(calls[c].sent[j])
    BY <2>1, RequestAt DEF RequestSound, Holds
  <2>3. QED
    BY <1>1, <1>2, <1>3, <1>14, <2>1, <2>2 DEF Rival
<1>19. \A d \in Calls : d # c /\ jobs[d] = {} => jobs'[d] = {}
  BY <1>12 DEF Calls, Orders
<1>20. a.status = 201
  BY <1>5, AnswerFields
<1>21. /\ RequestForm(q) /\ RequestSound(c, q) /\ q.leg = r.leg /\ q.stage = "answered"
       /\ q.header = r.header
       /\ Holds(q) => Holds(r)
  BY <1>2, <1>8, <1>20, ReplySound
<1>22. QED
  BY <1>1, <1>2, <1>3, <1>9, <1>12, <1>15, <1>16, <1>17, <1>18, <1>19, <1>21, JobStep

(* A receipt that is issued can be shown.                                  *)
LEMMA SealedSound ==
  ASSUME NEW s, s.config.key \in Keys, NEW e, NEW payer \in Accounts, NEW m,
         e.body.data.order = m
  PROVE  ReceiptSound(SealReceipt(s, "delivered", e, payer), m)
BY DEF ReceiptSound, SealReceipt, VerifyEnvelope, SignEnvelope

(* A receipt is stored.                                                    *)
LEMMA IssuedSound ==
  ASSUME TypeOK, JobsSound, NEW m \in Orders, NEW receipt,
         \A x \in receipt : ReceiptSound(x, m), receipt # {},
         jobs' = [jobs EXCEPT ![m] = {[job EXCEPT !.receipt = receipt] : job \in jobs[m]}],
         ledger' = ledger, config' = config
  PROVE  /\ JobsSound'
         /\ jobs' = [x \in Orders |-> jobs'[x]]
         /\ \A x \in Orders : \A job \in jobs'[x] : DOMAIN job = JobFields
         /\ \A x \in Orders : Collectable(x) => Collectable(x)'
         /\ \A x \in Orders : jobs[x] = {} => jobs'[x] = {}
<1> DEFINE Done(job) == [job EXCEPT !.receipt = receipt]
<1>1. /\ jobs' = [x \in Orders |-> jobs'[x]]
      /\ jobs'[m] = {Done(job) : job \in jobs[m]}
      /\ \A x \in Orders : x # m => jobs'[x] = jobs[x]
  BY DEF TypeOK
<1>2. ASSUME NEW job \in jobs[m]
      PROVE  /\ DOMAIN Done(job) = JobFields
             /\ Done(job).envelope = job.envelope /\ Done(job).receipt = receipt
  <2>1. DOMAIN job = JobFields
    BY DEF TypeOK
  <2>2. QED
    BY <2>1 DEF JobFields
<1> HIDE DEF Done
<1>3. \A x \in Orders : jobs[x] = {} => jobs'[x] = {}
  BY <1>1
<1>4. \A x \in Orders : \A job \in jobs'[x] : DOMAIN job = JobFields
  BY <1>1, <1>2 DEF TypeOK
<1>5. \A x \in Orders : Collectable(x) => Collectable(x)'
  BY <1>1, <1>2 DEF Collectable
<1>6. JobsSound'
  <2>1. ASSUME NEW x \in Orders
        PROVE  /\ \A y, z \in jobs'[x] : y = z
               /\ \A job \in jobs'[x] :
                    /\ job.envelope.body.data.order = x
                    /\ \A r \in job.receipt : ReceiptSound(r, x)
    <3>1. CASE x = m
      <4>1. (\A y, z \in jobs[m] : y = z) /\ \A job \in jobs[m] : job.envelope.body.data.order = m
        BY DEF JobsSound
      <4>2. \A y, z \in jobs'[m] : y = z
        BY <1>1, <4>1
      <4>3. \A job \in jobs'[m] : /\ job.envelope.body.data.order = m
                                  /\ \A r \in job.receipt : ReceiptSound(r, m)
        BY <1>1, <1>2, <4>1
      <4>4. QED
        BY <3>1, <4>2, <4>3
    <3>2. CASE x # m
      BY <1>1, <3>2 DEF JobsSound
    <3>3. QED
      BY <3>1, <3>2
  <2>2. \A x \in Orders : jobs'[x] # {} => jobs[x] # {}
    BY <1>1
  <2>3. \A x \in Orders : jobs'[x] # {} =>
          /\ \E t \in ledger' : t.by = x /\ t.leg = "intake"
          /\ config'.service # {} /\ config'.customer # {}
    BY <2>2 DEF JobsSound
  <2>4. QED
    BY <2>1, <2>3 DEF JobsSound
<1>7. QED
  BY <1>1, <1>3, <1>4, <1>5, <1>6

LEMMA ReleaseStep ==
  ASSUME IInv, NEW c \in Calls, calls[c].pc # "off", NEW k \in DOMAIN calls[c].sent, Release(c, k)
  PROVE  IInv'
<1>1. PICK r : r = calls[c].sent[k]
  OBVIOUS
<1>2. PICK m : m = calls[c].order
  OBVIOUS
<1>3. PICK receipt : receipt = Issued(m)
  OBVIOUS
<1>4. /\ RequestForm(r) /\ RequestSound(c, r)
      /\ Holds(r) => ~ Rival(calls[c], k)
      /\ m \in Orders
  BY <1>1, <1>2, RequestAt DEF CallForm
<1>5. /\ r.leg = "balance" /\ UNCHANGED <<config, synced, registry, ledger, known, files, faults>>
      /\ IF receipt = {} THEN Reply(c, k, Answer(400, "settled", {})) /\ UNCHANGED jobs
         ELSE /\ jobs' = [jobs EXCEPT ![m] = {[job EXCEPT !.receipt = receipt] : job \in jobs[m]}]
              /\ Reply(c, k, Answer(200, "settled", receipt))
  BY <1>1, <1>2, <1>3 DEF Release
<1>6. CASE receipt = {}
  <2>1. PICK a : a = Answer(400, "settled", {})
    OBVIOUS
  <2>2. PICK q : q = Replied(r, a)
    OBVIOUS
  <2>3. Serve(c, k, q) /\ UNCHANGED <<config, service, ledger, known, files, faults>>
    BY <1>1, <1>5, <1>6, <2>1, <2>2 DEF Reply, Replied, service
  <2>4. a.status = 400
    BY <2>1, AnswerFields
  <2>5. RequestForm(q) /\ RequestSound(c, q) /\ q.leg = r.leg /\ q.header = r.header /\ (Holds(q) => Holds(r))
    BY <1>4, <2>2, <2>4, ReplySound
  <2>6. QED
    BY <1>1, <1>4, <2>3, <2>5, QuietServeStep
<1>7. CASE receipt # {}
  <2>1. \A x \in receipt : ReceiptSound(x, m)
    <3>1. ASSUME NEW s \in config.service, NEW job \in jobs[m], job.payer \in Accounts
          PROVE  ReceiptSound(SealReceipt(s, "delivered", job.envelope, job.payer), m)
      <4>1. s.config.key \in Keys /\ job.envelope.body.data.order = m
        BY <1>4 DEF IInv, ConfigSound, JobsSound
      <4>2. QED
        BY <3>1, <4>1, SealedSound
    <3>2. QED
      BY <1>3, <3>1 DEF Issued
  <2>2. PICK a : a = Answer(200, "settled", receipt)
    OBVIOUS
  <2>3. PICK q : q = Replied(r, a)
    OBVIOUS
  <2>4. /\ Serve(c, k, q)
        /\ jobs' = [jobs EXCEPT ![m] = {[job EXCEPT !.receipt = receipt] : job \in jobs[m]}]
    BY <1>1, <1>5, <1>7, <2>2, <2>3 DEF Reply, Replied
  <2>5. a.status = 200
    BY <2>2, AnswerFields
  <2>6. /\ RequestForm(q) /\ RequestSound(c, q) /\ q.leg = r.leg /\ q.stage = "answered"
        /\ q.header = r.header
        /\ Holds(q) => Holds(r)
    BY <1>4, <1>5, <2>3, <2>5, ReplySound
  <2>7. /\ JobsSound'
        /\ jobs' = [x \in Orders |-> jobs'[x]]
        /\ \A x \in Orders : \A job \in jobs'[x] : DOMAIN job = JobFields
        /\ \A x \in Orders : Collectable(x) => Collectable(x)'
        /\ \A x \in Orders : jobs[x] = {} => jobs'[x] = {}
    BY <1>4, <1>5, <1>7, <2>1, <2>4, IssuedSound DEF IInv
  <2>8. \A d \in Calls : jobs[d] = {} => jobs'[d] = {}
    BY <2>7 DEF Calls, Orders
  <2>9. QED
    BY <1>1, <1>4, <1>5, <2>4, <2>6, <2>7, <2>8, JobStep
<1>8. QED
  BY <1>6, <1>7

(* A request that is sent again starts anew.                               *)
LEMMA SentAgainSound ==
  ASSUME NEW c, NEW r, RequestForm(r), RequestSound(c, r)
  PROVE  LET q == SentAgain(r)
         IN  /\ RequestForm(q) /\ RequestSound(c, q) /\ ~ Holds(q)
             /\ q.leg = r.leg /\ q.header = r.header
<1> DEFINE q == SentAgain(r)
<1>1. /\ DOMAIN q = RequestFields /\ q.stage = "guard" /\ q.age = 0 /\ q.took = {}
      /\ q.answer = NoAnswer /\ q.leg = r.leg /\ q.header = r.header
  BY DEF SentAgain, RequestForm, RequestFields
<1> HIDE DEF q
<1>2. RequestForm(q) /\ ~ Holds(q)
  BY <1>1, TtlAssumption DEF RequestForm, Holds
<1>3. RequestSound(c, q)
  BY <1>1, <1>2 DEF RequestSound, NoAnswer, Answer
<1>4. QED
  BY <1>1, <1>2, <1>3 DEF q

LEMMA RepeatStep ==
  ASSUME IInv, NEW c \in Calls, Repeat(c)
  PROVE  IInv'
<1>1. PICK call : call = calls[c]
  OBVIOUS
<1>2. PICK k \in Copies(c) :
        /\ faults < MaxFaults /\ faults' = faults + 1
        /\ Becomes(c, [calls[c] EXCEPT !.sent = Append(calls[c].sent, SentAgain(calls[c].sent[k]))])
        /\ UNCHANGED <<config, service, ledger, known, files>>
  BY DEF Repeat
<1>3. call.pc = "wait" /\ k \in DOMAIN call.sent
  BY <1>1, <1>2 DEF Copies
<1>4. CallForm(call) /\ CallSound(c, call)
  BY <1>1, <1>3 DEF IInv, TypeOK, CallsSound
<1>5. StepSound(c, call) /\ AnswerSound(c, call) /\ OwnedSound(c, call)
      /\ SendingSound(call) /\ EnvelopeSound(c, call) /\ RequestsSound(c, call)
      /\ SpendingSound(c, call)
  BY <1>4 DEF CallSound
<1>6. faults \in Nat /\ faults' \in Nat /\ faults <= faults' /\ faults' \in 0..MaxFaults
  BY <1>2, BoundsAssumption DEF IInv, TypeOK
<1>7. Grows
  BY <1>2, <1>6 DEF Grows, Collectable, service
<1>8. PICK r : r = SentAgain(call.sent[k])
  OBVIOUS
<1>9. PICK sent : sent = Append(call.sent, r)
  OBVIOUS
<1>10. PICK new : new = [call EXCEPT !.sent = sent]
  OBVIOUS
<1>11. Becomes(c, new)
  BY <1>1, <1>2, <1>8, <1>9, <1>10
<1>12. /\ DOMAIN new = CallFields /\ new.pc = "wait" /\ new.sent = Append(call.sent, r)
       /\ new.args = call.args /\ new.order = call.order /\ new.envelope = call.envelope
       /\ new.leg = call.leg /\ new.owned = call.owned /\ new.polls = call.polls
       /\ new.got = call.got /\ new.exit = call.exit /\ new.signed = call.signed
  BY <1>3, <1>4, <1>9, <1>10, ServedForm DEF CallForm
<1>13. /\ RequestForm(r) /\ RequestSound(c, r) /\ ~ Holds(r) /\ r.leg = call.sent[k].leg
       /\ r.header = call.sent[k].header
  BY <1>3, <1>4, <1>5, <1>8, SentAgainSound DEF CallForm, RequestsSound
<1>14. RequestSound(c, r)'
  BY <1>2, <1>13 DEF RequestSound, service
<1>15. r.leg = "intake" => call.args.verb # "collect" /\ call.envelope # {}
  BY <1>3, <1>5, <1>13 DEF RequestsSound
<1>16. /\ jobs[c] = {} => jobs'[c] = {}
       /\ \A j \in DOMAIN call.sent : call.sent[j].stage = "claim" => KeepsFor(call.sent[j].header)
  BY <1>2 DEF service, KeepsFor
<1>17. /\ RequestsSound(c, new)'
       /\ IsRow(new.sent) /\ Len(new.sent) = Len(call.sent) + 1
       /\ \A j \in DOMAIN new.sent : RequestForm(new.sent[j])
  BY <1>4, <1>5, <1>7, <1>12, <1>13, <1>14, <1>15, <1>16, RequestAdded DEF IInv
<1>18. CallForm(new)
  BY <1>4, <1>12, <1>17 DEF CallForm
<1>19. CallSound(c, new)'
  <2>1. EnvelopeSound(c, new)'
    BY <1>2, <1>5, <1>12 DEF EnvelopeSound
  <2>2. StepSound(c, new)'
    BY <1>3, <1>5, <1>12 DEF StepSound
  <2>3. AnswerSound(c, new)'
    BY <1>2, <1>3, <1>5, <1>12 DEF AnswerSound
  <2>4. SendingSound(new)'
    <3>1. Len(call.sent) \in Nat
      BY <1>4, RowDomain DEF CallForm
    <3>2. Len(call.sent) <= faults + 2 /\ (call.leg = "intake" => Len(call.sent) <= faults + 1)
      BY <1>5 DEF SendingSound
    <3>3. QED
      BY <1>2, <1>6, <1>12, <1>17, <3>1, <3>2 DEF SendingSound
  <2>5. OwnedSound(c, new)'
    BY <1>3, <1>5, <1>12 DEF OwnedSound
  <2>6. SpendingSound(c, new)'
    <3>1. Carries(call.sent, new.sent)
      BY <1>3, <1>4, <1>12, <1>13, RowAppend, RowDomain DEF CallForm, Carries
    <3>2. Spends(c, call, new)
      BY <1>2 DEF Spends
    <3>3. QED
      BY <1>3, <1>5, <1>12, <3>1, <3>2, SpendingStays
  <2>7. QED
    BY <1>17, <2>1, <2>2, <2>3, <2>4, <2>5, <2>6 DEF CallSound
<1>20. known \subseteq Calls /\ calls[c].pc # "off"
  BY <1>1, <1>3 DEF IInv, TypeOK
<1>21. QED
  BY <1>1, <1>2, <1>6, <1>11, <1>12, <1>18, <1>19, <1>20, QuietStep

-----------------------------------------------------------------------------
(* A crash, and the passing of time.                                       *)

LEMMA FadesAllTwice ==
  ASSUME NEW s, NEW t, NEW u, IsRow(s), FadesAll(s, t), FadesAll(t, u)
  PROVE  FadesAll(s, u)
<1>1. Len(s) \in Nat /\ Len(t) \in Nat /\ Len(u) \in Nat
  BY RowDomain DEF FadesAll
<1>2. \A k \in DOMAIN u : Fades(s[k], u[k])
  BY FadesTwice DEF FadesAll
<1>3. QED
  BY <1>1, <1>2 DEF FadesAll

LEMMA CutForm ==
  ASSUME NEW call, CallForm(call)
  PROVE  LET new == Cut(call)
         IN  /\ CallForm(new) /\ FadesAll(call.sent, new.sent)
             /\ \A k \in DOMAIN new.sent : new.sent[k].stage # "claim"
             /\ new.pc = call.pc /\ new.args = call.args /\ new.order = call.order
             /\ new.envelope = call.envelope /\ new.leg = call.leg /\ new.owned = call.owned
             /\ new.got = call.got /\ new.exit = call.exit
<1>1. PICK sent : sent = [k \in DOMAIN call.sent |-> Dead(call.sent[k])]
  OBVIOUS
<1>2. PICK new : new = [call EXCEPT !.sent = sent]
  OBVIOUS
<1>3. /\ DOMAIN new = CallFields /\ new.sent = sent
      /\ new.pc = call.pc /\ new.args = call.args /\ new.order = call.order
      /\ new.envelope = call.envelope /\ new.leg = call.leg /\ new.owned = call.owned
      /\ new.polls = call.polls /\ new.got = call.got /\ new.exit = call.exit /\ new.signed = call.signed
  BY <1>2, ServedForm DEF CallForm
<1>4. FadesAll(call.sent, sent) /\ \A k \in DOMAIN sent : Over(sent[k])
  BY <1>1, CutFades DEF CallForm
<1>5. \A k \in DOMAIN sent : RequestForm(sent[k]) /\ sent[k].stage # "claim"
  BY <1>4 DEF FadesAll, Fades, Over
<1>6. CallForm(new)
  BY <1>3, <1>4, <1>5 DEF CallForm, FadesAll
<1>7. new = Cut(call)
  BY <1>1, <1>2 DEF Cut
<1>8. QED
  BY <1>3, <1>4, <1>5, <1>6, <1>7

(* What a crash of the contractor leaves of an invocation.                 *)
LEMMA CrashSound ==
  ASSUME TypeOK, Grows, NEW c \in Calls, NEW call, CallForm(call), CallSound(c, call),
         jobs' = jobs, ledger' = ledger, files' = files,
         NEW new, new = Cut(call) \/ (call.args.verb = "demo" /\ new = Ended(Cut(call), Killed))
  PROVE  CallForm(new) /\ CallSound(c, new)' /\ new.envelope = call.envelope
<1>1. StepSound(c, call) /\ AnswerSound(c, call) /\ OwnedSound(c, call)
  BY DEF CallSound
<1>2. PICK cut : cut = Cut(call)
  OBVIOUS
<1>3. /\ CallForm(cut) /\ FadesAll(call.sent, cut.sent)
      /\ \A k \in DOMAIN cut.sent : cut.sent[k].stage # "claim"
      /\ cut.pc = call.pc /\ cut.args = call.args /\ cut.order = call.order
      /\ cut.envelope = call.envelope /\ cut.leg = call.leg /\ cut.owned = call.owned
      /\ cut.got = call.got /\ cut.exit = call.exit
  BY <1>2, CutForm
<1>4. CASE new = cut
  <2>1. StepSound(c, new)
    BY <1>1, <1>3, <1>4 DEF StepSound
  <2>2. AnswerSound(c, new)'
    BY <1>1, <1>3, <1>4 DEF AnswerSound
  <2>3. new.args.verb = "collect" /\ new.args.base = "contractor" /\ new.owned =>
          new.pc \in {"ask", "save", "ended"} /\ new.exit # 1 /\ \A t \in ledger' : t.by # c
    BY <1>1, <1>3, <1>4 DEF OwnedSound
  <2>4. Spends(c, call, new) /\ new.leg \in {"intake", "balance"}
    BY <1>3, <1>4 DEF Spends, CallForm
  <2>5. QED
    BY <1>3, <1>4, <2>1, <2>2, <2>3, <2>4, CallFades
<1>5. CASE call.args.verb = "demo" /\ new = Ended(cut, Killed)
  <2>1. /\ CallForm(new) /\ new.pc = "ended"
        /\ FadesAll(cut.sent, new.sent)
        /\ new.args = cut.args /\ new.order = cut.order /\ new.leg = cut.leg
        /\ new.envelope = cut.envelope /\ new.owned = cut.owned
        /\ \A k \in DOMAIN new.sent : new.sent[k].stage = "claim" => cut.sent[k].stage = "claim"
    BY <1>3, <1>5, EndForm
  <2>2. FadesAll(call.sent, new.sent)
    BY <1>3, <2>1, FadesAllTwice DEF CallForm
  <2>3. \A k \in DOMAIN new.sent : new.sent[k].stage # "claim"
    BY <1>3, <2>1 DEF FadesAll
  <2>4. StepSound(c, new)
    BY <1>1, <1>3, <2>1 DEF StepSound
  <2>5. AnswerSound(c, new)'
    BY <2>1 DEF AnswerSound
  <2>6. new.args.verb # "collect"
    BY <1>3, <1>5, <2>1
  <2>7. Spends(c, call, new) /\ new.leg \in {"intake", "balance"}
    BY <2>1 DEF Spends, CallForm
  <2>8. QED
    BY <1>3, <2>1, <2>2, <2>3, <2>4, <2>5, <2>6, <2>7, CallFades
<1>6. QED
  BY <1>2, <1>4, <1>5

LEMMA CrashStep ==
  ASSUME IInv, Crash
  PROVE  IInv'
<1>1. /\ faults < MaxFaults /\ faults' = faults + 1
      /\ synced' = FALSE /\ registry' = Empty
      /\ calls' = [c \in Calls |-> AfterCrash(c)]
      /\ UNCHANGED <<config, jobs, ledger, known, files>>
  BY DEF Crash
<1>2. faults \in Nat /\ faults' \in Nat /\ faults <= faults' /\ faults' \in 0..MaxFaults
  BY <1>1, BoundsAssumption DEF IInv, TypeOK
<1>3. Grows
  BY <1>1, <1>2 DEF Grows, Collectable
<1>4. ASSUME NEW c \in Calls, calls[c].pc # "off"
      PROVE  /\ CallForm(calls'[c]) /\ CallSound(c, calls[c])'
             /\ calls'[c].envelope = calls[c].envelope
  <2>1. PICK call : call = calls[c]
    OBVIOUS
  <2>2. PICK new : new = calls'[c]
    OBVIOUS
  <2>3. new = Cut(call) \/ (call.args.verb = "demo" /\ new = Ended(Cut(call), Killed))
    BY <1>1, <1>4, <2>1, <2>2 DEF AfterCrash
  <2>4. CallForm(call) /\ CallSound(c, call)
    BY <1>4, <2>1 DEF IInv, TypeOK, CallsSound
  <2>5. CallForm(new) /\ CallSound(c, new)' /\ new.envelope = call.envelope
    BY <1>1, <1>3, <2>3, <2>4, CrashSound DEF IInv
  <2>6. QED
    BY <2>1, <2>2, <2>5
<1>5. \A c \in Calls : calls[c].pc = "off" => calls'[c].pc = "off"
  BY <1>1 DEF AfterCrash
<1>6. \A c \in Calls : calls[c].pc # "off" => calls'[c].pc # "off"
  BY <1>4 DEF CallForm
<1>7. CallsSound' /\ StartedStays
  BY <1>4, <1>5, <1>6 DEF CallsSound, StartedStays, Started
<1>8. DOMAIN registry' = {}
  BY <1>1 DEF Empty
<1>9. TypeOK'
  <2>1. /\ calls' = [c \in Calls |-> calls'[c]]
        /\ \A c \in Calls : calls'[c].pc # "off" => CallForm(calls'[c])
    BY <1>1, <1>4, <1>5
  <2>2. QED
    BY <1>1, <1>2, <1>8, <2>1 DEF IInv, TypeOK
<1>10. QED
  BY <1>1, <1>3, <1>7, <1>8, <1>9, LedgerStays, JobsStay, FilesStay
     DEF IInv, ConfigSound, RegistrySound

(* Time passes for a request and for the settlement it waits for alike.    *)
LEMMA WaitsSound ==
  ASSUME TypeOK, NEW c, NEW r, RequestForm(r), RequestSound(c, r), NEW q, q = Waits(r),
         registry' = Aged(registry), UNCHANGED <<config, jobs, ledger>>
  PROVE  /\ RequestForm(q) /\ RequestSound(c, q)'
         /\ q.leg = r.leg /\ q.header = r.header /\ (Holds(q) <=> Holds(r))
<1>1. /\ DOMAIN q = RequestFields /\ q.leg = r.leg /\ q.stage = r.stage /\ q.took = r.took
      /\ q.answer = r.answer /\ q.header = r.header
      /\ q.age = IF r.stage = "claim" THEN Older(r.age) ELSE r.age
  BY DEF Waits, RequestForm, RequestFields
<1>2. q.age \in 0..(Ttl + 1) /\ (r.age > Ttl => q.age > Ttl)
  BY <1>1, TtlAssumption DEF RequestForm, Older
<1>3. RequestForm(q) /\ (Holds(q) <=> Holds(r))
  BY <1>1, <1>2 DEF RequestForm, Holds
<1>4. q.stage = "claim" =>
        q.age > Ttl \/ (q.header \in DOMAIN registry' /\ registry'[q.header].age <= q.age)
  <2>1. SUFFICES ASSUME r.stage = "claim", ~ (r.age > Ttl)
                 PROVE  r.header \in DOMAIN registry' /\ registry'[r.header].age <= q.age
    BY <1>1, <1>2
  <2>2. r.header \in DOMAIN registry /\ registry[r.header].age <= r.age
    BY <2>1 DEF RequestSound
  <2>3. DOMAIN registry[r.header] = {"payment", "age"} /\ registry[r.header].age \in 0..(Ttl + 1)
    BY <2>2 DEF TypeOK
  <2>4. /\ r.header \in DOMAIN registry'
        /\ registry'[r.header].age = Older(registry[r.header].age)
    BY <2>2, <2>3 DEF Aged
  <2>5. QED
    BY <1>1, <2>1, <2>2, <2>3, <2>4, TtlAssumption DEF Older, RequestForm
<1>5. RequestSound(c, q)'
  BY <1>1, <1>2, <1>3, <1>4 DEF RequestSound
<1>6. QED
  BY <1>1, <1>3, <1>5

LEMMA LaterSound ==
  ASSUME TypeOK, Grows, NEW c \in Calls, NEW call, CallForm(call), CallSound(c, call),
         registry' = Aged(registry), UNCHANGED <<config, jobs, ledger, known, files, faults>>,
         NEW new, new = [call EXCEPT !.sent = [k \in DOMAIN call.sent |-> Waits(call.sent[k])]]
  PROVE  CallForm(new) /\ CallSound(c, new)' /\ new.envelope = call.envelope
<1>1. PICK sent : sent = [k \in DOMAIN call.sent |-> Waits(call.sent[k])]
  OBVIOUS
<1>2. IsRow(sent) /\ Len(sent) = Len(call.sent) /\ DOMAIN sent = DOMAIN call.sent
  BY <1>1, RowOver DEF CallForm
<1>3. /\ DOMAIN new = CallFields /\ new.pc = call.pc /\ new.sent = sent
      /\ new.args = call.args /\ new.order = call.order /\ new.envelope = call.envelope
      /\ new.leg = call.leg /\ new.owned = call.owned /\ new.polls = call.polls
      /\ new.got = call.got /\ new.exit = call.exit /\ new.signed = call.signed
  BY <1>1, ServedForm DEF CallForm
<1>4. ASSUME NEW k \in DOMAIN call.sent
      PROVE  /\ RequestForm(sent[k]) /\ RequestSound(c, sent[k])'
             /\ sent[k].leg = call.sent[k].leg /\ sent[k].header = call.sent[k].header
             /\ (Holds(sent[k]) <=> Holds(call.sent[k]))
  <2>1. PICK r : r = call.sent[k]
    OBVIOUS
  <2>2. PICK q : q = sent[k]
    OBVIOUS
  <2>3. RequestForm(r) /\ RequestSound(c, r) /\ q = Waits(r)
    BY <1>1, <2>1, <2>2 DEF CallForm, CallSound, RequestsSound
  <2>4. /\ RequestForm(q) /\ RequestSound(c, q)'
        /\ q.leg = r.leg /\ q.header = r.header /\ (Holds(q) <=> Holds(r))
    BY <2>3, WaitsSound
  <2>5. QED
    BY <2>1, <2>2, <2>4
<1>5. CallForm(new)
  BY <1>2, <1>3, <1>4 DEF CallForm
<1>6. RequestsSound(c, new)'
  BY <1>2, <1>3, <1>4 DEF CallSound, RequestsSound
<1>7. call.sent = <<>> => sent = <<>>
  BY <1>2, RowEmpty, RowNone
<1>8. EnvelopeSound(c, new)' /\ StepSound(c, new)' /\ AnswerSound(c, new)'
  BY <1>3 DEF CallSound, EnvelopeSound, StepSound, AnswerSound
<1>9. SendingSound(new)'
  BY <1>2, <1>3, <1>7 DEF CallSound, SendingSound
<1>10. OwnedSound(c, new)'
  BY <1>3, <1>7 DEF CallSound, OwnedSound, Collectable
<1>11. SpendingSound(c, new)'
  <2>1. Carries(call.sent, new.sent)
    BY <1>2, <1>3, <1>4 DEF Carries
  <2>2. Spends(c, call, new)
    BY DEF Spends
  <2>3. new.pc = call.pc /\ new.leg = call.leg /\ SpendingSound(c, call)
    BY <1>3 DEF CallSound
  <2>4. QED
    BY <2>1, <2>2, <2>3, SpendingStays
<1>12. QED
  BY <1>3, <1>5, <1>6, <1>8, <1>9, <1>10, <1>11 DEF CallSound

LEMMA TickStep ==
  ASSUME IInv, Tick
  PROVE  IInv'
<1>1. /\ registry' = Aged(registry)
      /\ calls' = [c \in Calls |-> Later(c)]
      /\ UNCHANGED <<config, synced, jobs, ledger, known, files, faults>>
  BY DEF Tick
<1>2. Grows
  BY <1>1, BoundsAssumption DEF Grows, Collectable, IInv, TypeOK
<1>3. ASSUME NEW c \in Calls, calls[c].pc # "off"
      PROVE  /\ CallForm(calls'[c]) /\ CallSound(c, calls[c])'
             /\ calls'[c].envelope = calls[c].envelope
  <2>1. PICK call : call = calls[c]
    OBVIOUS
  <2>2. PICK new : new = calls'[c]
    OBVIOUS
  <2>3. new = [call EXCEPT !.sent = [k \in DOMAIN call.sent |-> Waits(call.sent[k])]]
    BY <1>1, <1>3, <2>1, <2>2 DEF Later
  <2>4. CallForm(call) /\ CallSound(c, call)
    BY <1>3, <2>1 DEF IInv, TypeOK, CallsSound
  <2>5. CallForm(new) /\ CallSound(c, new)' /\ new.envelope = call.envelope
    BY <1>1, <1>2, <2>3, <2>4, LaterSound DEF IInv
  <2>6. QED
    BY <2>1, <2>2, <2>5
<1>4. \A c \in Calls : calls[c].pc = "off" => calls'[c].pc = "off"
  BY <1>1 DEF Later
<1>5. \A c \in Calls : calls[c].pc # "off" => calls'[c].pc # "off"
  BY <1>3 DEF CallForm
<1>6. CallsSound' /\ StartedStays
  BY <1>3, <1>4, <1>5 DEF CallsSound, StartedStays, Started
<1>7. /\ DOMAIN registry' = DOMAIN registry
      /\ \A h \in DOMAIN registry :
           /\ DOMAIN registry'[h] = {"payment", "age"}
           /\ registry'[h].payment = registry[h].payment
           /\ registry'[h].age \in 0..(Ttl + 1)
  <2>1. \A h \in DOMAIN registry :
          DOMAIN registry[h] = {"payment", "age"} /\ registry[h].age \in 0..(Ttl + 1)
    BY DEF IInv, TypeOK
  <2>2. /\ DOMAIN registry' = DOMAIN registry
        /\ \A h \in DOMAIN registry :
             /\ DOMAIN registry'[h] = {"payment", "age"}
             /\ registry'[h].payment = registry[h].payment
             /\ registry'[h].age = Older(registry[h].age)
    BY <1>1, <2>1 DEF Aged
  <2>3. \A a \in 0..(Ttl + 1) : Older(a) \in 0..(Ttl + 1)
    BY TtlAssumption DEF Older
  <2>4. QED
    BY <2>1, <2>2, <2>3
<1>8. TypeOK'
  <2>1. /\ calls' = [c \in Calls |-> calls'[c]]
        /\ \A c \in Calls : calls'[c].pc # "off" => CallForm(calls'[c])
    BY <1>1, <1>3, <1>4
  <2>2. QED
    BY <1>1, <1>7, <2>1 DEF IInv, TypeOK
<1>9. RegistrySound'
  BY <1>7 DEF IInv, RegistrySound
<1>10. QED
  BY <1>1, <1>2, <1>6, <1>8, <1>9, LedgerStays, JobsStay, FilesStay DEF IInv, ConfigSound

-----------------------------------------------------------------------------
(* The whole of it.                                                        *)

(* The environment of an agent yields at most one configuration, with a    *)
(* key.                                                                    *)
LEMMA CustomerConfigured ==
  ASSUME NEW env
  PROVE  /\ \A x, y \in LoadCustomerConfig(env) : x = y
         /\ \A cfg \in LoadCustomerConfig(env) : "key" \in DOMAIN cfg.signing /\ cfg.signing.key \in Keys
<1>1. \A x, y \in LoadSigningIdentity(env) : x = y
  BY DEF LoadSigningIdentity, Some
<1>2. \A x, y \in LoadPaymentIdentity(env) : x = y
  BY DEF LoadPaymentIdentity, Some
<1>3. \A s \in LoadSigningIdentity(env) : "key" \in DOMAIN s /\ s.key \in Keys
  BY DEF LoadSigningIdentity, Some
<1>4. \A cfg \in LoadCustomerConfig(env) :
        \E s \in LoadSigningIdentity(env), p \in LoadPaymentIdentity(env) :
          cfg = [signing |-> s, payment |-> p]
  BY DEF LoadCustomerConfig
<1>5. QED
  BY <1>1, <1>2, <1>3, <1>4

LEMMA InitHolds == Init => IInv
<1> SUFFICES ASSUME Init
             PROVE  IInv
  OBVIOUS
<1>1. PICK m \in Machines :
        config = [customer |-> LoadCustomerConfig(m.customer),
                  service |-> {[agent |-> ContractorUaid(s), config |-> s] :
                                 s \in ContractorConfigFromEnv(m.contractor)}]
  BY DEF Init
<1>2. /\ synced = FALSE /\ registry = Empty /\ jobs = [x \in Orders |-> {}] /\ ledger = {}
      /\ calls = [c \in Calls |-> Off] /\ known = {} /\ faults = 0
      /\ files = [x \in Orders |-> [mandate |-> {}, accepted |-> {}, receipt |-> {}]]
  BY DEF Init
<1>3. ConfigSound
  <2>1. config.customer = LoadCustomerConfig(m.customer)
    BY <1>1
  <2>2. \A s \in config.service : s.config.key \in Keys
    BY <1>1, KeyAssumption
  <2>3. QED
    BY <2>1, <2>2, CustomerConfigured DEF ConfigSound
<1>4. \A c \in Calls : calls[c].pc = "off"
  BY <1>2 DEF Off
<1>5. DOMAIN registry = {}
  BY <1>2 DEF Empty
<1>6. TypeOK
  <2>1. /\ calls = [c \in Calls |-> calls[c]] /\ jobs = [x \in Orders |-> jobs[x]]
        /\ files = [x \in Orders |-> files[x]]
    BY <1>2
  <2>2. \A x \in Orders : jobs[x] = {} /\ DOMAIN files[x] = FileFields
    BY <1>2 DEF FileFields
  <2>3. synced \in BOOLEAN
    BY <1>2, Zenon
  <2>4. known \subseteq Calls /\ faults \in 0..MaxFaults
    BY <1>2, BoundsAssumption
  <2>5. QED
    BY <1>4, <1>5, <2>1, <2>2, <2>3, <2>4 DEF TypeOK
<1>7. CallsSound /\ RegistrySound /\ LedgerSound /\ JobsSound
  BY <1>2, <1>4, <1>5 DEF CallsSound, RegistrySound, LedgerSound, ChargedOnce, JobsSound
<1>8. FilesSound
  BY <1>2 DEF FilesSound, FiledUnderItsOrder
<1>9. QED
  BY <1>3, <1>6, <1>7, <1>8 DEF IInv

LEMMA ProceedStep ==
  ASSUME IInv, NEW c \in Calls, Proceed(c)
  PROVE  IInv'
<1>1. CASE Sign(c)
  BY <1>1, SignStep
<1>2. CASE Ask(c)
  BY <1>2, AskStep
<1>3. CASE \E paid \in BOOLEAN, body \in OddBodies : AskElsewhere(c, paid, body)
  BY <1>3, AskElsewhereStep
<1>4. CASE Receive(c)
  BY <1>4, ReceiveStep
<1>5. CASE SaveOrderArtifacts(c)
  BY <1>5, SaveOrderArtifactsStep
<1>6. CASE Misconfigured(c)
  BY <1>6, MisconfiguredStep
<1>7. CASE SaveReceiptArtifact(c)
  BY <1>7, SaveReceiptArtifactStep
<1>8. CASE WaitForPaymentGate(c)
  BY <1>8, WaitForPaymentGateStep
<1>9. CASE DemoDelivers(c)
  BY <1>9, DemoDeliversStep
<1>10. QED
  BY <1>1, <1>2, <1>3, <1>4, <1>5, <1>6, <1>7, <1>8, <1>9
     DEF Proceed, RunOrder, RunCollect, RunDemo, Send

LEMMA ServeRequestStep ==
  ASSUME IInv, NEW c \in Calls, ServeRequest(c)
  PROVE  IInv'
<1>1. PICK k \in 1..(MaxFaults + 2) :
        /\ calls[c].pc # "off" /\ k \in DOMAIN calls[c].sent
        /\ \/ Admit(c, k) \/ Settle(c, k) \/ HandleRequest(c, k)
           \/ Accept(c, k) \/ Release(c, k) \/ Fail(c, k)
  BY DEF ServeRequest
<1>2. QED
  BY <1>1, AdmitStep, SettleStep, HandleRequestStep, AcceptStep, ReleaseStep, FailStep

(* A step in which nothing happens.                                        *)
LEMMA StutterStep ==
  ASSUME IInv, UNCHANGED vars
  PROVE  IInv'
<1>1. UNCHANGED <<config, synced, registry, jobs, ledger, calls, known, files, faults>>
  BY DEF vars
<1>2. Grows
  BY <1>1, BoundsAssumption DEF Grows, Collectable, IInv, TypeOK
<1>3. \A d \in Calls : Undisturbed(d)
  BY <1>1 DEF Undisturbed, KeepsFor
<1>4. CallsSound' /\ StartedStays
  BY <1>1, <1>2, <1>3, CallsStay
<1>5. TypeOK'
  BY <1>1 DEF IInv, TypeOK
<1>6. QED
  BY <1>1, <1>2, <1>4, <1>5, LedgerStays, JobsStay, FilesStay
     DEF IInv, ConfigSound, RegistrySound

LEMMA NextHolds == IInv /\ [Next]_vars => IInv'
<1> SUFFICES ASSUME IInv, [Next]_vars
             PROVE  IInv'
  OBVIOUS
<1>1. CASE \E c \in Calls, i \in Invocations, m \in Orders : Start(c, i, m)
  BY <1>1, StartStep
<1>2. CASE \E c \in Calls : Proceed(c)
  BY <1>2, ProceedStep
<1>3. CASE \E c \in Calls : Throw(c)
  BY <1>3, ThrowStep
<1>4. CASE \E c \in Calls : Repeat(c)
  BY <1>4, RepeatStep
<1>5. CASE \E c \in Calls : ServeRequest(c)
  BY <1>5, ServeRequestStep
<1>6. CASE \E m \in Orders : Operator(m)
  BY <1>6, OperatorStep
<1>7. CASE Sync
  BY <1>7, SyncStep
<1>8. CASE Crash
  BY <1>8, CrashStep
<1>9. CASE Tick
  BY <1>9, TickStep
<1>10. CASE UNCHANGED vars
  BY <1>10, StutterStep
<1>11. QED
  BY <1>1, <1>2, <1>3, <1>4, <1>5, <1>6, <1>7, <1>8, <1>9, <1>10 DEF Next

(* Whatever the invocations, the environments, the crashes and the repeats *)
(* are, every part of the inductive invariant holds.                       *)
THEOREM InvariantHolds == Spec => []IInv
<1>1. QED
  BY InitHolds, NextHolds, PTL DEF Spec

-----------------------------------------------------------------------------
(* What it shows.                                                          *)

LEMMA OnePayment == IInv => ChargedOnce
BY DEF IInv, LedgerSound

(* `order` and `collect` pay a leg at most once, however they end and      *)
(* whatever becomes of their requests.                                     *)
THEOREM ChargedOnceHolds == Spec => []ChargedOnce
<1>1. QED
  BY InvariantHolds, OnePayment, PTL

LEMMA OneTaker == IInv => PaymentBuysOnce
<1> SUFFICES ASSUME IInv, NEW s \in Sent, NEW p \in Request(s).took
             PROVE  /\ p.tx \in ledger /\ p.tx = Request(s).header
                    /\ \A t \in Sent : p \in Request(t).took => t = s
  BY DEF PaymentBuysOnce
<1>1. ASSUME NEW t \in Sent
      PROVE  /\ t = [call |-> t.call, nr |-> t.nr]
             /\ t.call \in Calls /\ calls[t.call].pc # "off"
             /\ t.nr \in DOMAIN calls[t.call].sent
  BY <1>1 DEF Sent, Started
<1>2. ASSUME NEW t \in Sent, p \in Request(t).took
      PROVE  /\ Request(t).header.by = t.call /\ Request(t).header.leg = Request(t).leg
             /\ Holds(Request(t)) /\ Request(t).header \in ledger
             /\ p.tx = Request(t).header
             /\ ~ Rival(calls[t.call], t.nr)
  <2>1. PICK r : r = Request(t)
    OBVIOUS
  <2>2. RequestSound(t.call, r) /\ (Holds(r) => ~ Rival(calls[t.call], t.nr))
    BY <1>1, <2>1, RequestAt DEF Request
  <2>3. Holds(r) /\ p \in r.took
    BY <1>2, <2>1 DEF Holds
  <2>4. QED
    BY <2>1, <2>2, <2>3 DEF RequestSound
<1>3. ASSUME NEW t \in Sent, p \in Request(t).took
      PROVE  t = s
  <2>1. PICK a : a = Request(t).leg
    OBVIOUS
  <2>2. PICK b : b = Request(s).leg
    OBVIOUS
  <2>3. p.tx.by = t.call /\ p.tx.leg = a
    BY <1>2, <1>3, <2>1
  <2>4. p.tx.by = s.call /\ p.tx.leg = b
    BY <1>2, <2>2
  <2>5. t.call = s.call /\ a = b
    BY <2>3, <2>4
  <2>6. t.nr = s.nr
    BY <1>1, <1>2, <1>3, <2>1, <2>2, <2>5 DEF Rival, Request
  <2>7. QED
    BY <1>1, <2>5, <2>6
<1>4. QED
  BY <1>2, <1>3

(* SettlementRegistry.claim hands a settlement to one request only, and to *)
(* one that shows the payment it was made with, though the same payment    *)
(* header may be sent again and the registry may be lost on the way.       *)
THEOREM PaymentBuysOnceHolds == Spec => []PaymentBuysOnce
<1>1. QED
  BY InvariantHolds, OneTaker, PTL

LEMMA SentSound ==
  ASSUME IInv, NEW s \in Sent
  PROVE  s.call \in Calls /\ calls[s.call].pc # "off" /\ RequestSound(s.call, Request(s))
BY RequestAt DEF Sent, Started, Request

LEMMA FoundInTime == IInv => SettlementFound
BY SentSound DEF SettlementFound, RequestSound

(* A request that paid fails to find its settlement only if it came later  *)
(* than SETTLEMENT_TTL_MS: pruning for others never takes it away.         *)
THEOREM SettlementFoundHolds == Spec => []SettlementFound
<1>1. QED
  BY InvariantHolds, FoundInTime, PTL

LEMMA Printed == IInv => PaidOrderIsKnown
<1> SUFFICES ASSUME IInv, NEW t \in ledger, t.leg = "intake", calls[t.by].args.via = "cli"
             PROVE  t.by \in known
  BY DEF PaidOrderIsKnown
<1>1. t.by \in Started /\ calls[t.by].envelope # {}
  BY DEF IInv, LedgerSound
<1>2. EnvelopeSound(t.by, calls[t.by])
  BY <1>1 DEF Started, IInv, CallsSound, CallSound
<1>3. QED
  BY <1>1, <1>2 DEF EnvelopeSound

(* runOrder prints the id of an order before it pays for it.               *)
THEOREM PaidOrderIsKnownHolds == Spec => []PaidOrderIsKnown
<1>1. QED
  BY InvariantHolds, Printed, PTL

LEMMA NewOrder == IInv => IntakeBuysNewOrder
BY SentSound DEF IntakeBuysNewOrder, RequestSound

(* The intake fee buys neither a signed refusal nor the acceptance of an   *)
(* order that the contractor knows already.                                *)
THEOREM IntakeBuysNewOrderHolds == Spec => []IntakeBuysNewOrder
<1>1. QED
  BY InvariantHolds, NewOrder, PTL

LEMMA Filed == IInv => FiledUnderItsOrder
BY DEF IInv, FilesSound

(* saveOrderArtifacts and saveReceiptArtifact keep what can be shown, under *)
(* the order that it is about.                                             *)
THEOREM FiledUnderItsOrderHolds == Spec => []FiledUnderItsOrder
<1>1. QED
  BY InvariantHolds, Filed, PTL

LEMMA Owned == IInv => OwnedReceiptIsFree
BY DEF OwnedReceiptIsFree, IInv, CallsSound, CallSound, OwnedSound, Started

(* A receipt that was issued is collected without a payment and without an *)
(* error, after a crash of either side, a lost answer or a repeat.         *)
THEOREM OwnedReceiptIsFreeHolds == Spec => []OwnedReceiptIsFree
<1>1. QED
  BY InvariantHolds, Owned, PTL

-----------------------------------------------------------------------------
(* Who the documents are from, and to whom.                                *)

(* An identifier that is made from a key names it.                         *)
LEMMA SelfIssuedNames ==
  ASSUME NEW key \in Keys, NEW account
  PROVE  /\ IsUaid(SelfIssued(key, account)) => ~ HasUaidProblems(SelfIssued(key, account))
         /\ PublicKeyForUaid(SelfIssued(key, account)) \subseteq {key}
<1> DEFINE params == [uid |-> "0", registry |-> "self", proto |-> "rest"] @@ HederaNativeId(account)
           written == {k \in DOMAIN ParamOrder :
                         ParamOrder[k] = "uid" \/ ParamOrder[k] \in DOMAIN params}
           Value_(name) == IF name \in DOMAIN params THEN params[name] ELSE "0"
           places == [k \in written |-> <<ParamOrder[k], Value_(ParamOrder[k])>>]
<1>1. PICK uaid : uaid = SelfIssued(key, account)
  OBVIOUS
<1>2. /\ uaid.scheme = "uaid" /\ uaid.target = "did"
      /\ uaid.id = DidKeyFromPublicKey(key) /\ uaid.params = places
  BY <1>1 DEF SelfIssued, UaidFromPublicKey, FormatUaid
<1>3. 1 \in DOMAIN ParamOrder /\ ParamOrder[1] = "uid"
  BY DEF ParamOrder
<1>4. 1 \in written
  BY <1>3
<1>5. 1 \in DOMAIN uaid.params /\ uaid.params[1][1] = "uid"
  <2> HIDE DEF Value_, written
  <2>1. QED
    BY <1>2, <1>3, <1>4
<1> HIDE DEF places, written, params, Value_
<1>6. PublicKeyFromDidKey(uaid.id) = {key}
  BY <1>2 DEF PublicKeyFromDidKey, DidKeyFromPublicKey
<1>7. PublicKeyForUaid(uaid) \subseteq {key}
  BY <1>6 DEF PublicKeyForUaid
<1>8. IsUaid(uaid) => ~ HasUaidProblems(uaid)
  BY <1>5, <1>6 DEF HasUaidProblems
<1>9. QED
  BY <1>1, <1>7, <1>8

LEMMA HandleNames ==
  ASSUME NEW ref, NEW key, IsUaid(ref), PublicKeyForUaid(ref) \subseteq {key}
  PROVE  NamesItself(ref, key)
BY DEF NamesItself, IsAgentRef

LEMMA SigningFrom ==
  ASSUME NEW env, NEW s \in LoadSigningIdentity(env)
  PROVE  "from" \in DOMAIN s
<1> DEFINE Configured(x) == x # {}
           F == LoadSigningIdentity(env)
<1>1. \A x \in F : "from" \in DOMAIN x
  BY DEF LoadSigningIdentity, Some
<1>2. QED
  BY <1>1

LEMMA NamesAtFirst ==
  ASSUME OwnIdentifiers, Init
  PROVE  NamesSound
<1>1. PICK m \in Machines :
        config = [customer |-> LoadCustomerConfig(m.customer),
                  service |-> {[agent |-> ContractorUaid(s), config |-> s] :
                                 s \in ContractorConfigFromEnv(m.contractor)}]
  BY DEF Init
<1>2. ASSUME NEW cfg \in config.customer
      PROVE  "from" \in DOMAIN cfg.signing /\ NamesItself(cfg.signing.from, cfg.signing.key)
  <2> DEFINE env == m.customer
             ref == Value(env, "CUSTOMER_UAID")
             account == Filled(env, "CUSTOMER_ACCOUNT_ID", Value(env, "PAYER_ACCOUNT_ID"))
             key == FirstSet(env, "CUSTOMER_SIGNING_KEY", "CUSTOMER_ED25519_PRIVATE_KEY")
  <2>1. cfg \in LoadCustomerConfig(env)
    BY <1>1, <1>2
  <2>0. "from" \in DOMAIN cfg.signing
    <3>1. PICK s \in LoadSigningIdentity(env) : cfg.signing = s
      BY <2>1 DEF LoadCustomerConfig
    <3>2. "from" \in DOMAIN s
      BY SigningFrom
    <3>3. QED
      BY <3>1, <3>2
  <2>2. CASE ~ (ref # Blank /\ ref.scheme = "auto")
    BY <2>0, <2>1, <2>2 DEF OwnIdentifiers
  <2>3. CASE ref # Blank /\ ref.scheme = "auto"
    <3>1. PICK s \in LoadSigningIdentity(env) : cfg.signing = s
      BY <2>1 DEF LoadCustomerConfig
    <3>2. CustomerUaid(env, key) = {SelfIssued(key, account)}
      BY <2>3 DEF CustomerUaid
    <3>3. PICK uaid : uaid = CustomerUaid(env, key)
      OBVIOUS
    <3>4. /\ s.key = key /\ key \in Keys
          /\ uaid # {} => s.from = CHOOSE u \in uaid : TRUE
          /\ \A u \in uaid : IsUaid(u)
      BY <3>1, <3>3 DEF LoadSigningIdentity, Some
    <3>5. uaid # {} /\ s.from = SelfIssued(key, account) /\ IsUaid(s.from)
      BY <3>2, <3>3, <3>4
    <3>6. PublicKeyForUaid(s.from) \subseteq {s.key}
      BY <3>4, <3>5, SelfIssuedNames
    <3>7. QED
      BY <2>0, <3>1, <3>5, <3>6, HandleNames
  <2>4. QED
    BY <2>0, <2>2, <2>3
<1>3. ASSUME NEW s \in config.service, IsUaid(s.agent)
      PROVE  ~ HasUaidProblems(s.agent) /\ PublicKeyForUaid(s.agent) \subseteq {s.config.key}
  <2>1. PICK k \in ContractorConfigFromEnv(m.contractor) :
          s.agent = ContractorUaid(k) /\ s.config = k
    BY <1>1, <1>3
  <2>2. k.key \in Keys
    BY <2>1, KeyAssumption
  <2>3. CASE k.uaid # Blank
    BY <1>3, <2>1, <2>3 DEF OwnIdentifiers, ContractorUaid
  <2>4. CASE k.uaid = Blank
    <3>1. s.agent = SelfIssued(k.key, k.payTo)
      BY <2>1, <2>4 DEF ContractorUaid
    <3>2. QED
      BY <1>3, <2>1, <2>2, <3>1, SelfIssuedNames
  <2>5. QED
    BY <2>3, <2>4
<1>4. QED
  BY <1>2, <1>3 DEF NamesSound

LEMMA DocumentsAtFirst ==
  ASSUME OwnIdentifiers, NothingForged, Init
  PROVE  DocumentsNamed
<1>1. PICK m \in Machines :
        config.service = {[agent |-> ContractorUaid(s), config |-> s] :
                             s \in ContractorConfigFromEnv(m.contractor)}
  BY DEF Init
<1>2. ASSUME NEW body \in OddBodies, NEW r \in body, VerifyEnvelope(r)
      PROVE  ~ ByContractor(r)
  BY <1>1, <1>2 DEF NothingForged, ByContractor
<1>3. NamesSound
  BY NamesAtFirst
<1>4. /\ \A c \in Calls : calls[c].pc = "off"
      /\ \A x \in Orders : jobs[x] = {}
      /\ \A x \in Orders : files[x].mandate = {} /\ files[x].accepted = {} /\ files[x].receipt = {}
  BY DEF Init, Off
<1>5. QED
  BY <1>2, <1>3, <1>4 DEF DocumentsNamed, FileNamed

(* It is enough to look at what a step leaves.                             *)
LEMMA DocumentsStay ==
  ASSUME DocumentsNamed, config' = config,
         \A c \in Calls : calls'[c].pc # "off" => CallNamed(calls'[c]),
         \A m \in Orders : \A job \in jobs'[m] : JobNamed(job),
         \A m \in Orders : FileNamed(files'[m])
  PROVE  DocumentsNamed'
<1>1. \A e : FromCustomer(e)' <=> FromCustomer(e)
  BY DEF FromCustomer
<1>2. \A r : ByContractor(r)' <=> ByContractor(r)
  BY DEF ByContractor
<1>3. \A r : ToCustomer(r)' <=> ToCustomer(r)
  BY <1>2 DEF ToCustomer
<1>4. \A call : CallNamed(call) => CallNamed(call)'
  BY <1>1, <1>3 DEF CallNamed
<1>5. \A job : JobNamed(job) => JobNamed(job)'
  BY <1>1, <1>3 DEF JobNamed
<1>6. \A file : FileNamed(file) => FileNamed(file)'
  BY <1>1, <1>3 DEF FileNamed
<1>7. NamesSound'
  BY DEF DocumentsNamed, NamesSound
<1>8. \A c \in Calls : calls'[c].pc # "off" => (CallNamed(calls[c]))'
  <2>1. TAKE c \in Calls
  <2>2. PICK call : call = calls'[c]
    OBVIOUS
  <2>3. call.pc # "off" => CallNamed(call)'
    BY <1>4, <2>2
  <2>4. QED
    BY <2>2, <2>3 DEF CallNamed
<1>9. \A m \in Orders : \A job \in jobs'[m] : JobNamed(job)'
  BY <1>5
<1>10. \A m \in Orders : FileNamed(files[m])'
  <2>1. TAKE m \in Orders
  <2>2. PICK file : file = files'[m]
    OBVIOUS
  <2>3. FileNamed(file)'
    BY <1>6, <2>2
  <2>4. QED
    BY <2>2, <2>3 DEF FileNamed
<1>11. \A body \in OddBodies : \A r \in body : VerifyEnvelope(r) => ~ ByContractor(r)'
  BY <1>2 DEF DocumentsNamed
<1>12. QED
  BY <1>7, <1>8, <1>9, <1>10, <1>11 DEF DocumentsNamed

(* The property, from what the documents say.                              *)
LEMMA NamedPasses ==
  ASSUME DocumentsNamed, IInv
  PROVE  IdentityHolds
<1> SUFFICES ASSUME NEW m \in Orders, NEW r \in files[m].receipt \cup files[m].accepted,
                    \E s \in config.service : r.sig.pub = s.config.key
             PROVE  CheckAgentIdentity(r, files[m].mandate) # "fail"
  BY DEF IdentityHolds
<1>1. FileNamed(files[m]) /\ NamesSound
  BY DEF DocumentsNamed
<1>2. ToCustomer(r) /\ \A e \in files[m].mandate : FromCustomer(e)
  BY <1>1 DEF FileNamed
<1>3. PICK s \in config.service, cfg \in config.customer :
        r.sig.pub = s.config.key /\ r.body.from = s.agent /\ r.body.to = cfg.signing.from
  BY <1>2 DEF ToCustomer, ByContractor
<1>4. \A e \in files[m].mandate :
        e.body.from = cfg.signing.from /\ e.sig.pub = cfg.signing.key
  <2>1. \A dfg \in config.customer : dfg = cfg
    BY <1>3 DEF IInv, ConfigSound
  <2>2. QED
    BY <1>2, <2>1 DEF FromCustomer
<1>5. NamesItself(r.body.to, cfg.signing.key)
  BY <1>1, <1>3 DEF NamesSound
<1>6. IsUaid(r.body.from) =>
        ~ HasUaidProblems(r.body.from) /\ PublicKeyForUaid(r.body.from) \subseteq {r.sig.pub}
  BY <1>1, <1>3 DEF NamesSound
<1>7. CounterpartyAgrees(r, files[m].mandate)
  BY <1>3, <1>4, <1>5 DEF CounterpartyAgrees, NamesItself
<1>8. ~ (r.body.to.scheme = "uaid" /\ ~ IsUaid(r.body.to))
  BY <1>5 DEF NamesItself, IsAgentRef
<1>9. IsUaid(r.body.from) /\ PublicKeyForUaid(r.body.from) # {} =>
        PublicKeyForUaid(r.body.from) = {r.sig.pub}
  BY <1>6
<1>10. QED
  BY <1>6, <1>7, <1>8, <1>9 DEF CheckAgentIdentity, Result

LEMMA CallMovesNamed ==
  ASSUME TypeOK, DocumentsNamed, config' = config, NEW c \in Calls, NEW new, Becomes(c, new),
         CallNamed(new),
         \A m \in Orders : \A job \in jobs'[m] : JobNamed(job),
         \A m \in Orders : FileNamed(files'[m])
  PROVE  DocumentsNamed'
<1>1. calls'[c] = new /\ \A d \in Calls : d # c => calls'[d] = calls[d]
  BY Moved
<1>2. CallNamed(calls'[c])
  BY <1>1
<1>3. ASSUME NEW d \in Calls, d # c, calls'[d].pc # "off"
      PROVE  CallNamed(calls'[d])
  BY <1>1, <1>3 DEF DocumentsNamed
<1>4. QED
  BY <1>2, <1>3, DocumentsStay

LEMMA QuietNamed ==
  ASSUME TypeOK, DocumentsNamed, NEW c \in Calls, NEW new, Becomes(c, new), CallNamed(new),
         UNCHANGED <<config, jobs, files>>
  PROVE  DocumentsNamed'
<1>1. \A m \in Orders : \A job \in jobs'[m] : JobNamed(job)
  BY DEF DocumentsNamed
<1>2. \A m \in Orders : FileNamed(files'[m])
  BY DEF DocumentsNamed
<1>3. QED
  BY <1>1, <1>2, CallMovesNamed

(* Requests that fade keep their answers, or lose them.                    *)
LEMMA FadesNamed ==
  ASSUME NEW call, CallNamed(call), NEW new, new.envelope = call.envelope,
         \A r \in new.got : ToCustomer(r), FadesAll(call.sent, new.sent)
  PROVE  CallNamed(new)
<1>1. ASSUME NEW k \in DOMAIN new.sent, NEW r \in new.sent[k].answer.body
      PROVE  ToCustomer(r)
  <2>1. k \in DOMAIN call.sent /\ Fades(call.sent[k], new.sent[k])
    BY DEF FadesAll
  <2>2. new.sent[k].answer = call.sent[k].answer \/ new.sent[k].answer = NoAnswer
    BY <2>1 DEF Fades
  <2>3. NoAnswer.body = {}
    BY DEF NoAnswer, Answer
  <2>4. QED
    BY <1>1, <2>1, <2>2, <2>3 DEF CallNamed
<1>2. QED
  BY <1>1 DEF CallNamed

LEMMA EndNamed ==
  ASSUME NEW call, CallForm(call), CallNamed(call), NEW code \in {0, 1, Killed}
  PROVE  CallNamed(Ended(call, code))
<1>1. PICK new : new = Ended(call, code)
  OBVIOUS
<1>2. FadesAll(call.sent, new.sent) /\ new.envelope = call.envelope
  BY <1>1, EndForm
<1>3. new.got = {}
  BY <1>1, EndedForm DEF CallForm, Ended
<1>4. CallNamed(new)
  BY <1>2, <1>3, FadesNamed
<1>5. QED
  BY <1>1, <1>4

(* An invocation at hand.                                                  *)
LEMMA CallAt ==
  ASSUME IInv, DocumentsNamed, NEW c \in Calls, calls[c].pc # "off"
  PROVE  CallForm(calls[c]) /\ CallNamed(calls[c]) /\ TypeOK
BY DEF IInv, TypeOK, DocumentsNamed

LEMMA EndStepNamed ==
  ASSUME IInv, DocumentsNamed, NEW c \in Calls, calls[c].pc # "off", NEW code \in {0, 1, Killed},
         End(c, code), config' = config,
         \A m \in Orders : \A job \in jobs'[m] : JobNamed(job),
         \A m \in Orders : FileNamed(files'[m])
  PROVE  DocumentsNamed'
<1>1. PICK call : call = calls[c]
  OBVIOUS
<1>2. CallForm(call) /\ CallNamed(call) /\ TypeOK
  BY <1>1, CallAt
<1>3. PICK new : new = Ended(call, code)
  OBVIOUS
<1>4. CallNamed(new) /\ Becomes(c, new)
  BY <1>1, <1>2, <1>3, EndNamed DEF End
<1>5. QED
  BY <1>2, <1>4, CallMovesNamed

(* What stays of jobs and files.                                           *)
LEMMA KeptNamed ==
  ASSUME DocumentsNamed
  PROVE  /\ jobs' = jobs => \A m \in Orders : \A job \in jobs'[m] : JobNamed(job)
         /\ files' = files => \A m \in Orders : FileNamed(files'[m])
BY DEF DocumentsNamed

LEMMA QuietEndNamed ==
  ASSUME IInv, DocumentsNamed, NEW c \in Calls, calls[c].pc # "off", NEW code \in {0, 1, Killed},
         End(c, code), UNCHANGED <<config, jobs, files>>
  PROVE  DocumentsNamed'
<1>1. (\A m \in Orders : \A job \in jobs'[m] : JobNamed(job)) /\ \A m \in Orders : FileNamed(files'[m])
  BY KeptNamed
<1>2. QED
  BY <1>1, EndStepNamed

(* What is taken from an answer was in it, signed.                         *)
LEMMA ConcludeNamed ==
  ASSUME IInv, DocumentsNamed, NEW c \in Calls, calls[c].pc # "off", NEW answer,
         \A r \in answer.body : VerifyEnvelope(r) => ToCustomer(r),
         Conclude(c, answer), UNCHANGED <<config, jobs, files>>
  PROVE  DocumentsNamed'
<1>1. PICK call : call = calls[c]
  OBVIOUS
<1>2. CallForm(call) /\ CallNamed(call) /\ TypeOK
  BY <1>1, CallAt
<1>3. PICK got : got = ReceiptIn(call, answer)
  OBVIOUS
<1>4. \A r \in got : r \in answer.body /\ VerifyEnvelope(r)
  BY <1>3 DEF ReceiptIn, ParseAcceptedResponse, ParseDeliveredResponse, TakeReceipt
<1>5. CASE PayFor(answer, call.leg = "balance") /\ got # {}
  <2>1. PICK new : new = [call EXCEPT !.pc = "save", !.got = got]
    OBVIOUS
  <2>2. Becomes(c, new)
    BY <1>1, <1>3, <1>5, <2>1 DEF Conclude
  <2>3. new.envelope = call.envelope /\ new.got = got /\ new.sent = call.sent
    BY <1>2, <2>1, AnsweredForm DEF CallForm
  <2>4. CallNamed(new)
    BY <1>2, <1>4, <2>3 DEF CallNamed
  <2>5. QED
    BY <1>2, <2>2, <2>4, QuietNamed
<1>6. CASE ~ (PayFor(answer, call.leg = "balance") /\ got # {})
  <2>1. End(c, 1)
    BY <1>1, <1>3, <1>6 DEF Conclude
  <2>2. QED
    BY <2>1, QuietEndNamed
<1>7. QED
  BY <1>5, <1>6

(* The guard hands out what the job has.                                   *)
LEMMA GuardNamed ==
  ASSUME DocumentsNamed, NEW leg, NEW m \in Orders, NEW a \in Guard(leg, m), NEW r \in a.body
  PROVE  ToCustomer(r)
<1>1. leg # "intake"
  BY DEF Guard
<1>2. \A status, payment, body : Answer(status, payment, body).body = body
  BY DEF Answer
<1>3. CASE jobs[m] = {}
  BY <1>1, <1>2, <1>3 DEF Guard
<1>4. CASE jobs[m] # {}
  <2>1. a \in UNION {GuardOf(job) : job \in jobs[m]}
    BY <1>1, <1>4 DEF Guard
  <2>2. PICK job \in jobs[m] : a \in GuardOf(job)
    BY <2>1
  <2>3. a.body = job.receipt \/ a.body = {}
    BY <1>2, <2>2 DEF GuardOf
  <2>4. JobNamed(job)
    BY <2>2 DEF DocumentsNamed
  <2>5. QED
    BY <2>3, <2>4 DEF JobNamed
<1>5. QED
  BY <1>3, <1>4

(* A sealed receipt goes back to whom the order came from.                 *)
LEMMA SealedNamed ==
  ASSUME NEW s \in config.service, NEW kind, NEW e, FromCustomer(e), NEW payer
  PROVE  ToCustomer(SealReceipt(s, kind, e, payer))
<1>1. PICK r : r = SealReceipt(s, kind, e, payer)
  OBVIOUS
<1>2. r.sig.pub = s.config.key /\ r.body.from = s.agent /\ r.body.to = e.body.from
  BY <1>1 DEF SealReceipt, SignEnvelope
<1>3. ToCustomer(r)
  BY <1>2 DEF ToCustomer, FromCustomer
<1>4. QED
  BY <1>1, <1>3

(* A signed order comes from the customer, whomever it is addressed to.    *)
LEMMA SignedOrderNamed ==
  ASSUME ConfigSound, NamesSound, NEW c \in Calls, NEW e \in SignedOrder(c)
  PROVE  FromCustomer(e)
<1>1. PICK cfg \in config.customer : e \in SignedBy(c, ResolveCounterparty(cfg.signing, CardOf(c)))
  BY DEF SignedOrder
<1>2. PICK signer : signer = ResolveCounterparty(cfg.signing, CardOf(c))
  OBVIOUS
<1>3. PICK mandate : e = BuildMandateEnvelope(mandate, signer)
  BY <1>1, <1>2 DEF SignedBy
<1>4. e.body.from = signer.from /\ e.sig.pub = signer.key
  BY <1>3 DEF BuildMandateEnvelope, SignEnvelope
<1>5. "key" \in DOMAIN cfg.signing /\ "from" \in DOMAIN cfg.signing
  BY DEF ConfigSound, NamesSound
<1>6. signer.from = cfg.signing.from /\ signer.key = cfg.signing.key
  BY <1>2, <1>5 DEF ResolveCounterparty
<1>7. QED
  BY <1>4, <1>6 DEF FromCustomer

(* An invocation that only moves on carries the same documents.            *)
LEMMA LikeNamed ==
  ASSUME NEW call, CallNamed(call), NEW new,
         new.envelope = call.envelope, new.got = call.got, new.sent = call.sent
  PROVE  CallNamed(new)
BY DEF CallNamed

LEMMA StartNamed ==
  ASSUME IInv, DocumentsNamed, NEW c \in Calls, NEW i \in Invocations, NEW m \in Orders,
         Start(c, i, m)
  PROVE  DocumentsNamed'
<1>1. PICK new : new = NewCall(i, m)
  OBVIOUS
<1>2. new.envelope = {} /\ new.got = {} /\ new.sent = <<>>
  BY <1>1, NewForm
<1>3. DOMAIN new.sent = {}
  BY <1>2, RowEmpty
<1>4. CallNamed(new)
  BY <1>2, <1>3 DEF CallNamed
<1>5. Becomes(c, new) /\ UNCHANGED <<config, jobs, files>>
  BY <1>1 DEF Start, service
<1>6. QED
  BY <1>4, <1>5, QuietNamed DEF IInv

LEMMA ThrowNamed ==
  ASSUME IInv, DocumentsNamed, NEW c \in Calls, Throw(c)
  PROVE  DocumentsNamed'
<1>1. calls[c].pc # "off" /\ End(c, Killed) /\ UNCHANGED <<config, jobs, files>>
  BY DEF Throw, Running, service
<1>2. QED
  BY <1>1, QuietEndNamed

LEMMA MisconfiguredNamed ==
  ASSUME IInv, DocumentsNamed, NEW c \in Calls, Misconfigured(c)
  PROVE  DocumentsNamed'
<1>1. calls[c].pc # "off" /\ End(c, 1) /\ UNCHANGED <<config, jobs, files>>
  BY DEF Misconfigured, service
<1>2. QED
  BY <1>1, QuietEndNamed

LEMMA WaitForPaymentGateNamed ==
  ASSUME IInv, DocumentsNamed, NEW c \in Calls, WaitForPaymentGate(c)
  PROVE  DocumentsNamed'
<1>1. calls[c].pc # "off" /\ UNCHANGED <<config, jobs, files>>
  BY DEF WaitForPaymentGate, service
<1>2. PICK call : call = calls[c]
  OBVIOUS
<1>3. CallForm(call) /\ CallNamed(call) /\ TypeOK
  BY <1>1, <1>2, CallAt
<1>4. CASE synced
  <2>1. PICK new : new = [call EXCEPT !.pc = "sign"]
    OBVIOUS
  <2>2. Becomes(c, new)
    BY <1>2, <1>4, <2>1 DEF WaitForPaymentGate, Goto
  <2>3. CallNamed(new)
    <3>1. new.envelope = call.envelope /\ new.got = call.got /\ new.sent = call.sent
      BY <1>3, <2>1, GotoForm DEF CallForm
    <3>2. QED
      BY <1>3, <3>1, LikeNamed
  <2>4. QED
    BY <1>1, <1>3, <2>2, <2>3, QuietNamed
<1>5. CASE ~ synced /\ calls[c].polls > 0
  <2>1. PICK new : new = [call EXCEPT !.polls = call.polls - 1]
    OBVIOUS
  <2>2. Becomes(c, new)
    BY <1>2, <1>5, <2>1 DEF WaitForPaymentGate
  <2>3. CallNamed(new)
    <3>1. new.envelope = call.envelope /\ new.got = call.got /\ new.sent = call.sent
      BY <1>3, <2>1, PolledForm DEF CallForm
    <3>2. QED
      BY <1>3, <3>1, LikeNamed
  <2>4. QED
    BY <1>1, <1>3, <2>2, <2>3, QuietNamed
<1>6. CASE ~ synced /\ ~ calls[c].polls > 0
  <2>1. End(c, 1)
    BY <1>6 DEF WaitForPaymentGate
  <2>2. QED
    BY <1>1, <2>1, QuietEndNamed
<1>7. QED
  BY <1>4, <1>5, <1>6

LEMMA SignNamed ==
  ASSUME IInv, DocumentsNamed, NEW c \in Calls, Sign(c)
  PROVE  DocumentsNamed'
<1>1. calls[c].pc # "off" /\ UNCHANGED <<config, jobs, files>>
  BY DEF Sign, service
<1>2. PICK call : call = calls[c]
  OBVIOUS
<1>3. CallForm(call) /\ CallNamed(call) /\ TypeOK
  BY <1>1, <1>2, CallAt
<1>4. CASE calls[c].args.story.readable /\ SignedOrder(c) # {}
  <2>1. PICK envelope : envelope = SignedOrder(c)
    OBVIOUS
  <2>2. PICK new : new = [call EXCEPT !.pc = "ask", !.envelope = envelope]
    OBVIOUS
  <2>3. Becomes(c, new)
    BY <1>2, <1>4, <2>1, <2>2 DEF Sign
  <2>4. \A e \in envelope : FromCustomer(e)
    BY <2>1, SignedOrderNamed DEF IInv, DocumentsNamed
  <2>5. new.envelope = envelope /\ new.got = call.got /\ new.sent = call.sent
    BY <1>3, <2>2, SignedForm DEF CallForm
  <2>6. CallNamed(new)
    BY <1>3, <2>4, <2>5 DEF CallNamed
  <2>7. QED
    BY <1>1, <1>3, <2>3, <2>6, QuietNamed
<1>5. CASE ~ (calls[c].args.story.readable /\ SignedOrder(c) # {})
  <2>1. End(c, 1)
    BY <1>5 DEF Sign
  <2>2. QED
    BY <1>1, <2>1, QuietEndNamed
<1>6. QED
  BY <1>4, <1>5

(* A request more, without an answer yet.                                  *)
LEMMA AppendNamed ==
  ASSUME NEW call, CallForm(call), CallNamed(call), NEW r, r.answer.body = {}, NEW new,
         new.envelope = call.envelope, new.got = call.got, new.sent = Append(call.sent, r)
  PROVE  CallNamed(new)
<1>1. PICK sent : sent = Append(call.sent, r)
  OBVIOUS
<1>2. IsRow(call.sent)
  BY DEF CallForm
<1>3. /\ DOMAIN sent = 1..(Len(call.sent) + 1) /\ DOMAIN call.sent = 1..Len(call.sent)
      /\ Len(call.sent) \in Nat
      /\ \A k \in DOMAIN call.sent : sent[k] = call.sent[k]
      /\ sent[Len(call.sent) + 1] = r
  BY <1>1, <1>2, RowAppend, RowDomain
<1>4. ASSUME NEW k \in DOMAIN sent, NEW x \in sent[k].answer.body
      PROVE  ToCustomer(x)
  <2>1. CASE k = Len(call.sent) + 1
    BY <1>3, <1>4, <2>1
  <2>2. CASE k # Len(call.sent) + 1
    <3>1. k \in DOMAIN call.sent
      BY <1>3, <2>2
    <3>2. sent[k] = call.sent[k]
      BY <1>3, <3>1
    <3>3. QED
      BY <1>4, <3>1, <3>2 DEF CallNamed
  <2>3. QED
    BY <2>1, <2>2
<1>5. new.sent = sent
  BY <1>1
<1>6. QED
  BY <1>4, <1>5 DEF CallNamed

LEMMA AskNamed ==
  ASSUME IInv, DocumentsNamed, NEW c \in Calls, Ask(c)
  PROVE  DocumentsNamed'
<1> DEFINE leg == calls[c].leg
           guarded == Guard(leg, calls[c].order)
<1>1. calls[c].pc # "off" /\ UNCHANGED <<config, jobs, files>>
  BY DEF Ask, service
<1>2. PICK call : call = calls[c]
  OBVIOUS
<1>3. CallForm(call) /\ CallNamed(call) /\ TypeOK
  BY <1>1, <1>2, CallAt
<1>4. ASSUME NEW a \in guarded, Conclude(c, a)
      PROVE  DocumentsNamed'
  <2>1. calls[c].order \in Orders
    BY <1>2, <1>3 DEF CallForm
  <2>2. \A r \in a.body : ToCustomer(r)
    BY <1>4, <2>1, GuardNamed
  <2>3. QED
    BY <1>1, <1>4, <2>2, ConcludeNamed
<1>5. ASSUME Becomes(c, [Paying(c) EXCEPT !.pc = "wait",
                                         !.sent = Append(calls[c].sent, NewRequest(c))])
      PROVE  DocumentsNamed'
  <2>1. PICK r : r = NewRequest(c)
    OBVIOUS
  <2>2. r.answer.body = {}
    BY <2>1 DEF NewRequest, NoAnswer, Answer
  <2>3. PICK sent : sent = Append(call.sent, r)
    OBVIOUS
  <2>4. PICK new : new = [[call EXCEPT !.signed = @ + 1] EXCEPT !.pc = "wait", !.sent = sent]
    OBVIOUS
  <2>5. Becomes(c, new)
    BY <1>2, <1>5, <2>1, <2>3, <2>4 DEF Paying
  <2>6. new.envelope = call.envelope /\ new.got = call.got /\ new.sent = sent
    BY <1>3, <2>4, AskedForm DEF CallForm
  <2>7. CallNamed(new)
    BY <1>3, <2>2, <2>3, <2>6, AppendNamed
  <2>8. QED
    BY <1>1, <1>3, <2>5, <2>7, QuietNamed
<1>6. ASSUME End(c, 1)
      PROVE  DocumentsNamed'
  BY <1>1, <1>6, QuietEndNamed
<1>7. QED
  BY <1>4, <1>5, <1>6 DEF Ask

LEMMA AskElsewhereNamed ==
  ASSUME IInv, DocumentsNamed, NEW c \in Calls, NEW paid \in BOOLEAN, NEW body \in OddBodies,
         AskElsewhere(c, paid, body)
  PROVE  DocumentsNamed'
<1>1. PICK answer : answer = Answer(200, IF paid THEN "settled" ELSE "none", body)
  OBVIOUS
<1>2. /\ calls[c].pc # "off" /\ UNCHANGED <<config, jobs, files>>
      /\ Conclude(c, answer)
  BY <1>1 DEF AskElsewhere, service
<1>3. answer.body = body
  BY <1>1 DEF Answer
<1>4. \A r \in answer.body : VerifyEnvelope(r) => ToCustomer(r)
  BY <1>3 DEF DocumentsNamed, ToCustomer
<1>5. QED
  BY <1>2, <1>4, ConcludeNamed

LEMMA ReceiveNamed ==
  ASSUME IInv, DocumentsNamed, NEW c \in Calls, calls[c].pc # "off", Receive(c)
  PROVE  DocumentsNamed'
<1>1. PICK k \in Copies(c) :
        Conclude(c, calls[c].sent[k].answer) /\ UNCHANGED <<config, jobs, files>>
  BY DEF Receive, service
<1>2. k \in DOMAIN calls[c].sent
  BY <1>1 DEF Copies
<1>3. PICK answer : answer = calls[c].sent[k].answer
  OBVIOUS
<1>4. \A r \in answer.body : ToCustomer(r)
  BY <1>2, <1>3 DEF DocumentsNamed, CallNamed
<1>5. QED
  BY <1>1, <1>3, <1>4, ConcludeNamed

LEMMA FileMovesNamed ==
  ASSUME TypeOK, DocumentsNamed, NEW m \in Orders, NEW file, FileNamed(file),
         files' = [files EXCEPT ![m] = file]
  PROVE  \A x \in Orders : FileNamed(files'[x])
<1>1. \A x \in Orders : x # m => files'[x] = files[x]
  BY DEF TypeOK
<1>2. files'[m] = file
  BY DEF TypeOK
<1>3. QED
  BY <1>1, <1>2 DEF DocumentsNamed

LEMMA SaveOrderArtifactsNamed ==
  ASSUME IInv, DocumentsNamed, NEW c \in Calls, SaveOrderArtifacts(c)
  PROVE  DocumentsNamed'
<1>1. calls[c].pc # "off" /\ UNCHANGED <<config, jobs>>
  BY DEF SaveOrderArtifacts, service
<1>2. PICK call : call = calls[c]
  OBVIOUS
<1>3. CallForm(call) /\ CallNamed(call) /\ TypeOK
  BY <1>1, <1>2, CallAt
<1>4. c \in Orders
  BY BoundsAssumption DEF Calls, Orders
<1>5. PICK old : old = files[c]
  OBVIOUS
<1>6. FileNamed(old) /\ DOMAIN old = FileFields
  BY <1>3, <1>4, <1>5 DEF DocumentsNamed, TypeOK
<1>7. \A m \in Orders : \A job \in jobs'[m] : JobNamed(job)
  BY <1>1, KeptNamed
<1>8. ASSUME NEW pc, Goto(c, pc), \A m \in Orders : FileNamed(files'[m])
      PROVE  DocumentsNamed'
  <2>1. PICK new : new = [call EXCEPT !.pc = pc]
    OBVIOUS
  <2>2. Becomes(c, new)
    BY <1>2, <1>8, <2>1 DEF Goto
  <2>3. CallNamed(new)
    <3>1. new.envelope = call.envelope /\ new.got = call.got /\ new.sent = call.sent
      BY <1>3, <2>1, GotoForm DEF CallForm
    <3>2. QED
      BY <1>3, <3>1, LikeNamed
  <2>4. QED
    BY <1>1, <1>3, <1>7, <1>8, <2>2, <2>3, CallMovesNamed
<1>9. CASE /\ calls[c].pc = "save"
           /\ files' = [files EXCEPT ![c] = [files[c] EXCEPT !.mandate = calls[c].envelope]]
           /\ Goto(c, "saved")
  <2>1. PICK file : file = [old EXCEPT !.mandate = call.envelope]
    OBVIOUS
  <2>2. /\ file.mandate = call.envelope /\ file.accepted = old.accepted
        /\ file.receipt = old.receipt
    BY <1>6, <2>1 DEF FileFields
  <2>3. FileNamed(file)
    BY <1>3, <1>6, <2>2 DEF FileNamed, CallNamed
  <2>4. \A m \in Orders : FileNamed(files'[m])
    BY <1>2, <1>3, <1>4, <1>5, <1>9, <2>1, <2>3, FileMovesNamed
  <2>5. QED
    BY <1>8, <1>9, <2>4
<1>10. CASE /\ files' = [files EXCEPT ![c] = [files[c] EXCEPT !.accepted = calls[c].got]]
            /\ IF calls[c].args.verb = "demo" THEN Goto(c, "deliver") ELSE End(c, 0)
  <2>1. PICK file : file = [old EXCEPT !.accepted = call.got]
    OBVIOUS
  <2>2. /\ file.mandate = old.mandate /\ file.accepted = call.got
        /\ file.receipt = old.receipt
    BY <1>6, <2>1 DEF FileFields
  <2>3. FileNamed(file)
    BY <1>3, <1>6, <2>2 DEF FileNamed, CallNamed
  <2>4. \A m \in Orders : FileNamed(files'[m])
    BY <1>2, <1>3, <1>4, <1>5, <1>10, <2>1, <2>3, FileMovesNamed
  <2>5. CASE Goto(c, "deliver")
    BY <1>8, <2>4, <2>5
  <2>6. CASE End(c, 0)
    BY <1>1, <1>7, <2>4, <2>6, EndStepNamed
  <2>7. QED
    BY <1>10, <2>5, <2>6
<1>11. QED
  BY <1>9, <1>10 DEF SaveOrderArtifacts

LEMMA SaveReceiptArtifactNamed ==
  ASSUME IInv, DocumentsNamed, NEW c \in Calls, SaveReceiptArtifact(c)
  PROVE  DocumentsNamed'
<1>1. /\ calls[c].pc # "off" /\ UNCHANGED <<config, jobs>> /\ End(c, 0)
  BY DEF SaveReceiptArtifact, service
<1>2. PICK call : call = calls[c]
  OBVIOUS
<1>3. CallForm(call) /\ CallNamed(call) /\ TypeOK
  BY <1>1, <1>2, CallAt
<1>4. PICK m : m = call.order
  OBVIOUS
<1>5. m \in Orders
  BY <1>3, <1>4 DEF CallForm
<1>6. PICK old : old = files[m]
  OBVIOUS
<1>7. FileNamed(old) /\ DOMAIN old = FileFields
  BY <1>3, <1>5, <1>6 DEF DocumentsNamed, TypeOK
<1>8. PICK file : file = [old EXCEPT !.receipt = call.got]
  OBVIOUS
<1>9. /\ file.mandate = old.mandate /\ file.accepted = old.accepted
      /\ file.receipt = call.got
  BY <1>7, <1>8 DEF FileFields
<1>10. FileNamed(file)
  BY <1>3, <1>7, <1>9 DEF FileNamed, CallNamed
<1>11. files' = [files EXCEPT ![m] = file]
  BY <1>2, <1>4, <1>6, <1>8 DEF SaveReceiptArtifact
<1>12. \A x \in Orders : FileNamed(files'[x])
  BY <1>3, <1>5, <1>10, <1>11, FileMovesNamed
<1>13. \A x \in Orders : \A job \in jobs'[x] : JobNamed(job)
  BY <1>1, KeptNamed
<1>14. QED
  BY <1>1, <1>12, <1>13, EndStepNamed

(* The deliverable is none of the documents.                               *)
LEMMA DeliveredNamed ==
  ASSUME TypeOK, DocumentsNamed, NEW m \in Orders, jobs' = Delivered(m)
  PROVE  \A x \in Orders : \A job \in jobs'[x] : JobNamed(job)
<1>1. \A x \in Orders : x # m => jobs'[x] = jobs[x]
  BY DEF TypeOK, Delivered
<1>2. jobs'[m] = {[job EXCEPT !.delivered = TRUE] : job \in jobs[m]}
  BY DEF TypeOK, Delivered
<1>3. ASSUME NEW job \in jobs'[m]
      PROVE  JobNamed(job)
  <2>1. PICK old \in jobs[m] : job = [old EXCEPT !.delivered = TRUE]
    BY <1>2, <1>3
  <2>2. DOMAIN old = JobFields /\ JobNamed(old)
    BY <2>1 DEF TypeOK, DocumentsNamed
  <2>3. job.envelope = old.envelope /\ job.receipt = old.receipt
    BY <2>1, <2>2 DEF JobFields
  <2>4. QED
    BY <2>2, <2>3 DEF JobNamed
<1>4. QED
  BY <1>1, <1>3 DEF DocumentsNamed

LEMMA DemoDeliversNamed ==
  ASSUME IInv, DocumentsNamed, NEW c \in Calls, DemoDelivers(c)
  PROVE  DocumentsNamed'
<1>1. /\ calls[c].pc # "off" /\ UNCHANGED <<config, files>> /\ jobs' = Delivered(c)
  BY DEF DemoDelivers
<1>2. PICK call : call = calls[c]
  OBVIOUS
<1>3. CallForm(call) /\ CallNamed(call) /\ TypeOK
  BY <1>1, <1>2, CallAt
<1>4. c \in Orders
  BY BoundsAssumption DEF Calls, Orders
<1>5. \A x \in Orders : \A job \in jobs'[x] : JobNamed(job)
  BY <1>1, <1>3, <1>4, DeliveredNamed
<1>6. \A x \in Orders : FileNamed(files'[x])
  BY <1>1, KeptNamed
<1>7. CASE End(c, 1)
  BY <1>1, <1>5, <1>6, <1>7, EndStepNamed
<1>8. CASE Becomes(c, [calls[c] EXCEPT !.pc = "ask", !.leg = "balance"])
  <2>1. PICK new : new = [call EXCEPT !.pc = "ask", !.leg = "balance"]
    OBVIOUS
  <2>2. Becomes(c, new)
    BY <1>2, <1>8, <2>1
  <2>3. CallNamed(new)
    <3>1. new.envelope = call.envelope /\ new.got = call.got /\ new.sent = call.sent
      BY <1>3, <2>1, TurnedForm DEF CallForm
    <3>2. QED
      BY <1>3, <3>1, LikeNamed
  <2>4. QED
    BY <1>1, <1>3, <1>5, <1>6, <2>2, <2>3, CallMovesNamed
<1>9. QED
  BY <1>7, <1>8 DEF DemoDelivers

LEMMA CallsKeptNamed ==
  ASSUME DocumentsNamed, calls' = calls
  PROVE  \A c \in Calls : calls'[c].pc # "off" => CallNamed(calls'[c])
BY DEF DocumentsNamed

LEMMA OperatorNamed ==
  ASSUME IInv, DocumentsNamed, NEW m \in Orders, Operator(m)
  PROVE  DocumentsNamed'
<1>1. UNCHANGED <<config, calls, files>> /\ jobs' = Delivered(m)
  BY DEF Operator
<1>2. \A x \in Orders : \A job \in jobs'[x] : JobNamed(job)
  BY <1>1, DeliveredNamed DEF IInv
<1>3. \A x \in Orders : FileNamed(files'[x])
  BY <1>1, KeptNamed
<1>4. \A c \in Calls : calls'[c].pc # "off" => CallNamed(calls'[c])
  BY <1>1, CallsKeptNamed
<1>5. QED
  BY <1>1, <1>2, <1>3, <1>4, DocumentsStay

LEMMA IdleNamed ==
  ASSUME DocumentsNamed, UNCHANGED <<config, calls, jobs, files>>
  PROVE  DocumentsNamed'
<1>1. /\ \A x \in Orders : \A job \in jobs'[x] : JobNamed(job)
      /\ \A x \in Orders : FileNamed(files'[x])
  BY KeptNamed
<1>2. \A c \in Calls : calls'[c].pc # "off" => CallNamed(calls'[c])
  BY CallsKeptNamed
<1>3. QED
  BY <1>1, <1>2, DocumentsStay

(* A request of an invocation is served.                                   *)
LEMMA ServeNamed ==
  ASSUME IInv, DocumentsNamed, NEW c \in Calls, calls[c].pc # "off",
         NEW k \in DOMAIN calls[c].sent, NEW r, Serve(c, k, r),
         \A x \in r.answer.body : ToCustomer(x), UNCHANGED <<config, files>>,
         \A m \in Orders : \A job \in jobs'[m] : JobNamed(job)
  PROVE  DocumentsNamed'
<1>1. PICK call : call = calls[c]
  OBVIOUS
<1>2. CallForm(call) /\ CallNamed(call) /\ TypeOK
  BY <1>1, CallAt
<1>3. PICK sent : sent = [call.sent EXCEPT ![k] = r]
  OBVIOUS
<1>4. /\ DOMAIN sent = DOMAIN call.sent /\ sent[k] = r
      /\ \A j \in DOMAIN call.sent : j # k => sent[j] = call.sent[j]
  BY <1>1, <1>2, <1>3, RowExcept DEF CallForm
<1>5. PICK new : new = [call EXCEPT !.sent = sent]
  OBVIOUS
<1>6. Becomes(c, new)
  BY <1>1, <1>3, <1>5 DEF Serve
<1>7. new.envelope = call.envelope /\ new.got = call.got /\ new.sent = sent
  BY <1>2, <1>5, ServedForm DEF CallForm
<1>8. \A j \in DOMAIN sent : \A x \in sent[j].answer.body : ToCustomer(x)
  BY <1>2, <1>4 DEF CallNamed
<1>9. CallNamed(new)
  BY <1>2, <1>7, <1>8 DEF CallNamed
<1>10. \A m \in Orders : FileNamed(files'[m])
  BY KeptNamed
<1>11. QED
  BY <1>2, <1>6, <1>9, <1>10, CallMovesNamed

LEMMA ReplyNamed ==
  ASSUME IInv, DocumentsNamed, NEW c \in Calls, calls[c].pc # "off",
         NEW k \in DOMAIN calls[c].sent, NEW answer, Reply(c, k, answer),
         \A x \in answer.body : ToCustomer(x), UNCHANGED <<config, files>>,
         \A m \in Orders : \A job \in jobs'[m] : JobNamed(job)
  PROVE  DocumentsNamed'
<1>1. PICK old : old = calls[c].sent[k]
  OBVIOUS
<1>2. DOMAIN old = RequestFields
  BY <1>1, RequestAt DEF RequestForm
<1>3. PICK r : r = [old EXCEPT !.stage = "answered", !.answer = answer]
  OBVIOUS
<1>4. r.answer = answer
  BY <1>2, <1>3 DEF RequestFields
<1>5. Serve(c, k, r)
  BY <1>1, <1>3 DEF Reply
<1>6. QED
  BY <1>4, <1>5, ServeNamed

LEMMA AdmitNamed ==
  ASSUME IInv, DocumentsNamed, NEW c \in Calls, calls[c].pc # "off",
         NEW k \in DOMAIN calls[c].sent, Admit(c, k)
  PROVE  DocumentsNamed'
<1>1. PICK old : old = calls[c].sent[k]
  OBVIOUS
<1>2. DOMAIN old = RequestFields
  BY <1>1, RequestAt DEF RequestForm
<1>3. UNCHANGED <<config, files, jobs>>
  BY DEF Admit, service
<1>4. \A m \in Orders : \A job \in jobs'[m] : JobNamed(job)
  BY <1>3, KeptNamed
<1>5. ASSUME NEW a \in Guard(old.leg, calls[c].order), Reply(c, k, a)
      PROVE  DocumentsNamed'
  <2>1. calls[c].order \in Orders
    BY RequestAt DEF CallForm
  <2>2. \A x \in a.body : ToCustomer(x)
    BY <1>5, <2>1, GuardNamed
  <2>3. QED
    BY <1>3, <1>4, <1>5, <2>2, ReplyNamed
<1>6. ASSUME Serve(c, k, [old EXCEPT !.stage = "gate"])
      PROVE  DocumentsNamed'
  <2>1. PICK r : r = [old EXCEPT !.stage = "gate"]
    OBVIOUS
  <2>2. r.answer = old.answer
    BY <1>2, <2>1 DEF RequestFields
  <2>3. \A x \in r.answer.body : ToCustomer(x)
    BY <1>1, <2>2 DEF DocumentsNamed, CallNamed
  <2>4. QED
    BY <1>3, <1>4, <1>6, <2>1, <2>3, ServeNamed
<1>7. QED
  BY <1>1, <1>5, <1>6 DEF Admit

LEMMA SettleNamed ==
  ASSUME IInv, DocumentsNamed, NEW c \in Calls, calls[c].pc # "off",
         NEW k \in DOMAIN calls[c].sent, Settle(c, k)
  PROVE  DocumentsNamed'
<1>1. PICK old : old = calls[c].sent[k]
  OBVIOUS
<1>2. DOMAIN old = RequestFields
  BY <1>1, RequestAt DEF RequestForm
<1>3. UNCHANGED <<config, files, jobs>>
  BY DEF Settle
<1>4. \A m \in Orders : \A job \in jobs'[m] : JobNamed(job)
  BY <1>3, KeptNamed
<1>5. CASE Reply(c, k, NotSettled)
  <2>1. NotSettled.body = {}
    BY DEF NotSettled, Answer
  <2>2. PICK answer : answer = NotSettled
    OBVIOUS
  <2>3. Reply(c, k, answer) /\ \A x \in answer.body : ToCustomer(x)
    BY <1>5, <2>1, <2>2
  <2>4. QED
    BY <1>3, <1>4, <2>3, ReplyNamed
<1>6. CASE Serve(c, k, [old EXCEPT !.stage = "claim"])
  <2>1. PICK r : r = [old EXCEPT !.stage = "claim"]
    OBVIOUS
  <2>2. r.answer = old.answer
    BY <1>2, <2>1 DEF RequestFields
  <2>3. \A x \in r.answer.body : ToCustomer(x)
    BY <1>1, <2>2 DEF DocumentsNamed, CallNamed
  <2>4. QED
    BY <1>3, <1>4, <1>6, <2>1, <2>3, ServeNamed
<1>7. QED
  BY <1>1, <1>5, <1>6 DEF Settle

LEMMA HandleRequestNamed ==
  ASSUME IInv, DocumentsNamed, NEW c \in Calls, calls[c].pc # "off",
         NEW k \in DOMAIN calls[c].sent, HandleRequest(c, k)
  PROVE  DocumentsNamed'
<1> DEFINE claim == Claim(registry, calls[c].sent[k].header)
           Reject(status, body) ==
             Serve(c, k, [calls[c].sent[k] EXCEPT !.took = claim, !.stage = "answered",
                                                  !.answer = Answer(status, "settled", body)])
           refusals == {SealRefusal(s, e) : s \in config.service, e \in calls[c].envelope}
           known_ == {Accepted(s, job.envelope) : s \in config.service, job \in jobs[calls[c].order]}
<1>1. PICK old : old = calls[c].sent[k]
  OBVIOUS
<1>2. DOMAIN old = RequestFields
  BY <1>1, RequestAt DEF RequestForm
<1>3. UNCHANGED <<config, files, jobs>>
  BY DEF HandleRequest
<1>4. \A m \in Orders : \A job \in jobs'[m] : JobNamed(job)
  BY <1>3, KeptNamed
<1>5. ASSUME NEW status, NEW body, \A x \in body : ToCustomer(x), Reject(status, body)
      PROVE  DocumentsNamed'
  <2>1. PICK answer : answer = Answer(status, "settled", body)
    OBVIOUS
  <2>2. answer.body = body
    BY <2>1 DEF Answer
  <2>3. PICK r : r = [old EXCEPT !.took = claim, !.stage = "answered", !.answer = answer]
    OBVIOUS
  <2>4. r.answer = answer
    BY <1>2, <2>3 DEF RequestFields
  <2>5. Serve(c, k, r)
    BY <1>1, <1>5, <2>1, <2>3
  <2>6. QED
    BY <1>3, <1>4, <1>5, <2>2, <2>4, <2>5, ServeNamed
<1>6. ASSUME Serve(c, k, [calls[c].sent[k] EXCEPT !.took = claim, !.stage = "work"])
      PROVE  DocumentsNamed'
  <2>1. PICK r : r = [old EXCEPT !.took = claim, !.stage = "work"]
    OBVIOUS
  <2>2. r.answer = old.answer
    BY <1>2, <2>1 DEF RequestFields
  <2>3. \A x \in r.answer.body : ToCustomer(x)
    BY <1>1, <2>2 DEF DocumentsNamed, CallNamed
  <2>4. Serve(c, k, r)
    BY <1>1, <1>6, <2>1
  <2>5. QED
    BY <1>3, <1>4, <2>3, <2>4, ServeNamed
<1>7. \A x \in refusals : ToCustomer(x)
  <2>1. \A e \in calls[c].envelope : FromCustomer(e)
    BY DEF DocumentsNamed, CallNamed
  <2>2. ASSUME NEW s \in config.service, NEW e \in calls[c].envelope
        PROVE  ToCustomer(SealRefusal(s, e))
    BY <2>1, SealedNamed DEF SealRefusal
  <2>3. QED
    BY <2>2
<1>8. \A x \in known_ : ToCustomer(x)
  <2>1. calls[c].order \in Orders
    BY RequestAt DEF CallForm
  <2>2. \A job \in jobs[calls[c].order] : FromCustomer(job.envelope)
    BY <2>1 DEF DocumentsNamed, JobNamed
  <2>3. ASSUME NEW s \in config.service, NEW job \in jobs[calls[c].order]
        PROVE  ToCustomer(Accepted(s, job.envelope))
    BY <2>2, SealedNamed DEF Accepted
  <2>4. QED
    BY <2>3
<1>9. \/ Reject(500, {}) \/ Reject(422, refusals) \/ Reject(200, known_)
      \/ Serve(c, k, [calls[c].sent[k] EXCEPT !.took = claim, !.stage = "work"])
  BY DEF HandleRequest
<1>10. PICK none : none = {}
  OBVIOUS
<1>11. \A x \in none : ToCustomer(x)
  BY <1>10
<1> HIDE DEF Reject, refusals, known_
<1>12. QED
  BY <1>5, <1>6, <1>7, <1>8, <1>9, <1>10, <1>11

LEMMA JobMovesNamed ==
  ASSUME TypeOK, DocumentsNamed, NEW m \in Orders, NEW new, \A job \in new : JobNamed(job),
         jobs' = [jobs EXCEPT ![m] = new]
  PROVE  \A x \in Orders : \A job \in jobs'[x] : JobNamed(job)
<1>1. jobs'[m] = new /\ \A x \in Orders : x # m => jobs'[x] = jobs[x]
  BY DEF TypeOK
<1>2. QED
  BY <1>1 DEF DocumentsNamed

LEMMA AcceptNamed ==
  ASSUME IInv, DocumentsNamed, NEW c \in Calls, calls[c].pc # "off",
         NEW k \in DOMAIN calls[c].sent, Accept(c, k)
  PROVE  DocumentsNamed'
<1>1. PICK e : e = CHOOSE x \in calls[c].envelope : TRUE
  OBVIOUS
<1>2. PICK source : source = (CHOOSE t \in calls[c].sent[k].took : TRUE).payer
  OBVIOUS
<1>3. PICK job : job = [envelope |-> e, payer |-> source, delivered |-> FALSE, receipt |-> {}]
  OBVIOUS
<1>4. PICK receipt : receipt = {Accepted(s, e) : s \in config.service}
  OBVIOUS
<1>5. PICK answer : answer = Answer(201, "settled", receipt)
  OBVIOUS
<1>6. /\ UNCHANGED <<config, files>> /\ Reply(c, k, answer)
      /\ calls[c].sent[k].leg = "intake"
      /\ jobs' = [jobs EXCEPT ![e.body.data.order] = {job}]
  BY <1>1, <1>2, <1>3, <1>4, <1>5 DEF Accept
<1>7. e \in calls[c].envelope
  BY <1>1, <1>6, RequestAt
<1>8. FromCustomer(e)
  BY <1>7 DEF DocumentsNamed, CallNamed
<1>9. e.body.data.order = c
  BY <1>7, RequestAt DEF CallSound, EnvelopeSound
<1>10. c \in Orders
  BY BoundsAssumption DEF Calls, Orders
<1>11. JobNamed(job)
  BY <1>3, <1>8 DEF JobNamed
<1>12. PICK new : new = {job}
  OBVIOUS
<1>13. \A x \in Orders : \A j \in jobs'[x] : JobNamed(j)
  BY <1>6, <1>9, <1>10, <1>11, <1>12, JobMovesNamed DEF IInv
<1>14. \A x \in receipt : ToCustomer(x)
  <2>1. ASSUME NEW s \in config.service
        PROVE  ToCustomer(Accepted(s, e))
    BY <1>8, SealedNamed DEF Accepted
  <2>2. QED
    BY <1>4, <2>1
<1>15. answer.body = receipt
  BY <1>5 DEF Answer
<1>16. QED
  BY <1>6, <1>13, <1>14, <1>15, ReplyNamed

LEMMA ReleaseNamed ==
  ASSUME IInv, DocumentsNamed, NEW c \in Calls, calls[c].pc # "off",
         NEW k \in DOMAIN calls[c].sent, Release(c, k)
  PROVE  DocumentsNamed'
<1>1. PICK m : m = calls[c].order
  OBVIOUS
<1>2. m \in Orders
  BY <1>1, RequestAt DEF CallForm
<1>3. PICK receipt : receipt = Issued(m)
  OBVIOUS
<1>4. UNCHANGED <<config, files>>
  BY DEF Release
<1>5. ASSUME NEW x \in receipt
      PROVE  ToCustomer(x)
  <2>1. PICK s \in config.service, job \in jobs[m] :
          x = SealReceipt(s, "delivered", job.envelope, job.payer)
    BY <1>3, <1>5 DEF Issued
  <2>2. FromCustomer(job.envelope)
    BY <1>2, <2>1 DEF DocumentsNamed, JobNamed
  <2>3. QED
    BY <2>1, <2>2, SealedNamed
<1>6. CASE receipt = {}
  <2>1. PICK answer : answer = Answer(400, "settled", {})
    OBVIOUS
  <2>2. Reply(c, k, answer) /\ jobs' = jobs
    BY <1>1, <1>3, <1>6, <2>1 DEF Release
  <2>3. answer.body = {}
    BY <2>1 DEF Answer
  <2>4. \A x \in Orders : \A job \in jobs'[x] : JobNamed(job)
    BY <2>2, KeptNamed
  <2>5. QED
    BY <1>4, <2>2, <2>3, <2>4, ReplyNamed
<1>7. CASE receipt # {}
  <2>1. PICK answer : answer = Answer(200, "settled", receipt)
    OBVIOUS
  <2>2. PICK new : new = {[job EXCEPT !.receipt = receipt] : job \in jobs[m]}
    OBVIOUS
  <2>3. Reply(c, k, answer) /\ jobs' = [jobs EXCEPT ![m] = new]
    BY <1>1, <1>3, <1>7, <2>1, <2>2 DEF Release
  <2>4. answer.body = receipt
    BY <2>1 DEF Answer
  <2>5. ASSUME NEW job \in new
        PROVE  JobNamed(job)
    <3>1. PICK old \in jobs[m] : job = [old EXCEPT !.receipt = receipt]
      BY <2>2, <2>5
    <3>2. DOMAIN old = JobFields /\ JobNamed(old)
      BY <1>2, <3>1 DEF IInv, TypeOK, DocumentsNamed
    <3>3. job.envelope = old.envelope /\ job.receipt = receipt
      BY <3>1, <3>2 DEF JobFields
    <3>4. QED
      BY <1>5, <3>2, <3>3 DEF JobNamed
  <2>6. \A x \in Orders : \A job \in jobs'[x] : JobNamed(job)
    BY <1>2, <2>3, <2>5, JobMovesNamed DEF IInv
  <2>7. QED
    BY <1>4, <1>5, <2>3, <2>4, <2>6, ReplyNamed
<1>8. QED
  BY <1>6, <1>7

LEMMA FailNamed ==
  ASSUME IInv, DocumentsNamed, NEW c \in Calls, calls[c].pc # "off",
         NEW k \in DOMAIN calls[c].sent, Fail(c, k)
  PROVE  DocumentsNamed'
<1>1. PICK answer : answer = Answer(502, "settled", {})
  OBVIOUS
<1>2. Reply(c, k, answer) /\ UNCHANGED <<config, files, jobs>>
  BY <1>1 DEF Fail, service
<1>3. answer.body = {}
  BY <1>1 DEF Answer
<1>4. \A m \in Orders : \A job \in jobs'[m] : JobNamed(job)
  BY <1>2, KeptNamed
<1>5. QED
  BY <1>2, <1>3, <1>4, ReplyNamed

LEMMA RepeatNamed ==
  ASSUME IInv, DocumentsNamed, NEW c \in Calls, Repeat(c)
  PROVE  DocumentsNamed'
<1>1. PICK k \in Copies(c) :
        /\ Becomes(c, [calls[c] EXCEPT !.sent = Append(calls[c].sent, SentAgain(calls[c].sent[k]))])
        /\ UNCHANGED <<config, jobs, files>>
  BY DEF Repeat, service
<1>2. k \in DOMAIN calls[c].sent /\ calls[c].pc # "off"
  BY <1>1 DEF Copies
<1>3. PICK call : call = calls[c]
  OBVIOUS
<1>4. CallForm(call) /\ CallNamed(call) /\ TypeOK
  BY <1>2, <1>3, CallAt
<1>5. PICK old : old = call.sent[k]
  OBVIOUS
<1>6. DOMAIN old = RequestFields
  BY <1>2, <1>3, <1>5, RequestAt DEF RequestForm
<1>7. PICK r : r = SentAgain(old)
  OBVIOUS
<1>8. r.answer.body = {}
  <2>1. r.answer = NoAnswer
    BY <1>6, <1>7 DEF SentAgain, RequestFields
  <2>2. QED
    BY <2>1 DEF NoAnswer, Answer
<1>9. PICK sent : sent = Append(call.sent, r)
  OBVIOUS
<1>10. PICK new : new = [call EXCEPT !.sent = sent]
  OBVIOUS
<1>11. Becomes(c, new)
  BY <1>1, <1>3, <1>5, <1>7, <1>9, <1>10
<1>12. new.envelope = call.envelope /\ new.got = call.got /\ new.sent = sent
  BY <1>4, <1>10, ServedForm DEF CallForm
<1>13. CallNamed(new)
  BY <1>4, <1>8, <1>9, <1>12, AppendNamed
<1>14. QED
  BY <1>1, <1>4, <1>11, <1>13, QuietNamed

LEMMA CutNamed ==
  ASSUME NEW call, CallForm(call), CallNamed(call)
  PROVE  CallForm(Cut(call)) /\ CallNamed(Cut(call))
<1>1. PICK new : new = Cut(call)
  OBVIOUS
<1>2. /\ CallForm(new) /\ FadesAll(call.sent, new.sent)
      /\ new.envelope = call.envelope /\ new.got = call.got
  BY <1>1, CutForm
<1>3. \A r \in new.got : ToCustomer(r)
  BY <1>2 DEF CallNamed
<1>4. CallNamed(new)
  BY <1>2, <1>3, FadesNamed
<1>5. QED
  BY <1>1, <1>2, <1>4

LEMMA CrashNamed ==
  ASSUME IInv, DocumentsNamed, Crash
  PROVE  DocumentsNamed'
<1>1. /\ calls' = [c \in Calls |-> AfterCrash(c)] /\ UNCHANGED <<config, jobs, files>>
  BY DEF Crash
<1>2. ASSUME NEW c \in Calls, calls'[c].pc # "off"
      PROVE  CallNamed(calls'[c])
  <2>1. PICK call : call = calls[c]
    OBVIOUS
  <2>2. PICK new : new = calls'[c]
    OBVIOUS
  <2>3. new = AfterCrash(c)
    BY <1>1, <2>2
  <2>4. call.pc # "off"
    BY <1>2, <2>1, <2>2, <2>3 DEF AfterCrash
  <2>5. CallForm(call) /\ CallNamed(call)
    BY <2>1, <2>4, CallAt
  <2>6. PICK cut : cut = Cut(call)
    OBVIOUS
  <2>7. CallForm(cut) /\ CallNamed(cut)
    BY <2>5, <2>6, CutNamed
  <2>8. new = cut \/ new = Ended(cut, Killed)
    BY <2>1, <2>3, <2>4, <2>6 DEF AfterCrash
  <2>9. CallNamed(Ended(cut, Killed))
    BY <2>7, EndNamed
  <2>10. QED
    BY <2>2, <2>7, <2>8, <2>9
<1>3. /\ \A x \in Orders : \A job \in jobs'[x] : JobNamed(job)
      /\ \A x \in Orders : FileNamed(files'[x])
  BY <1>1, KeptNamed
<1>4. QED
  BY <1>1, <1>2, <1>3, DocumentsStay

LEMMA TickNamed ==
  ASSUME IInv, DocumentsNamed, Tick
  PROVE  DocumentsNamed'
<1>1. /\ calls' = [c \in Calls |-> Later(c)] /\ UNCHANGED <<config, jobs, files>>
  BY DEF Tick
<1>2. ASSUME NEW c \in Calls, calls'[c].pc # "off"
      PROVE  CallNamed(calls'[c])
  <2>1. PICK call : call = calls[c]
    OBVIOUS
  <2>2. PICK new : new = calls'[c]
    OBVIOUS
  <2>3. new = Later(c)
    BY <1>1, <2>2
  <2>4. call.pc # "off"
    BY <1>2, <2>1, <2>2, <2>3 DEF Later
  <2>5. CallForm(call) /\ CallNamed(call)
    BY <2>1, <2>4, CallAt
  <2>6. PICK sent : sent = [k \in DOMAIN call.sent |-> Waits(call.sent[k])]
    OBVIOUS
  <2>7. new = [call EXCEPT !.sent = sent]
    BY <2>1, <2>3, <2>4, <2>6 DEF Later
  <2>8. new.envelope = call.envelope /\ new.got = call.got /\ new.sent = sent
    BY <2>5, <2>7, ServedForm DEF CallForm
  <2>9. ASSUME NEW k \in DOMAIN sent
        PROVE  k \in DOMAIN call.sent /\ sent[k].answer = call.sent[k].answer
    <3>1. k \in DOMAIN call.sent
      BY <2>6, <2>9
    <3>2. PICK r : r = call.sent[k]
      OBVIOUS
    <3>3. DOMAIN r = RequestFields
      BY <2>5, <3>1, <3>2 DEF CallForm, RequestForm
    <3>4. Waits(r).answer = r.answer
      BY <3>3 DEF Waits, RequestFields
    <3>5. QED
      BY <2>6, <3>1, <3>2, <3>4
  <2>10. CallNamed(new)
    BY <2>5, <2>8, <2>9 DEF CallNamed
  <2>11. QED
    BY <2>2, <2>10
<1>3. /\ \A x \in Orders : \A job \in jobs'[x] : JobNamed(job)
      /\ \A x \in Orders : FileNamed(files'[x])
  BY <1>1, KeptNamed
<1>4. QED
  BY <1>1, <1>2, <1>3, DocumentsStay

LEMMA ProceedNamed ==
  ASSUME IInv, DocumentsNamed, NEW c \in Calls, Proceed(c)
  PROVE  DocumentsNamed'
<1>1. calls[c].pc # "off"
  BY DEF Proceed
<1>2. CASE Sign(c)
  BY <1>2, SignNamed
<1>3. CASE Send(c)
  BY <1>1, <1>3, AskNamed, AskElsewhereNamed, ReceiveNamed DEF Send
<1>4. CASE SaveOrderArtifacts(c)
  BY <1>4, SaveOrderArtifactsNamed
<1>5. CASE Misconfigured(c)
  BY <1>5, MisconfiguredNamed
<1>6. CASE SaveReceiptArtifact(c)
  BY <1>6, SaveReceiptArtifactNamed
<1>7. CASE WaitForPaymentGate(c)
  BY <1>7, WaitForPaymentGateNamed
<1>8. CASE DemoDelivers(c)
  BY <1>8, DemoDeliversNamed
<1>9. QED
  BY <1>2, <1>3, <1>4, <1>5, <1>6, <1>7, <1>8 DEF Proceed, RunOrder, RunCollect, RunDemo

LEMMA ServeRequestNamed ==
  ASSUME IInv, DocumentsNamed, NEW c \in Calls, ServeRequest(c)
  PROVE  DocumentsNamed'
<1>1. PICK k \in DOMAIN calls[c].sent :
        /\ calls[c].pc # "off"
        /\ \/ Admit(c, k) \/ Settle(c, k) \/ HandleRequest(c, k)
           \/ Accept(c, k) \/ Release(c, k) \/ Fail(c, k)
  BY DEF ServeRequest
<1>2. QED
  BY <1>1, AdmitNamed, SettleNamed, HandleRequestNamed, AcceptNamed, ReleaseNamed, FailNamed

LEMMA NextNamed == IInv /\ DocumentsNamed /\ [Next]_vars => DocumentsNamed'
<1> SUFFICES ASSUME IInv, DocumentsNamed, [Next]_vars
             PROVE  DocumentsNamed'
  OBVIOUS
<1>1. ASSUME NEW c \in Calls, NEW i \in Invocations, NEW m \in Orders, Start(c, i, m)
      PROVE  DocumentsNamed'
  BY <1>1, StartNamed
<1>2. ASSUME NEW c \in Calls, Proceed(c)
      PROVE  DocumentsNamed'
  BY <1>2, ProceedNamed
<1>3. ASSUME NEW c \in Calls, Throw(c)
      PROVE  DocumentsNamed'
  BY <1>3, ThrowNamed
<1>4. ASSUME NEW c \in Calls, Repeat(c)
      PROVE  DocumentsNamed'
  BY <1>4, RepeatNamed
<1>5. ASSUME NEW c \in Calls, ServeRequest(c)
      PROVE  DocumentsNamed'
  BY <1>5, ServeRequestNamed
<1>6. ASSUME NEW m \in Orders, Operator(m)
      PROVE  DocumentsNamed'
  BY <1>6, OperatorNamed
<1>7. CASE Sync
  BY <1>7, IdleNamed DEF Sync
<1>8. CASE Crash
  BY <1>8, CrashNamed
<1>9. CASE Tick
  BY <1>9, TickNamed
<1>10. CASE UNCHANGED vars
  BY <1>10, IdleNamed DEF vars
<1>11. QED
  BY <1>1, <1>2, <1>3, <1>4, <1>5, <1>6, <1>7, <1>8, <1>9, <1>10 DEF Next

(* The two documents of an order that was paid for pass the verifier's     *)
(* check of identities, if the identifiers that the environments give the  *)
(* agents are their own and the contractor's signature is nobody else's.   *)
THEOREM IdentityHoldsForItsOwn ==
  ASSUME OwnIdentifiers, NothingForged
  PROVE  Spec => []IdentityHolds
<1>1. Init => DocumentsNamed
  BY DocumentsAtFirst
<1>2. IInv /\ DocumentsNamed /\ [Next]_vars => DocumentsNamed'
  BY NextNamed
<1>3. DocumentsNamed /\ IInv => IdentityHolds
  BY NamedPasses
<1>4. QED
  BY <1>1, <1>2, <1>3, InvariantHolds, PTL DEF Spec
=============================================================================
