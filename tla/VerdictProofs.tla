--------------------------- MODULE VerdictProofs ----------------------------
(***************************************************************************)
(* The invariant of the verification and what follows from it, for every   *)
(* ledger, every question and any number of answers.                       *)
(***************************************************************************)
EXTENDS VerdictProperties, LogLemmas, FiniteSetTheorems

-----------------------------------------------------------------------------
(* Pages.                                                                  *)

(* Of some positions that are bounded, one is the last.                    *)
LEMMA LastPosition ==
  ASSUME NEW S, S \subseteq Nat, S # {}, NEW b \in Nat, \A y \in S : y <= b
  PROVE  Max(S) \in S /\ \A y \in S : y <= Max(S)
<1> DEFINE U == {u \in Nat : \A y \in S : y <= u}
<1>1. PICK u \in U : \A v \in U : u <= v
  <2>1. U \subseteq Nat /\ U # {}
    OBVIOUS
  <2>2. QED
    BY <2>1, LeastPosition
<1>2. u \in S
  <2>1. SUFFICES ASSUME u \notin S PROVE FALSE
    OBVIOUS
  <2>2. PICK y \in S : TRUE
    OBVIOUS
  <2>3. u \in Nat /\ \A z \in S : z < u
    BY <1>1, <2>1
  <2>4. u - 1 \in U
    BY <2>2, <2>3
  <2>5. QED
    BY <1>1, <2>3, <2>4
<1>3. \E x \in S : \A y \in S : x >= y
  BY <1>1, <1>2
<1>4. Max(S) \in S /\ \A y \in S : Max(S) >= y
  BY <1>3 DEF Max
<1>5. QED
  BY <1>4

(* The messages in the first n entries are among them, and stay.           *)
LEMMA MessagesFinite ==
  ASSUME NEW l, NEW n \in Nat, NEW t, NEW a
  PROVE  /\ MessagesOf(l, n, t, a) \subseteq 1..n
         /\ IsFiniteSet(MessagesOf(l, n, t, a))
         /\ Cardinality(MessagesOf(l, n, t, a)) \in Nat
<1>1. MessagesOf(l, n, t, a) \subseteq 1..n
  BY DEF MessagesOf
<1>2. IsFiniteSet(1..n)
  BY FS_Interval
<1>3. IsFiniteSet(MessagesOf(l, n, t, a))
  BY <1>1, <1>2, FS_Subset
<1>4. QED
  BY <1>1, <1>3, FS_CardinalityType

LEMMA MessagesStay ==
  ASSUME NEW l, NEW m \in Nat, NEW n \in Nat, m <= n, NEW t, NEW a
  PROVE  MessagesOf(l, m, t, a) \subseteq MessagesOf(l, n, t, a)
BY DEF MessagesOf

(* The first k positions of a set.                                         *)
Foremost(S, k) == {i \in S : Cardinality({j \in S : j < i}) < k}

LEMMA PageIsSmall ==
  ASSUME NEW S, NEW n \in Nat, S \subseteq 1..n, NEW k \in Nat \ {0}
  PROVE  /\ IsFiniteSet(Foremost(S, k))
         /\ Cardinality(Foremost(S, k)) \in 0..k
         /\ Cardinality(S) < k => Foremost(S, k) = S
         /\ \A i \in Foremost(S, k) : \A j \in S : j < i => j \in Foremost(S, k)
<1> DEFINE Below(i) == {j \in S : j < i}
           P == {i \in S : Cardinality(Below(i)) < k}
<1>0. S \subseteq Nat /\ \A y \in S : y <= n
  OBVIOUS
<1>1. IsFiniteSet(S)
  <2>1. IsFiniteSet(1..n)
    BY FS_Interval
  <2>2. QED
    BY <2>1, FS_Subset
<1>2. \A i \in S : IsFiniteSet(Below(i)) /\ Cardinality(Below(i)) \in Nat
  <2>1. TAKE i \in S
  <2>2. Below(i) \in SUBSET S
    OBVIOUS
  <2>3. QED
    BY <1>1, <2>2, FS_Subset, FS_CardinalityType
<1>3. IsFiniteSet(P)
  BY <1>1, FS_Subset
<1>4. Cardinality(S) < k => P = S
  <2>1. SUFFICES ASSUME Cardinality(S) < k, NEW i \in S PROVE Cardinality(Below(i)) < k
    OBVIOUS
  <2>2. Below(i) \in SUBSET S
    OBVIOUS
  <2>3. Cardinality(Below(i)) <= Cardinality(S) /\ Cardinality(S) \in Nat
    BY <1>1, <2>2, FS_Subset, FS_CardinalityType
  <2>4. QED
    BY <1>2, <2>1, <2>3
<1>5. \A i \in P : \A j \in S : j < i => j \in P
  <2>1. SUFFICES ASSUME NEW i \in P, NEW j \in S, j < i PROVE Cardinality(Below(j)) < k
    OBVIOUS
  <2>2. i \in Nat /\ j \in Nat /\ \A h \in S : h \in Nat /\ (h < j => h < i)
    BY <1>0, <2>1
  <2>6. Below(j) \in SUBSET Below(i)
    BY <2>2
  <2>3. IsFiniteSet(Below(i)) /\ Cardinality(Below(i)) \in Nat /\ Cardinality(Below(j)) \in Nat
    BY <1>2
  <2>4. Cardinality(Below(j)) <= Cardinality(Below(i))
    BY <2>3, <2>6, FS_Subset
  <2>5. QED
    BY <1>2, <2>1, <2>3, <2>4
<1>6. Cardinality(P) \in 0..k
  <2>1. CASE P = {}
    <3>1. Cardinality(P) = 0
      BY <2>1, FS_EmptySet, Zenon
    <3>2. QED
      BY <3>1
  <2>2. CASE P # {}
    <3>1. P \subseteq Nat /\ \A y \in P : y <= n
      BY <1>0
    <3> DEFINE m == Max(P)
    <3>2. m \in P /\ \A y \in P : y <= m
      BY <2>2, <3>1, LastPosition
    <3> HIDE DEF m
    <3>3. P \in SUBSET (Below(m) \cup {m})
      BY <3>1, <3>2
    <3>4. IsFiniteSet(Below(m)) /\ Cardinality(Below(m)) \in Nat /\ Cardinality(Below(m)) < k
      BY <1>2, <3>2
    <3>5. /\ IsFiniteSet(Below(m) \cup {m})
          /\ Cardinality(Below(m) \cup {m}) <= k
          /\ Cardinality(Below(m) \cup {m}) \in Nat
      <4>1. m \notin Below(m)
        BY <3>1, <3>2
      <4>2. Cardinality(Below(m) \cup {m}) = Cardinality(Below(m)) + 1
        BY <3>4, <4>1, FS_AddElement
      <4>3. QED
        BY <3>4, <4>2, FS_AddElement
    <3>6. Cardinality(P) <= Cardinality(Below(m) \cup {m})
      BY <3>3, <3>5, FS_Subset
    <3>7. Cardinality(P) \in Nat
      BY <1>3, FS_CardinalityType
    <3>8. QED
      BY <3>5, <3>6, <3>7
  <2>3. QED
    BY <2>1, <2>2
<1>7. Foremost(S, k) = P
  BY DEF Foremost
<1> HIDE DEF P
<1>8. QED
  BY <1>3, <1>4, <1>5, <1>6, <1>7

PageSound(l, n, t, from, after, page, last) ==
  /\ last \in Nat /\ after <= last
  /\ last <= n \/ last = from
  /\ MessagesOf(l, last, t, from) = MessagesOf(l, after, t, from) \cup page.messages
  /\ IsFiniteSet(page.messages) /\ Cardinality(page.messages) \in 0..PageSize
  /\ page.next \in BOOLEAN
  /\ ~ page.next =>
       /\ Cardinality(page.messages) < PageSize
       /\ MessagesOf(l, n, t, from) = MessagesOf(l, after, t, from) \cup page.messages

(* Reading one page leaves out nothing up to its last message; the last    *)
(* page leaves out nothing.                                                *)
LEMMA PageRead ==
  ASSUME NEW l, NEW n \in Nat, NEW t, NEW from \in Nat, NEW after \in Nat,
         from <= after, after <= n \/ after = from,
         NEW page, page = MessagePage(l, n, t, after),
         NEW last, last = Max(page.messages \cup {after})
  PROVE  PageSound(l, n, t, from, after, page, last)
<1> DEFINE rest == MessagesOf(l, n, t, after)
           P == Foremost(rest, PageSize)
<1>1. page.messages = P /\ page.next = (Cardinality(rest) >= PageSize)
  BY DEF MessagePage, Foremost
<1>2. PageSize \in Nat \ {0}
  BY PagesAssumption
<1>3. rest \subseteq 1..n /\ Cardinality(rest) \in Nat
  BY MessagesFinite
<1>4. /\ IsFiniteSet(P)
      /\ Cardinality(P) \in 0..PageSize
      /\ Cardinality(rest) < PageSize => P = rest
      /\ \A i \in P : \A j \in rest : j < i => j \in P
  BY <1>2, <1>3, PageIsSmall
<1>5. P \subseteq rest
  BY DEF Foremost
<1>6. \A i \in rest : i \in 1..n /\ i > after
  BY DEF MessagesOf
<1> HIDE DEF P, rest
<1>7. last \in P \cup {after} /\ \A y \in P \cup {after} : y <= last
  <2>1. P \cup {after} \subseteq Nat
    BY <1>5, <1>6
  <2>2. \A y \in P \cup {after} : y <= n + after
    BY <1>5, <1>6
  <2>3. n + after \in Nat
    OBVIOUS
  <2>4. QED
    BY <1>1, <2>1, <2>2, <2>3, LastPosition
<1>8. last \in Nat /\ after <= last /\ (last <= n \/ last = from)
  BY <1>5, <1>6, <1>7
<1>9. \A i \in rest : i \in P <=> i <= last
  <2>1. TAKE i \in rest
  <2>2. i \in P => i <= last
    BY <1>7
  <2>3. ASSUME i <= last PROVE i \in P
    <3>1. i \in Nat /\ i > after
      BY <1>6
    <3>2. last \in P
      BY <1>7, <2>3, <3>1
    <3>3. QED
      BY <1>4, <1>8, <2>3, <3>1, <3>2
  <2>4. QED
    BY <2>2, <2>3
<1>10. MessagesOf(l, last, t, from) = MessagesOf(l, after, t, from) \cup P
  <2>1. ASSUME NEW i \in MessagesOf(l, last, t, from)
        PROVE  i \in MessagesOf(l, after, t, from) \cup P
    <3>1. i \in 1..last /\ i > from /\ l[i].type = "message" /\ l[i].topic = t
      BY DEF MessagesOf
    <3>2. CASE i <= after
      BY <1>8, <3>1, <3>2 DEF MessagesOf
    <3>3. CASE i > after
      <4>1. i \in rest
        BY <1>8, <3>1, <3>3 DEF MessagesOf, rest
      <4>2. QED
        BY <1>9, <3>1, <4>1
    <3>4. QED
      BY <3>1, <3>2, <3>3
  <2>2. ASSUME NEW i \in MessagesOf(l, after, t, from) PROVE i \in MessagesOf(l, last, t, from)
    BY <1>8, <2>2 DEF MessagesOf
  <2>3. ASSUME NEW i \in P PROVE i \in MessagesOf(l, last, t, from)
    <3>1. i \in rest /\ i <= last
      BY <1>5, <1>9, <2>3
    <3>2. QED
      BY <1>8, <3>1 DEF MessagesOf, rest
  <2>4. QED
    BY <2>1, <2>2, <2>3
<1>11. P = rest => MessagesOf(l, n, t, from) = MessagesOf(l, after, t, from) \cup P
  <2>1. ASSUME NEW i \in MessagesOf(l, n, t, from)
        PROVE  i \in MessagesOf(l, after, t, from) \cup rest
    BY <2>1 DEF MessagesOf, rest
  <2>2. ASSUME NEW i \in MessagesOf(l, after, t, from) \cup rest
        PROVE  i \in MessagesOf(l, n, t, from)
    BY <2>2 DEF MessagesOf, rest
  <2>3. QED
    BY <2>1, <2>2
<1>12. ~ (Cardinality(rest) >= PageSize) => Cardinality(rest) < PageSize
  BY <1>2, <1>3
<1>13. QED
  <2>1. page.next \in BOOLEAN
    BY <1>1
  <2>2. ~ page.next => Cardinality(rest) < PageSize
    BY <1>1, <1>12, Zenon
  <2> HIDE DEF P, rest
  <2>3. page.messages = P
    BY <1>1
  <2>4. QED
    BY <1>4, <1>8, <1>10, <1>11, <2>1, <2>2, <2>3 DEF PageSound

(* No more messages than the pages could hold.                             *)
LEMMA MorePages ==
  ASSUME NEW p \in Nat, NEW k \in Nat, NEW c \in Nat, c <= p * k, NEW d \in 0..k
  PROVE  c + d <= (p + 1) * k /\ (d < k => c + d < (p + 1) * k)
<1>1. p * k \in Nat /\ (p + 1) * k = p * k + k
  OBVIOUS
<1>2. QED
  BY <1>1

LEMMA FewerPages ==
  ASSUME NEW p \in Nat, NEW q \in Nat, p <= q, NEW k \in Nat
  PROVE  p * k <= q * k
<1>1. PICK d \in Nat : q = p + d
  <2>1. q - p \in Nat /\ q = p + (q - p)
    OBVIOUS
  <2>2. QED
    BY <2>1
<1>2. q * k = p * k + d * k
  BY <1>1
<1>3. p * k \in Nat /\ d * k \in Nat
  BY <1>1
<1>4. QED
  BY <1>2, <1>3

LEMMA UnionIsBounded ==
  ASSUME NEW S, NEW T, IsFiniteSet(S), IsFiniteSet(T)
  PROVE  /\ Cardinality(S \cup T) \in Nat /\ Cardinality(S) \in Nat /\ Cardinality(T) \in Nat
         /\ Cardinality(S \cup T) <= Cardinality(S) + Cardinality(T)
<1>1. IsFiniteSet(S \cup T) /\ IsFiniteSet(S \cap T)
  BY FS_Union, FS_Intersection
<1>2. Cardinality(S \cup T) = Cardinality(S) + Cardinality(T) - Cardinality(S \cap T)
  BY FS_Union
<1>3. /\ Cardinality(S \cup T) \in Nat /\ Cardinality(S) \in Nat /\ Cardinality(T) \in Nat
      /\ Cardinality(S \cap T) \in Nat
  BY <1>1, FS_CardinalityType
<1>4. QED
  BY <1>2, <1>3

LEMMA AnchorsOfBoth ==
  ASSUME NEW l, NEW S, NEW T
  PROVE  AnchorsAmong(l, S \cup T) = AnchorsAmong(l, S) \cup AnchorsAmong(l, T)
BY DEF AnchorsAmong

-----------------------------------------------------------------------------
(* What was read, and what the rest of the record makes of it.             *)

Successes(l, n, id) == {i \in RecordsOf(l, n, id) : l[i].result = "SUCCESS"}

LEMMA RecordsStay ==
  ASSUME NEW l, NEW n \in Nat, NEW k \in Nat, n <= k, NEW id
  PROVE  /\ RecordsOf(l, n, id) \subseteq 1..n
         /\ RecordsOf(l, n, id) \subseteq RecordsOf(l, k, id)
         /\ \A i \in RecordsOf(l, k, id) : i <= n => i \in RecordsOf(l, n, id)
BY DEF RecordsOf

(* Some record is the earliest.                                            *)
LEMMA EarliestIsOne ==
  ASSUME NEW l, NEW S, S \subseteq Nat, S # {}
  PROVE  Earliest(l, S) # {}
<1>1. PICK i \in S : \A j \in S : i <= j
  BY LeastPosition
<1>2. l[i] \in Earliest(l, S)
  BY <1>1 DEF Earliest
<1>3. QED
  BY <1>2

(* A transfer that can be read can be read later.                          *)
LEMMA TransferStays ==
  ASSUME NEW l, NEW n \in Nat, NEW k \in Nat, n <= k, NEW id,
         ReadTransaction(l, n, id) # {}
  PROVE  ReadTransaction(l, k, id) # {}
<1>1. RecordsOf(l, n, id) # {}
  BY DEF ReadTransaction, Earliest
<1>2. RecordsOf(l, k, id) # {} /\ RecordsOf(l, k, id) \subseteq Nat
  BY <1>1, RecordsStay
<1>3. CASE Successes(l, k, id) # {}
  <2>1. ReadTransaction(l, k, id) = Earliest(l, Successes(l, k, id))
    BY <1>3 DEF ReadTransaction, Successes
  <2>2. Successes(l, k, id) \subseteq Nat
    BY <1>2 DEF Successes
  <2>3. QED
    BY <1>3, <2>1, <2>2, EarliestIsOne
<1>4. CASE Successes(l, k, id) = {}
  <2>1. ReadTransaction(l, k, id) = Earliest(l, RecordsOf(l, k, id))
    BY <1>4 DEF ReadTransaction, Successes
  <2>2. QED
    BY <1>2, <2>1, EarliestIsOne
<1>5. QED
  BY <1>3, <1>4

(* Once the money has moved, every reader finds the same transfer.         *)
LEMMA SuccessStays ==
  ASSUME NEW l, NEW n \in Nat, NEW k \in Nat, n <= k, NEW id,
         Successes(l, n, id) # {}
  PROVE  ReadTransaction(l, k, id) = ReadTransaction(l, n, id)
<1>1. /\ Successes(l, n, id) \subseteq Successes(l, k, id)
      /\ \A i \in Successes(l, k, id) : i \in Nat /\ (i <= n => i \in Successes(l, n, id))
      /\ \A i \in Successes(l, n, id) : i \in Nat /\ i <= n
  <2>1. /\ \A i \in RecordsOf(l, k, id) : i \in 1..k
        /\ \A i \in RecordsOf(l, n, id) : i \in 1..n
    BY RecordsStay
  <2>2. QED
    BY <2>1, RecordsStay DEF Successes
<1>2. /\ ReadTransaction(l, n, id) = Earliest(l, Successes(l, n, id))
      /\ ReadTransaction(l, k, id) = Earliest(l, Successes(l, k, id))
  BY <1>1 DEF ReadTransaction, Successes
<1> DEFINE First(S) == {i \in S : \A j \in S : i <= j}
<1>3. First(Successes(l, n, id)) = First(Successes(l, k, id))
  <2>1. ASSUME NEW i \in First(Successes(l, n, id)) PROVE i \in First(Successes(l, k, id))
    <3>1. i \in Successes(l, k, id) /\ i \in Nat /\ i <= n
      BY <1>1
    <3>2. \A j \in Successes(l, k, id) : i <= j
      <4>1. TAKE j \in Successes(l, k, id)
      <4>2. CASE j <= n
        BY <1>1, <4>2
      <4>3. CASE ~ j <= n
        BY <1>1, <3>1, <4>3
      <4>4. QED
        BY <4>2, <4>3
    <3>3. QED
      BY <3>1, <3>2
  <2>2. ASSUME NEW i \in First(Successes(l, k, id)) PROVE i \in First(Successes(l, n, id))
    <3>1. PICK j \in Successes(l, n, id) : TRUE
      OBVIOUS
    <3>2. i \in Nat /\ i <= j /\ j \in Nat /\ j <= n
      BY <1>1
    <3>3. i \in Successes(l, n, id)
      BY <1>1, <3>2
    <3>4. QED
      BY <1>1, <3>3
  <2>3. QED
    BY <2>1, <2>2
<1>4. QED
  BY <1>2, <1>3 DEF Earliest

LEMMA SuccessIsThere ==
  ASSUME NEW l, NEW n \in Nat, NEW id, NEW x \in ReadTransaction(l, n, id),
         x.result = "SUCCESS"
  PROVE  Successes(l, n, id) # {}
<1>1. SUFFICES ASSUME Successes(l, n, id) = {} PROVE FALSE
  OBVIOUS
<1>2. x \in Earliest(l, RecordsOf(l, n, id))
  BY <1>1 DEF ReadTransaction, Successes
<1>3. PICK i \in RecordsOf(l, n, id) : x = l[i]
  BY <1>2 DEF Earliest
<1>4. QED
  BY <1>1, <1>3 DEF Successes

-----------------------------------------------------------------------------
(* Schedules and their executions.                                         *)

ExecutionsOf(l, n, s) == {i \in RecordsOf(l, n, s) : l[i].scheduled}
Deleted(l, n, s) == \E i \in 1..n : l[i].type = "deletion" /\ l[i].id = s
ExecutedAt(l, n, s) ==
  IF ExecutionsOf(l, n, s) = {} THEN 0 ELSE CHOOSE j \in ExecutionsOf(l, n, s) : TRUE
ScheduleRead(l, n, s, j) ==
  [id |-> s, creator |-> l[j].creator, deleted |-> Deleted(l, n, s),
   executed |-> ExecutedAt(l, n, s)]
TheSchedule(l, n, s, j) == {ScheduleRead(l, n, s, j)}

(* Of a schedule that is there, one record can be read.                    *)
LEMMA ScheduleIsOne ==
  ASSUME NEW l, IsLedger(l),
         NEW n \in 0..Len(l), NEW s, NEW j \in 1..n, l[j].type = "schedule", l[j].id = s
  PROVE  ReadSchedule(l, n, s) = {ScheduleRead(l, n, s, j)}
<1>1. DOMAIN l = 1..Len(l) /\ Len(l) \in Nat
  BY DEF IsLedger
<1>2. {i \in 1..n : l[i].type = "schedule" /\ l[i].id = s} = {j}
  <2>1. \A i \in 1..n : i \in DOMAIN l
    BY <1>1
  <2>2. \A i \in 1..n : l[i].type = "schedule" /\ l[i].id = s => i = j
    BY <2>1 DEF IsLedger, NetworkOrdered
  <2>3. QED
    BY <2>2
<1>3. ReadSchedule(l, n, s) =
        {ScheduleRead(l, n, s, i) : i \in {h \in 1..n : l[h].type = "schedule" /\ l[h].id = s}}
  BY Zenon DEF ReadSchedule, ScheduleRead, Deleted, ExecutedAt, ExecutionsOf
<1>4. QED
  BY <1>2, <1>3

(* An execution is the only one of its schedule.                           *)
LEMMA ExecutionIsOne ==
  ASSUME NEW l, IsLedger(l),
         NEW n \in 0..Len(l), NEW s, NEW x \in ExecutionsOf(l, n, s)
  PROVE  /\ ExecutionsOf(l, n, s) = {x}
         /\ ExecutedAt(l, n, s) = x
<1>1. DOMAIN l = 1..Len(l) /\ Len(l) \in Nat
  BY DEF IsLedger
<1>2. \A i \in ExecutionsOf(l, n, s) : i \in DOMAIN l /\ Executes(l[i]) /\ l[i].id = s
  BY <1>1 DEF ExecutionsOf, RecordsOf, Executes
<1>3. \A i \in ExecutionsOf(l, n, s) : i = x
  BY <1>2 DEF IsLedger, NetworkOrdered
<1>4. ExecutionsOf(l, n, s) = {x}
  BY <1>3
<1>5. QED
  BY <1>4 DEF ExecutedAt

LEMMA ExecutionsStay ==
  ASSUME NEW l, NEW n \in Nat, NEW k \in Nat, n <= k, NEW s
  PROVE  /\ ExecutionsOf(l, n, s) \subseteq ExecutionsOf(l, k, s)
         /\ \A i \in ExecutionsOf(l, k, s) : i \in Nat \ {0} /\ (i <= n => i \in ExecutionsOf(l, n, s))
         /\ Deleted(l, n, s) => Deleted(l, k, s)
<1>1. \A i \in 1..n : i \in 1..k
  OBVIOUS
<1>2. \A i \in RecordsOf(l, k, s) : i \in Nat \ {0}
  BY RecordsStay
<1>3. QED
  BY <1>1, <1>2, RecordsStay DEF ExecutionsOf, Deleted

(* The first anchor of a kind, and the message it was read from.           *)
LEMMA FirstEntry ==
  ASSUME NEW l, NEW n \in Nat, NEW t, NEW m, NEW kind,
         NEW E, E = ToAnchorEntries(l, AnchorsAmong(l, MessagesOf(l, n, t, 0))),
         PositionsOf(E, m, kind) # {}
  PROVE  \E p \in PositionsOf(E, m, kind) :
           /\ FirstOf(E, m, kind) = AnchorEntry(l, p)
           /\ p \in AnchorsAmong(l, MessagesOf(l, n, t, 0))
           /\ p \in 1..n
           /\ l[p].type = "message" /\ l[p].topic = t
           /\ l[p].anchor.kind = kind /\ l[p].anchor.order = m
           /\ \A o \in PositionsOf(E, m, kind) : p <= o
<1> DEFINE S == AnchorsAmong(l, MessagesOf(l, n, t, 0))
<1>1. DOMAIN E = S /\ \A i \in S : E[i] = AnchorEntry(l, i)
  BY DEF ToAnchorEntries
<1>2. \A i \in S : i \in 1..n /\ l[i].type = "message" /\ l[i].topic = t
  BY DEF AnchorsAmong, MessagesOf
<1> HIDE DEF S
<1>3. DOMAIN E \subseteq Nat
  BY <1>1, <1>2
<1>4. PICK p \in PositionsOf(E, m, kind) :
        FirstOf(E, m, kind) = E[p] /\ \A o \in PositionsOf(E, m, kind) : p <= o
  BY <1>3, FirstStands
<1>5. p \in S /\ E[p].order = m /\ E[p].kind = kind
  BY <1>1 DEF PositionsOf
<1>6. E[p] = AnchorEntry(l, p) /\ l[p].anchor.kind = kind /\ l[p].anchor.order = m
  BY <1>1, <1>5 DEF AnchorEntry
<1>7. QED
  BY <1>2, <1>4, <1>5, <1>6 DEF S

(* A schedule that an anchor names is there since before the anchor, and   *)
(* was created once.                                                       *)
LEMMA ScheduleBefore ==
  ASSUME NEW l, IsLedger(l),
         NEW n \in 0..Len(l), NEW k \in n..Len(l),
         NEW p \in 1..n, l[p].type = "message", l[p].anchor.kind = "retainer_scheduled",
         NEW s, l[p].anchor.by = s, ReadSchedule(l, k, s) # {}
  PROVE  \E j \in 1..n : /\ ReadSchedule(l, n, s) = TheSchedule(l, n, s, j)
                         /\ ReadSchedule(l, k, s) = TheSchedule(l, k, s, j)
<1>1. DOMAIN l = 1..Len(l) /\ Len(l) \in Nat /\ n \in Nat /\ k \in Nat /\ n <= k /\ k <= Len(l)
  BY DEF IsLedger
<1>2. PICK i \in 1..k : l[i].type = "schedule" /\ l[i].id = s
  BY DEF ReadSchedule
<1>3. i \in DOMAIN l /\ p \in DOMAIN l
  BY <1>1
<1>4. Vouches(l[p].anchor, l[i])
  BY <1>2 DEF Vouches
<1>5. PICK j \in 1..(p - 1) : Vouches(l[p].anchor, l[j])
  BY <1>3, <1>4 DEF IsLedger, AnchoredAfterwards
<1>6. l[j].type = "schedule" /\ l[j].id = s
  BY <1>5 DEF Vouches
<1>7. j \in 1..n /\ j \in 1..k /\ n \in 0..Len(l) /\ k \in 0..Len(l)
  BY <1>1
<1>8. ReadSchedule(l, n, s) = TheSchedule(l, n, s, j)
  BY <1>6, <1>7, ScheduleIsOne DEF TheSchedule
<1>9. ReadSchedule(l, k, s) = TheSchedule(l, k, s, j)
  BY <1>6, <1>7, ScheduleIsOne DEF TheSchedule
<1>10. QED
  BY <1>7, <1>8, <1>9

(* So what stands later stood before, and was executed no earlier.         *)
StoodBefore(l, n, k, held, Sn, Sk, payer) ==
  /\ Authorised(held, Sn, payer)
  /\ (\A s \in Sk : s.executed = 0) => \A s \in Sn : s.executed = 0
  /\ ExecutedAt(l, n, held.by) = ExecutedAt(l, k, held.by) =>
       \A x : (\A s \in Sk : s.executed = x) => \A s \in Sn : s.executed = x

LEMMA ScheduleBack ==
  ASSUME NEW l, IsLedger(l),
         NEW n \in 0..Len(l), NEW k \in n..Len(l),
         NEW p \in 1..n, l[p].type = "message", l[p].anchor.kind = "retainer_scheduled",
         NEW held, l[p].anchor.by = held.by, NEW payer,
         NEW Sn, Sn = ReadSchedule(l, n, held.by),
         NEW Sk, Sk = ReadSchedule(l, k, held.by),
         Authorised(held, Sk, payer)
  PROVE  StoodBefore(l, n, k, held, Sn, Sk, payer)
<1>0. n \in Nat /\ k \in Nat /\ n <= k /\ k \in 0..Len(l)
  BY DEF IsLedger
<1>1. Sk # {}
  BY DEF Authorised
<1>2. PICK j \in 1..n : /\ Sn = {ScheduleRead(l, n, held.by, j)}
                        /\ Sk = {ScheduleRead(l, k, held.by, j)}
  <2>1. ReadSchedule(l, k, held.by) # {}
    BY <1>1
  <2>2. \E i \in 1..n : /\ Sn = TheSchedule(l, n, held.by, i)
                        /\ Sk = TheSchedule(l, k, held.by, i)
    BY <2>1, ScheduleBefore
  <2>3. QED
    BY <2>2, Zenon DEF TheSchedule
<1>3. Authorised(held, Sn, payer)
  <2>1. PICK s \in Sk : s.id = held.by /\ ~ s.deleted /\ s.creator = payer
    BY DEF Authorised
  <2>2. ~ Deleted(l, k, held.by) /\ l[j].creator = payer
    BY <1>2, <2>1 DEF ScheduleRead
  <2>3. ~ Deleted(l, n, held.by)
    BY <1>0, <2>2, ExecutionsStay
  <2>4. ScheduleRead(l, n, held.by, j) \in Sn
    BY <1>2
  <2>5. QED
    BY <2>2, <2>3, <2>4 DEF Authorised, ScheduleRead
<1>4. ASSUME \A s \in Sk : s.executed = 0 PROVE \A s \in Sn : s.executed = 0
  <2>1. ExecutedAt(l, k, held.by) = 0
    <3>1. ScheduleRead(l, k, held.by, j).executed = 0
      BY <1>2, <1>4
    <3>2. QED
      BY <3>1 DEF ScheduleRead
  <2>2. ASSUME ExecutionsOf(l, n, held.by) # {} PROVE FALSE
    <3>1. ExecutionsOf(l, n, held.by) \subseteq ExecutionsOf(l, k, held.by)
      BY <1>0, ExecutionsStay
    <3>2. PICK x \in ExecutionsOf(l, k, held.by) : TRUE
      BY <2>2, <3>1
    <3>3. ExecutedAt(l, k, held.by) = x
      BY <1>0, <3>2, ExecutionIsOne
    <3>4. x \in Nat \ {0}
      BY <1>0, <3>2, ExecutionsStay
    <3>5. QED
      BY <2>1, <3>3, <3>4
  <2>3. ExecutedAt(l, n, held.by) = 0
    BY <2>2 DEF ExecutedAt
  <2>4. QED
    BY <1>2, <2>3 DEF ScheduleRead
<1>5. ASSUME ExecutedAt(l, n, held.by) = ExecutedAt(l, k, held.by)
      PROVE  \A x : (\A s \in Sk : s.executed = x) => \A s \in Sn : s.executed = x
  <2>1. ScheduleRead(l, n, held.by, j).executed = ScheduleRead(l, k, held.by, j).executed
    BY <1>5 DEF ScheduleRead
  <2>2. QED
    BY <1>2, <2>1
<1>6. QED
  BY <1>3, <1>4, <1>5 DEF StoodBefore

(* So is the execution that an anchor of the release names.                *)
LEMMA ExecutionBefore ==
  ASSUME NEW l, IsLedger(l),
         NEW n \in 0..Len(l), NEW k \in n..Len(l), NEW h \in n..Len(l),
         NEW p \in 1..n, l[p].type = "message", l[p].anchor.kind = "retainer_released",
         NEW s, l[p].anchor.by = s, ExecutionsOf(l, h, s) # {}
  PROVE  /\ ExecutionsOf(l, h, s) = ExecutionsOf(l, n, s)
         /\ ExecutedAt(l, n, s) = ExecutedAt(l, k, s)
<1>1. DOMAIN l = 1..Len(l) /\ Len(l) \in Nat /\ n \in Nat
      /\ k \in Nat /\ n <= k /\ k <= Len(l) /\ h \in Nat /\ n <= h /\ h <= Len(l)
  BY DEF IsLedger
<1>2. PICK i \in 1..h : l[i].type = "transfer" /\ l[i].id = s /\ l[i].scheduled
  BY DEF ExecutionsOf, RecordsOf
<1>3. i \in DOMAIN l /\ p \in DOMAIN l
  BY <1>1
<1>4. Vouches(l[p].anchor, l[i])
  BY <1>2 DEF Vouches, Executes
<1>5. PICK x \in 1..(p - 1) : Vouches(l[p].anchor, l[x])
  BY <1>3, <1>4 DEF IsLedger, AnchoredAfterwards
<1>6. x \in ExecutionsOf(l, n, s)
  BY <1>1, <1>5 DEF Vouches, Executes, ExecutionsOf, RecordsOf
<1>7. x \in ExecutionsOf(l, k, s) /\ x \in ExecutionsOf(l, h, s)
  BY <1>1, <1>6, ExecutionsStay
<1>8. k \in 0..Len(l) /\ h \in 0..Len(l)
  BY <1>1
<1>9. ExecutionsOf(l, n, s) = {x} /\ ExecutedAt(l, n, s) = x
  BY <1>6, ExecutionIsOne
<1>10. ExecutionsOf(l, h, s) = {x}
  BY <1>7, <1>8, ExecutionIsOne
<1>11. ExecutedAt(l, k, s) = x
  BY <1>7, <1>8, ExecutionIsOne
<1>12. QED
  BY <1>9, <1>10, <1>11

(* What is looked up for check 7.                                          *)
ScheduleOf(l, E, m, n) ==
  UNION {ReadSchedule(l, n, s) : s \in RetainerLookups(E, m).schedule}
ReleaseOf(l, E, m, n) ==
  UNION {ReadScheduledTransaction(l, n, s) : s \in RetainerLookups(E, m).release}

LEMMA LookedUp ==
  ASSUME NEW l, NEW E, NEW m, NEW n
  PROVE  /\ Held(E, m) =>
              ScheduleOf(l, E, m, n) = ReadSchedule(l, n, FirstOf(E, m, "retainer_scheduled").by)
         /\ PaidOut(E, m) =>
              ReleaseOf(l, E, m, n) =
                At(l, ExecutionsOf(l, n, FirstOf(E, m, "retainer_released").by))
<1>1. ASSUME Held(E, m)
      PROVE  RetainerLookups(E, m).schedule = {FirstOf(E, m, "retainer_scheduled").by}
  BY <1>1 DEF RetainerLookups
<1>2. ASSUME PaidOut(E, m)
      PROVE  RetainerLookups(E, m).release = {FirstOf(E, m, "retainer_released").by}
  BY <1>2 DEF RetainerLookups
<1>3. \A s : ReadScheduledTransaction(l, n, s) = At(l, ExecutionsOf(l, n, s))
  BY DEF ReadScheduledTransaction, ExecutionsOf
<1>4. QED
  BY <1>1, <1>2, <1>3 DEF ScheduleOf, ReleaseOf

(* A retainer that checks out as it was read, after the log, checked out   *)
(* when the log was read.                                                  *)
LEMMA RetainerBack ==
  ASSUME NEW l, IsLedger(l),
         NEW n \in 0..Len(l), NEW k \in n..Len(l), NEW h \in n..Len(l),
         NEW t, NEW m, NEW payer, NEW payee,
         NEW E, E = ToAnchorEntries(l, AnchorsAmong(l, MessagesOf(l, n, t, 0))),
         NEW Sk, Sk = ScheduleOf(l, E, m, k), NEW Sn, Sn = ScheduleOf(l, E, m, n),
         NEW Rh, Rh = ReleaseOf(l, E, m, h), NEW Rn, Rn = ReleaseOf(l, E, m, n),
         CheckRetainer(E, m, Sk, Rh, payer, payee) # "fail"
  PROVE  CheckRetainer(E, m, Sn, Rn, payer, payee) # "fail"
<1> DEFINE held == FirstOf(E, m, "retainer_scheduled")
           paid == FirstOf(E, m, "retainer_released")
<1>0. n \in Nat /\ k \in Nat /\ n <= k
  OBVIOUS
<1>1. CASE ~ Held(E, m) /\ ~ PaidOut(E, m)
  BY <1>1 DEF CheckRetainer
<1>2. CASE ~ (~ Held(E, m) /\ ~ PaidOut(E, m))
  <2>1. /\ Held(E, m)
        /\ Authorised(held, Sk, payer)
        /\ PaidOut(E, m) => ReleaseStands(E, m, Sk, Rh, payer, payee)
        /\ ~ PaidOut(E, m) => \A s \in Sk : s.executed = 0
    BY <1>2, Zenon DEF CheckRetainer
  <2> HIDE DEF held, paid
  <2>2. PICK p \in 1..n : /\ held = AnchorEntry(l, p)
                          /\ l[p].type = "message" /\ l[p].anchor.kind = "retainer_scheduled"
    BY <1>0, <2>1, FirstEntry DEF Held, HasAnchor, held
  <2>3. l[p].anchor.by = held.by
    BY <2>2 DEF AnchorEntry
  <2>4. Sk = ReadSchedule(l, k, held.by) /\ Sn = ReadSchedule(l, n, held.by)
    BY <2>1, LookedUp DEF held
  <2>5. /\ Authorised(held, Sn, payer)
        /\ (\A s \in Sk : s.executed = 0) => \A s \in Sn : s.executed = 0
        /\ ExecutedAt(l, n, held.by) = ExecutedAt(l, k, held.by) =>
             \A x : (\A s \in Sk : s.executed = x) => \A s \in Sn : s.executed = x
    <3>1. l[p].type = "message" /\ l[p].anchor.kind = "retainer_scheduled"
      BY <2>2
    <3>2. StoodBefore(l, n, k, held, Sn, Sk, payer)
      BY <2>1, <2>3, <2>4, <3>1, ScheduleBack
    <3>3. QED
      BY <3>2 DEF StoodBefore
  <2>6. ASSUME PaidOut(E, m) PROVE ReleaseStands(E, m, Sn, Rn, payer, payee)
    <3>1. ReleaseStands(E, m, Sk, Rh, payer, payee)
      BY <2>1, <2>6
    <3>2. paid.by = held.by /\ ReleasedAmount(Rh, payer, payee)
      BY <3>1, Zenon DEF ReleaseStands, held, paid
    <3>3. PICK q \in 1..n : /\ paid = AnchorEntry(l, q)
                            /\ l[q].type = "message" /\ l[q].anchor.kind = "retainer_released"
      BY <1>0, <2>6, FirstEntry DEF PaidOut, HasAnchor, paid
    <3>4. l[q].anchor.by = held.by
      BY <3>2, <3>3 DEF AnchorEntry
    <3>5. /\ Rh = At(l, ExecutionsOf(l, h, held.by))
          /\ Rn = At(l, ExecutionsOf(l, n, held.by))
      BY <2>6, <3>2, LookedUp DEF paid
    <3>6. ExecutionsOf(l, h, held.by) # {}
      BY <3>2, <3>5 DEF ReleasedAmount, At
    <3>7. /\ ExecutionsOf(l, h, held.by) = ExecutionsOf(l, n, held.by)
          /\ ExecutedAt(l, n, held.by) = ExecutedAt(l, k, held.by)
      BY <3>3, <3>4, <3>6, ExecutionBefore
    <3>8. Rn = Rh
      BY <3>5, <3>7
    <3>9. \A x : (\A s \in Sk : s.executed = x) => \A s \in Sn : s.executed = x
      BY <2>5, <3>7
    <3>10. QED
      BY <3>1, <3>8, <3>9 DEF ReleaseStands
  <2>7. QED
    BY <2>1, <2>5, <2>6 DEF CheckRetainer, held
<1>3. QED
  BY <1>1, <1>2

(* Without a schedule the release makes no difference.                     *)
LEMMA Scheduleless ==
  ASSUME NEW E, NEW m, NEW a, NEW b, NEW payer, NEW payee
  PROVE  CheckRetainer(E, m, {}, a, payer, payee) = CheckRetainer(E, m, {}, b, payer, payee)
<1>1. \A s : ~ Authorised(s, {}, payer)
  BY DEF Authorised
<1>2. QED
  BY <1>1 DEF CheckRetainer

-----------------------------------------------------------------------------
(* The verdict.                                                            *)

(* The checks that the log and the documents decide.                       *)
RestPasses(q, E) ==
  /\ CheckReceiptSignature(q.receipt) # "fail"
  /\ CheckAgentIdentity(q.receipt, q.mandate) # "fail"
  /\ MandateLinkage(E, Data(q)) /\ MandateFileAgrees(Data(q), q.mandate)
  /\ AnchorSequence(E, Data(q))
  /\ ReceiptAnchored(E, q.receipt)

LEMMA PassedIs ==
  ASSUME NEW q, NEW E, NEW tx, NEW S, NEW R, NEW rc, rc = Data(q)
  PROVE  Passed(RunChecks(q, E, tx, S, R)) <=>
           /\ RestPasses(q, E)
           /\ PaymentsOnLedger(E, SettledLegs(tx, rc), rc)
           /\ CheckRetainer(E, rc.order, S, R, PayerOf(rc), Payee) # "fail"
<1> DEFINE c1 == CheckReceiptSignature(q.receipt)
           c2 == CheckAgentIdentity(q.receipt, q.mandate)
           p3 == MandateLinkage(E, rc) /\ MandateFileAgrees(rc, q.mandate)
           p4 == AnchorSequence(E, rc)
           p5 == PaymentsOnLedger(E, SettledLegs(tx, rc), rc)
           p6 == ReceiptAnchored(E, q.receipt)
           c7 == CheckRetainer(E, rc.order, S, R, PayerOf(rc), Payee)
<1>1. RunChecks(q, E, tx, S, R) = <<c1, c2, Result(p3), Result(p4), Result(p5), Result(p6), c7>>
  BY DEF RunChecks
<1>2. RestPasses(q, E) <=> c1 # "fail" /\ c2 # "fail" /\ p3 /\ p4 /\ p6
  BY DEF RestPasses
<1> HIDE DEF c1, c2, p3, p4, p5, p6, c7
<1> DEFINE checks == <<c1, c2, Result(p3), Result(p4), Result(p5), Result(p6), c7>>
<1>3. /\ DOMAIN checks = 1..7
      /\ checks[1] = c1 /\ checks[2] = c2 /\ checks[3] = Result(p3) /\ checks[4] = Result(p4)
      /\ checks[5] = Result(p5) /\ checks[6] = Result(p6) /\ checks[7] = c7
  OBVIOUS
<1>4. /\ Result(p3) # "fail" <=> p3
      /\ Result(p4) # "fail" <=> p4
      /\ Result(p5) # "fail" <=> p5
      /\ Result(p6) # "fail" <=> p6
  BY DEF Result
<1> HIDE DEF checks
<1>5. Passed(checks) <=> \A i \in 1..7 : checks[i] # "fail"
  BY <1>3 DEF Passed
<1>6. \A i : i \in 1..7 <=> i = 1 \/ i = 2 \/ i = 3 \/ i = 4 \/ i = 5 \/ i = 6 \/ i = 7
  OBVIOUS
<1>7. Passed(checks) <=> /\ c1 # "fail" /\ c2 # "fail" /\ Result(p3) # "fail"
                         /\ Result(p4) # "fail" /\ Result(p5) # "fail" /\ Result(p6) # "fail"
                         /\ c7 # "fail"
  BY <1>3, <1>5, <1>6
<1>8. Passed(RunChecks(q, E, tx, S, R)) <=> Passed(checks)
  BY <1>1 DEF checks
<1>9. QED
  BY <1>2, <1>4, <1>7, <1>8 DEF p5, c7

PaymentKinds == {"payment_intake", "payment_balance"}

(* A payment that an anchor names was on the ledger before the anchor, and *)
(* each later reader finds the same transfer.                              *)
LEMMA PaidBefore ==
  ASSUME NEW l, IsLedger(l),
         NEW n \in 0..Len(l), NEW k \in n..Len(l),
         NEW p \in 1..n, l[p].type = "message",
         l[p].anchor.kind \in PaymentKinds,
         NEW leg, l[p].anchor.by = leg,
         Successes(l, k, leg) # {}
  PROVE  Successes(l, n, leg) # {}
<1>1. DOMAIN l = 1..Len(l) /\ Len(l) \in Nat /\ n \in Nat /\ k \in Nat /\ n <= k /\ k <= Len(l)
  BY DEF IsLedger
<1>2. PICK i \in 1..k : l[i].type = "transfer" /\ l[i].id = leg /\ l[i].result = "SUCCESS"
  BY DEF Successes, RecordsOf
<1>3. i \in DOMAIN l /\ p \in DOMAIN l
  BY <1>1
<1>4. Vouches(l[p].anchor, l[i])
  BY <1>2 DEF Vouches, PaymentKinds
<1>5. PICK x \in 1..(p - 1) : Vouches(l[p].anchor, l[x])
  BY <1>3, <1>4 DEF IsLedger, AnchoredAfterwards
<1>6. x \in 1..n
  BY <1>1
<1>7. QED
  BY <1>5, <1>6 DEF Vouches, Successes, RecordsOf, PaymentKinds

(* The payments as they were read, each after the log, are judged like     *)
(* those that were on the ledger when the log was read.                    *)
LEMMA LegBack ==
  ASSUME NEW l, IsLedger(l), NEW n \in 0..Len(l), NEW t, NEW rc,
         NEW E, E = ToAnchorEntries(l, AnchorsAmong(l, MessagesOf(l, n, t, 0))),
         NEW leg, NEW kind \in PaymentKinds,
         NEW k \in n..Len(l),
         NEW tk, NEW tn, leg \in DOMAIN tk, leg \in DOMAIN tn,
         tk[leg] = ReadTransaction(l, k, leg), tn[leg] = ReadTransaction(l, n, leg)
  PROVE  LegOnLedger(E, SettledLegs(tk, rc), rc, leg, kind) <=>
           LegOnLedger(E, SettledLegs(tn, rc), rc, leg, kind)
<1>0. n \in Nat /\ k \in Nat /\ n <= k
  BY DEF IsLedger
<1> DEFINE Moved(tx) == \E x \in tx : x.result = "SUCCESS" /\ x.payer = PayerOf(rc) /\ x.payee = Payee
<1>1. /\ leg \in SettledLegs(tk, rc) <=> Moved(tk[leg])
      /\ leg \in SettledLegs(tn, rc) <=> Moved(tn[leg])
  BY DEF SettledLegs
<1>2. ASSUME Successes(l, n, leg) # {} PROVE tk[leg] = tn[leg]
  BY <1>0, <1>2, SuccessStays
<1>3. ASSUME Moved(tn[leg]) PROVE Successes(l, n, leg) # {}
  BY <1>3, SuccessIsThere
<1>4. ASSUME Moved(tk[leg]), PositionsOf(E, rc.order, kind) # {}, FirstOf(E, rc.order, kind).by = leg
      PROVE  Successes(l, n, leg) # {}
  <2>1. Successes(l, k, leg) # {}
    BY <1>4, SuccessIsThere
  <2>2. PICK p \in 1..n : /\ FirstOf(E, rc.order, kind) = AnchorEntry(l, p)
                          /\ l[p].type = "message" /\ l[p].anchor.kind = kind
    BY <1>0, <1>4, FirstEntry
  <2>3. l[p].anchor.by = leg
    BY <1>4, <2>2 DEF AnchorEntry
  <2>4. QED
    BY <2>1, <2>2, <2>3, PaidBefore
<1> HIDE DEF Moved
<1>5. QED
  BY <1>1, <1>2, <1>3, <1>4 DEF LegOnLedger

(* One read after another, once the log was read when it had n entries:    *)
(* what passes would have passed then, and what fails would have failed,   *)
(* unless there is a retainer and the record grew.                         *)
LEMMA Judgement ==
  ASSUME IsLedger(ledger), indexed \in 0..Len(ledger),
         NEW r, r.pc = "judge", NEW q, q = r.q,
         NEW n \in 0..indexed, r.anchors = AnchorsAt(n, q),
         DOMAIN r.tx = LegsOf(q), ReadsSound(r, n),
         NEW read, read = RunChecks(q, Entries(r), r.tx, r.schedule, r.release)
  PROVE  /\ Passed(read) => Passed(ChecksAt(n, q))
         /\ ~ Passed(read) /\ (HasRetainer => n = indexed) => ~ Passed(ChecksAt(n, q))
<1>1. PICK E : E = ToAnchorEntries(ledger, AnchorsAmong(ledger, MessagesOf(ledger, n, TopicOf(q), 0)))
  OBVIOUS
<1>2. PICK rc : rc = Data(q)
  OBVIOUS
<1>3. PICK tn : tn = [leg \in LegsOf(q) |-> ReadTransaction(ledger, n, leg)]
  OBVIOUS
<1> DEFINE ScheduleAt(i) == ScheduleOf(ledger, E, rc.order, i)
           ReleaseAt(i) == ReleaseOf(ledger, E, rc.order, i)
           Retained(S, R) == CheckRetainer(E, rc.order, S, R, PayerOf(rc), Payee) # "fail"
           Paid(tx) == PaymentsOnLedger(E, SettledLegs(tx, rc), rc)
<1>4. Entries(r) = E /\ ToAnchorEntries(ledger, AnchorsAt(n, q)) = E
  BY <1>1 DEF Entries, AnchorsAt, MessagesAt
<1>5. ChecksAt(n, q) = RunChecks(q, E, tn, ScheduleAt(n), ReleaseAt(n))
  BY <1>2, <1>3, <1>4 DEF ChecksAt, LookupsAt, ScheduleOf, ReleaseOf
<1>6. /\ indexed \in Nat /\ n \in Nat /\ n <= indexed /\ n \in 0..Len(ledger)
      /\ \A k \in n..indexed : k \in n..Len(ledger)
  BY DEF IsLedger
<1>7. /\ \A leg \in LegsOf(q) : \E k \in n..indexed : r.tx[leg] = ReadTransaction(ledger, k, leg)
      /\ \E k \in n..indexed : r.schedule = ScheduleAt(k)
      /\ \E k \in n..indexed : r.release = ReleaseAt(k)
  BY <1>2, <1>4 DEF ReadsSound, ScheduleOf, ReleaseOf
<1>8. PICK k \in n..indexed : r.schedule = ScheduleAt(k)
  BY <1>7
<1>9. PICK h \in n..indexed : r.release = ReleaseAt(h)
  BY <1>7
<1> DEFINE passes == RestPasses(q, E)
<1>10. /\ Passed(read) <=> passes /\ Paid(r.tx) /\ Retained(r.schedule, r.release)
       /\ Passed(ChecksAt(n, q)) <=> passes /\ Paid(tn) /\ Retained(ScheduleAt(n), ReleaseAt(n))
  BY <1>2, <1>4, <1>5, PassedIs
<1>11. Paid(r.tx) <=> Paid(tn)
  <2>0. PICK tk : tk = r.tx
    OBVIOUS
  <2>1. ASSUME NEW leg \in LegsOf(q), NEW kind \in PaymentKinds
        PROVE  LegOnLedger(E, SettledLegs(tk, rc), rc, leg, kind) <=>
                 LegOnLedger(E, SettledLegs(tn, rc), rc, leg, kind)
    <3>1. PICK i \in n..indexed : tk[leg] = ReadTransaction(ledger, i, leg)
      BY <1>7, <2>0
    <3>2. leg \in DOMAIN tn /\ tn[leg] = ReadTransaction(ledger, n, leg) /\ leg \in DOMAIN tk
      BY <1>3, <2>0
    <3>3. i \in n..Len(ledger) /\ n \in 0..Len(ledger)
      BY <1>6
    <3>4. QED
      BY <1>1, <3>1, <3>2, <3>3, LegBack
  <2>2. rc.intake \in LegsOf(q) /\ rc.balance \in LegsOf(q)
    BY <1>2 DEF LegsOf
  <2>3. QED
    BY <2>0, <2>1, <2>2 DEF PaymentsOnLedger, PaymentKinds
<1>12. Retained(r.schedule, r.release) => Retained(ScheduleAt(n), ReleaseAt(n))
  <2>1. k \in n..Len(ledger) /\ h \in n..Len(ledger) /\ n \in 0..Len(ledger)
    BY <1>6
  <2>2. QED
    BY <1>1, <1>8, <1>9, <2>1, RetainerBack
<1>13. ASSUME HasRetainer => n = indexed
       PROVE  Retained(ScheduleAt(n), ReleaseAt(n)) => Retained(r.schedule, r.release)
  <2>1. CASE HasRetainer
    <3>1. n = indexed /\ k = n /\ h = n
      BY <1>6, <1>13, <2>1
    <3>2. QED
      BY <1>8, <1>9, <3>1, Zenon
  <2>2. CASE ~ HasRetainer
    <3>1. ASSUME NEW i \in n..Len(ledger) PROVE ScheduleAt(i) = {}
      <4>1. \A j \in 1..i : j \in DOMAIN ledger
        BY <1>6 DEF IsLedger
      <4>2. \A s : ReadSchedule(ledger, i, s) = {}
        BY <2>2, <4>1 DEF ReadSchedule, HasRetainer
      <4>3. QED
        BY <4>2 DEF ScheduleOf
    <3>2. ScheduleAt(n) = {} /\ r.schedule = {}
      BY <1>6, <1>8, <3>1
    <3> HIDE DEF ScheduleAt, ReleaseAt
    <3>3. QED
      BY <3>2, Scheduleless
  <2>3. QED
    BY <2>1, <2>2, Zenon
<1> HIDE DEF Paid, Retained, passes, ScheduleAt, ReleaseAt
<1>14. QED
  BY <1>10, <1>11, <1>12, <1>13

-----------------------------------------------------------------------------
(* What grows with the record.                                             *)

LEMMA TopicStays ==
  ASSUME NEW l, NEW n \in Nat, NEW k \in Nat, n <= k, NEW t, TopicExists(l, n, t)
  PROVE  TopicExists(l, k, t)
BY DEF TopicExists

(* A topic with messages exists.                                           *)
LEMMA TopicThere ==
  ASSUME NEW l, IsLedger(l), NEW n \in 0..Len(l), NEW t, NEW a, MessagesOf(l, n, t, a) # {}
  PROVE  TopicExists(l, n, t)
<1>1. PICK i \in 1..n : l[i].type = "message" /\ l[i].topic = t
  BY DEF MessagesOf
<1>2. i \in DOMAIN l
  BY DEF IsLedger
<1>3. PICK k \in 1..(i - 1) : l[k].type = "topic" /\ l[k].topic = t
  BY <1>1, <1>2 DEF IsLedger, NetworkOrdered
<1>4. k \in 1..n
  OBVIOUS
<1>5. QED
  BY <1>3, <1>4 DEF TopicExists

(* A log that was empty, of a topic that exists by now, was the empty log  *)
(* of that topic at some time in between.                                  *)
LEMMA EmptyTopic ==
  ASSUME NEW l, IsLedger(l), NEW n \in 0..Len(l), NEW k \in n..Len(l), NEW t, NEW a,
         TopicExists(l, k, t), ~ TopicExists(l, n, t)
  PROVE  \E i \in n..k : TopicExists(l, i, t) /\ MessagesOf(l, i, t, a) = {}
<1> DEFINE C == {i \in 1..k : l[i].type = "topic" /\ l[i].topic = t}
<1>1. C # {} /\ C \subseteq Nat
  BY DEF TopicExists
<1>2. PICK i \in C : \A j \in C : i <= j
  BY <1>1, LeastPosition
<1>3. n \in Nat /\ k \in Nat /\ Len(l) \in Nat /\ n <= k /\ k <= Len(l) /\ DOMAIN l = 1..Len(l)
  BY DEF IsLedger
<1>4. i > n
  BY <1>2, <1>3 DEF TopicExists
<1>5. TopicExists(l, i, t)
  BY <1>2 DEF TopicExists
<1>6. ASSUME NEW m \in MessagesOf(l, i, t, a) PROVE FALSE
  <2>1. m \in 1..i /\ l[m].type = "message" /\ l[m].topic = t
    BY DEF MessagesOf
  <2>2. m \in DOMAIN l
    BY <1>2, <1>3, <2>1
  <2>3. PICK j \in 1..(m - 1) : l[j].type = "topic" /\ l[j].topic = t
    BY <2>1, <2>2 DEF IsLedger, NetworkOrdered
  <2>4. j \in 1..k /\ j < i
    BY <1>2, <1>3, <2>1
  <2>5. j \in C
    BY <2>3, <2>4
  <2>6. QED
    BY <1>2, <1>3, <2>4, <2>5
<1>7. i \in n..k
  BY <1>2, <1>3, <1>4
<1>8. QED
  BY <1>5, <1>6, <1>7

(* What the demo waits for stays there.                                    *)
Enough(n, q) == Cardinality(AnchorsFor(AnchorsAt(n, q), Data(q).order)) >= ExpectedAnchors

LEMMA EnoughStays ==
  ASSUME NEW q, NEW n \in Nat, NEW k \in Nat, n <= k, Enough(n, q)
  PROVE  Enough(k, q)
<1> DEFINE Mine(i) == AnchorsFor(AnchorsAt(i, q), Data(q).order)
<1>1. /\ MessagesAt(n, q) \subseteq MessagesAt(k, q)
      /\ IsFiniteSet(MessagesAt(n, q)) /\ IsFiniteSet(MessagesAt(k, q))
  BY MessagesStay, MessagesFinite DEF MessagesAt
<1>2. Mine(n) \subseteq Mine(k) /\ Mine(k) \subseteq MessagesAt(k, q) /\ Mine(n) \subseteq MessagesAt(n, q)
  BY <1>1 DEF AnchorsFor, AnchorsAt, AnchorsAmong
<1> HIDE DEF Mine
<1>3. IsFiniteSet(Mine(k)) /\ IsFiniteSet(Mine(n))
  BY <1>1, <1>2, FS_Subset
<1>4. /\ Cardinality(Mine(n)) <= Cardinality(Mine(k))
      /\ Cardinality(Mine(n)) \in Nat /\ Cardinality(Mine(k)) \in Nat
  BY <1>2, <1>3, FS_Subset, FS_CardinalityType
<1>5. Cardinality(Mine(n)) >= ExpectedAnchors
  BY DEF Enough, Mine
<1>6. Cardinality(Mine(k)) >= ExpectedAnchors
  BY <1>4, <1>5, BoundsAssumption
<1>7. QED
  BY <1>6 DEF Enough, Mine

LEMMA CompleteStays ==
  ASSUME NEW q, NEW n \in Nat, NEW k \in Nat, n <= k, Complete(n, q)
  PROVE  Complete(k, q)
<1>1. Enough(k, q)
  BY EnoughStays DEF Complete, Enough
<1>2. \A leg \in LegsOf(q) : ReadTransaction(ledger, k, leg) # {}
  BY TransferStays DEF Complete
<1>3. QED
  BY <1>1, <1>2 DEF Complete, Enough

(* The ledger is given: what is said of a part of it stays so.             *)
LEMMA SameLedger ==
  ASSUME ledger' = ledger
  PROVE  /\ HasRetainer' = HasRetainer
         /\ \A n, q : /\ LogAt(n, q)' = LogAt(n, q)
                      /\ Snapshot(n, q)' = Snapshot(n, q)
                      /\ Complete(n, q)' = Complete(n, q)
                      /\ WasSealed(n, q)' = WasSealed(n, q)
         /\ \A r, n : LogRead(r, n)' = LogRead(r, n)
         /\ \A r : Entries(r)' = Entries(r)
         /\ \A a : /\ OfOneRecord(a)' = OfOneRecord(a)
                   /\ Waited(a)' = Waited(a)
                   /\ WholeLog(a)' = WholeLog(a)
<1>1. HasRetainer' = HasRetainer
  BY DEF HasRetainer
<1>2. \A n, q : LogAt(n, q)' = LogAt(n, q)
  BY DEF LogAt
<1>3. \A n, q : AnchorsAt(n, q)' = AnchorsAt(n, q) /\ MessagesAt(n, q)' = MessagesAt(n, q)
  BY DEF AnchorsAt, MessagesAt
<1>4. \A n, q : Snapshot(n, q)' = Snapshot(n, q)
  BY <1>3 DEF Snapshot, Readable, ChecksAt, LookupsAt
<1>5. \A n, q : Complete(n, q)' = Complete(n, q)
  BY <1>3 DEF Complete, AnchorsFor
<1>6. \A n, q : WasSealed(n, q)' = WasSealed(n, q)
  BY <1>3 DEF WasSealed, SealedAt
<1>7. \A r, n : LogRead(r, n)' = LogRead(r, n)
  BY <1>2 DEF LogRead
<1>8. \A r : Entries(r)' = Entries(r)
  BY DEF Entries
<1>9. \A a : OfOneRecord(a)' = OfOneRecord(a)
  BY <1>1, <1>4 DEF OfOneRecord, Seen
<1>10. \A a : Waited(a)' = Waited(a)
  BY <1>5 DEF Waited
<1>11. \A a : WholeLog(a)' = WholeLog(a)
  BY DEF WholeLog
<1>12. QED
  BY <1>1, <1>2, <1>4, <1>5, <1>6, <1>7, <1>8, <1>9, <1>10, <1>11

(* A reader knows what it knew when the record has grown.                  *)
LEMMA ReaderStays ==
  ASSUME ledger' = ledger, indexed \in Nat, indexed' \in Nat, indexed <= indexed',
         NEW r, ReaderForm(r), Sound(r)
  PROVE  ReaderForm(r)' /\ Sound(r)'
<1>0. \A n \in Nat : \A k \in n..indexed : k \in n..indexed'
  OBVIOUS
<1>1. ReaderForm(r)'
  BY DEF ReaderForm
<1>2. r.since \in Nat /\ r.since <= indexed
  BY DEF ReaderForm
<1>3. PagesSound(r)'
  BY <1>1, SameLedger DEF Sound, PagesSound, ReaderForm
<1>4. LogSound(r)'
  <2>1. SUFFICES ASSUME r.pc \in {"topic", "confirm"} PROVE LogSound(r)'
    BY DEF LogSound
  <2>2. r.anchors = {} /\ \E n \in r.since..indexed : LogRead(r, n)
    BY <2>1 DEF Sound, LogSound
  <2>3. PICK n \in r.since..indexed : LogRead(r, n)
    BY <2>2
  <2>4. n \in r.since..indexed'
    BY <1>0, <1>2
  <2>5. LogRead(r, n)'
    BY <2>3, SameLedger
  <2>6. QED
    BY <2>2, <2>4, <2>5 DEF LogSound
<1>5. OrderSound(r)'
  <2>2. DOMAIN r.tx = LegsRead(r)
    BY DEF Sound, OrderSound
  <2>1. SUFFICES ASSUME r.pc \in OfTheOrder PROVE OrderSound(r)'
    BY <2>2 DEF OrderSound
  <2>3. PICK n \in r.since..indexed : /\ LogRead(r, n)
                                      /\ TopicExists(ledger, n, TopicOf(r.q))
                                      /\ ReadsSound(r, n)
    BY <2>1 DEF Sound, OrderSound
  <2>4. n \in r.since..indexed' /\ n \in Nat
    BY <1>0, <1>2
  <2>5. LogRead(r, n)'
    BY <2>3, SameLedger
  <2>6. \A k \in n..indexed : k \in n..indexed'
    BY <1>0, <2>4
  <2>7. Entries(r)' = Entries(r)
    BY SameLedger
  <2>8. ReadsSound(r, n)'
    <3>1. ASSUME NEW leg \in DOMAIN r.tx
          PROVE  \E k \in n..indexed' : r.tx[leg] = ReadTransaction(ledger, k, leg)
      BY <2>3, <2>6 DEF ReadsSound
    <3> DEFINE lookups == RetainerLookups(Entries(r), Data(r.q).order)
               ScheduleAt(k) == UNION {ReadSchedule(ledger, k, s) : s \in lookups.schedule}
               ReleaseAt(k) == UNION {ReadScheduledTransaction(ledger, k, s) : s \in lookups.release}
    <3>2. ASSUME r.pc \in {"release", "judge"}
          PROVE  \E k \in n..indexed' : r.schedule = ScheduleAt(k)
      <4>1. \E k \in n..indexed : r.schedule = ScheduleAt(k)
        BY <2>3, <3>2, Zenon DEF ReadsSound
      <4> HIDE DEF ScheduleAt
      <4>2. QED
        BY <2>6, <4>1
    <3>3. ASSUME r.pc = "judge"
          PROVE  \E k \in n..indexed' : r.release = ReleaseAt(k)
      <4>1. \E k \in n..indexed : r.release = ReleaseAt(k)
        BY <2>3, <3>3, Zenon DEF ReadsSound
      <4> HIDE DEF ReleaseAt
      <4>2. QED
        BY <2>6, <4>1
    <3>4. QED
      BY <2>7, <3>1, <3>2, <3>3 DEF ReadsSound
  <2>9. TopicExists(ledger, n, TopicOf(r.q))'
    BY <2>3
  <2>10. QED
    BY <2>2, <2>3, <2>4, <2>5, <2>8 DEF OrderSound
<1>6. WaitSound(r)'
  BY SameLedger DEF Sound, WaitSound
<1>7. QED
  BY <1>1, <1>3, <1>4, <1>5, <1>6 DEF Sound

LEMMA AnswerStays ==
  ASSUME ledger' = ledger, indexed \in Nat, indexed' \in Nat, indexed <= indexed',
         NEW a, AnswerForm(a)
  PROVE  AnswerForm(a)'
BY DEF AnswerForm

(* Nothing was answered or returned: all is said by the reader.            *)
LEMMA OnlyRead ==
  ASSUME IInv, ledger' = ledger, agreed' \in 0..Len(ledger), indexed' \in 0..agreed',
         indexed <= indexed', answers' = answers, returned' = returned,
         NEW r, reader' = r,
         r # Idle => /\ ReaderForm(r)' /\ Sound(r)'
                     /\ Len(answers) + Cardinality(returned) < MaxAnswers
  PROVE  IInv'
<1>1. indexed \in Nat /\ indexed' \in Nat
  BY DEF IInv, TypeOK
<1>2. TypeOK'
  <2>1. \A k \in DOMAIN answers : AnswerForm(answers[k])'
    BY <1>1, AnswerStays DEF IInv, TypeOK
  <2>2. reader' = Idle \/ ReaderForm(reader)'
    OBVIOUS
  <2>3. QED
    BY <2>1, <2>2 DEF IInv, TypeOK
<1>3. ReaderSound'
  BY DEF ReaderSound
<1>4. VerdictOfOneRecord'
  BY SameLedger DEF IInv, VerdictOfOneRecord
<1>5. OnlySealedPasses'
  BY SameLedger DEF IInv, OnlySealedPasses
<1>6. DemoWaited'
  BY SameLedger DEF IInv, DemoWaited
<1>7. ReaderReturnsWholeLog'
  BY SameLedger DEF IInv, ReaderReturnsWholeLog
<1>8. QED
  BY <1>2, <1>3, <1>4, <1>5, <1>6, <1>7 DEF IInv

(* The verification or the read goes on, or ends without an answer.        *)
LEMMA Continued ==
  ASSUME IInv, UNCHANGED <<record, answers, returned>>,
         NEW r, reader' = r,
         r # Idle => /\ ReaderForm(r) /\ Sound(r)
                     /\ Len(answers) + Cardinality(returned) < MaxAnswers
  PROVE  IInv'
<1>1. /\ ledger' = ledger /\ agreed' = agreed /\ indexed' = indexed
      /\ answers' = answers /\ returned' = returned
  BY DEF record
<1>2. agreed \in 0..Len(ledger) /\ indexed \in 0..agreed /\ indexed \in Nat /\ indexed <= indexed
  BY DEF IInv, TypeOK
<1>3. r # Idle => ReaderForm(r)' /\ Sound(r)'
  BY <1>1, <1>2, ReaderStays
<1>4. QED
  BY <1>1, <1>2, <1>3, OnlyRead

(* An answer that is worth what it must be.                                *)
AnswerOf(q, since, upTo, code) ==
  [q |-> q, since |-> since, upTo |-> upTo, code |-> code, shown |-> Shown(q.caller, code)]

LEMMA Answered ==
  ASSUME IInv, UNCHANGED <<record, returned>>,
         Len(answers) + Cardinality(returned) < MaxAnswers,
         NEW q \in Requests[ledger], NEW since \in 0..indexed, NEW code \in {Ok, Failed, Error},
         Answer(q, since, code),
         NEW a, a = AnswerOf(q, since, indexed, code),
         OfOneRecord(a), Waited(a), code = Ok => WasSealed(indexed, q)
  PROVE  IInv'
<1>1. /\ ledger' = ledger /\ agreed' = agreed /\ indexed' = indexed /\ returned' = returned
      /\ answers' = Append(answers, a) /\ reader' = Idle
  BY DEF record, Answer, AnswerOf
<1>2. indexed \in Nat /\ indexed <= indexed
  BY DEF IInv, TypeOK
<1> DEFINE Given == {answers[k] : k \in DOMAIN answers}
<1>3. /\ answers' \in Seq({answers'[k] : k \in DOMAIN answers'})
      /\ DOMAIN answers' = DOMAIN answers \cup {Len(answers) + 1}
      /\ \A k \in DOMAIN answers : answers'[k] = answers[k]
      /\ answers'[Len(answers) + 1] = a
      /\ Len(answers') = Len(answers) + 1 /\ Len(answers) \in Nat
  <2>1. answers \in Seq(Given)
    BY DEF IInv, TypeOK
  <2>2. answers \in Seq(Given \cup {a}) /\ a \in Given \cup {a}
    BY <2>1
  <2> HIDE DEF Given
  <2>3. /\ DOMAIN answers' = DOMAIN answers \cup {Len(answers) + 1}
        /\ \A k \in DOMAIN answers : answers'[k] = answers[k]
        /\ answers'[Len(answers) + 1] = a
    BY <1>1, <2>2, AppendGrows
  <2>4. answers' \in Seq(Given \cup {a}) /\ Len(answers') = Len(answers) + 1 /\ Len(answers) \in Nat
    BY <1>1, <2>2
  <2>5. answers' \in Seq({answers'[k] : k \in DOMAIN answers'})
    BY <2>4
  <2>6. QED
    BY <2>3, <2>4, <2>5
<1> HIDE DEF Given
<1>4. AnswerForm(a)
  <2>1. DOMAIN a = {"q", "since", "upTo", "code", "shown"}
    BY DEF AnswerOf
  <2>2. /\ a.q = q /\ a.since = since /\ a.upTo = indexed /\ a.code = code
        /\ a.shown = Shown(q.caller, code)
    BY DEF AnswerOf
  <2>3. QED
    BY <1>2, <2>1, <2>2 DEF AnswerForm
<1>5. TypeOK'
  <2>1. \A k \in DOMAIN answers : AnswerForm(answers[k])'
    BY <1>1, <1>2, AnswerStays DEF IInv, TypeOK
  <2>2. AnswerForm(a)'
    BY <1>1, <1>2, <1>4, AnswerStays
  <2>3. \A k \in DOMAIN answers' : AnswerForm(answers[k])'
    BY <1>3, <2>1, <2>2
  <2>4. Cardinality(returned) \in Nat /\ IsFiniteSet(returned)
    BY FS_CardinalityType DEF IInv, TypeOK
  <2>5. Len(answers') + Cardinality(returned) <= MaxAnswers
    BY <1>3, <2>4, BoundsAssumption
  <2>6. /\ ledger \in DOMAIN Requests /\ agreed \in 0..Len(ledger) /\ indexed \in 0..agreed
    BY DEF IInv, TypeOK
  <2>7. QED
    BY <1>1, <1>3, <2>3, <2>4, <2>5, <2>6 DEF TypeOK
<1>6. ReaderSound'
  BY <1>1 DEF ReaderSound
<1>7. a.code = code /\ a.upTo = indexed /\ a.q = q
  BY DEF AnswerOf
<1>8. VerdictOfOneRecord'
  BY <1>1, <1>3, SameLedger DEF IInv, VerdictOfOneRecord
<1>9. OnlySealedPasses'
  BY <1>1, <1>3, <1>7, SameLedger DEF IInv, OnlySealedPasses
<1>10. DemoWaited'
  BY <1>1, <1>3, SameLedger DEF IInv, DemoWaited
<1>11. ReaderReturnsWholeLog'
  BY <1>1, SameLedger DEF IInv, ReaderReturnsWholeLog
<1>12. QED
  BY <1>5, <1>6, <1>8, <1>9, <1>10, <1>11 DEF IInv

(* What is returned is a whole log.                                        *)
LEMMA Returned ==
  ASSUME IInv, UNCHANGED <<record, answers>>,
         Len(answers) + Cardinality(returned) < MaxAnswers,
         NEW a, WholeLog(a), returned' = returned \cup {a}, reader' = Idle
  PROVE  IInv'
<1>1. /\ ledger' = ledger /\ agreed' = agreed /\ indexed' = indexed /\ answers' = answers
  BY DEF record
<1>2. indexed \in Nat /\ indexed <= indexed
  BY DEF IInv, TypeOK
<1>3. IsFiniteSet(returned) /\ Cardinality(returned) \in Nat
  BY FS_CardinalityType DEF IInv, TypeOK
<1>4. IsFiniteSet(returned') /\ Len(answers) + Cardinality(returned') <= MaxAnswers
  <2>1. Len(answers) \in Nat
    BY DEF IInv, TypeOK
  <2>2. CASE a \in returned
    <3>1. returned' = returned
      BY <2>2
    <3>2. IsFiniteSet(returned') /\ Cardinality(returned') = Cardinality(returned)
      BY <1>3, <3>1, Zenon
    <3>3. QED
      BY <1>3, <2>1, <3>2, BoundsAssumption
  <2>3. CASE a \notin returned
    <3>1. /\ IsFiniteSet(returned \cup {a})
          /\ Cardinality(returned \cup {a}) = Cardinality(returned) + 1
      BY <1>3, <2>3, FS_AddElement
    <3>2. QED
      BY <1>3, <2>1, <3>1, BoundsAssumption
  <2>4. QED
    BY <2>2, <2>3
<1>5. TypeOK'
  <2>1. \A k \in DOMAIN answers : AnswerForm(answers[k])'
    BY <1>1, <1>2, AnswerStays DEF IInv, TypeOK
  <2>2. QED
    BY <1>1, <1>4, <2>1 DEF IInv, TypeOK
<1>6. ReaderSound'
  BY DEF ReaderSound
<1>7. VerdictOfOneRecord'
  BY <1>1, SameLedger DEF IInv, VerdictOfOneRecord
<1>8. OnlySealedPasses'
  BY <1>1, SameLedger DEF IInv, OnlySealedPasses
<1>9. DemoWaited'
  BY <1>1, SameLedger DEF IInv, DemoWaited
<1>10. ReaderReturnsWholeLog'
  BY <1>1, SameLedger DEF IInv, ReaderReturnsWholeLog
<1>11. QED
  BY <1>5, <1>6, <1>7, <1>8, <1>9, <1>10 DEF IInv

-----------------------------------------------------------------------------
(* Steps of any verification.                                              *)

LEMMA Underway ==
  ASSUME IInv
  PROVE  /\ IsLedger(ledger) /\ Len(ledger) \in Nat
         /\ indexed \in Nat /\ indexed \in 0..Len(ledger)
         /\ reader.pc # "idle" => reader # Idle
         /\ reader # Idle => /\ ReaderForm(reader) /\ Sound(reader)
                             /\ Len(answers) + Cardinality(returned) < MaxAnswers
<1>1. IsLedger(ledger)
  BY LedgersAssumption DEF IInv, TypeOK
<1>2. Len(ledger) \in Nat
  BY <1>1 DEF IsLedger
<1>3. indexed \in Nat /\ indexed \in 0..Len(ledger)
  BY <1>2 DEF IInv, TypeOK
<1>4. Idle.pc = "idle"
  BY DEF Idle
<1>5. reader # Idle => /\ ReaderForm(reader) /\ Sound(reader)
                       /\ Len(answers) + Cardinality(returned) < MaxAnswers
  BY DEF IInv, TypeOK, ReaderSound
<1>6. QED
  BY <1>1, <1>2, <1>3, <1>4, <1>5

(* How often a request was asked makes no difference.                      *)
LEMMA TriesDoNotMatter ==
  ASSUME NEW r, ReaderForm(r), Sound(r), NEW k \in 0..(Attempts - 1),
         NEW s, s = [r EXCEPT !.tries = k]
  PROVE  ReaderForm(s) /\ Sound(s)
<1>1. /\ DOMAIN s = ReaderFields /\ s.tries = k
      /\ s.pc = r.pc /\ s.q = r.q /\ s.polls = r.polls /\ s.since = r.since /\ s.pages = r.pages
      /\ s.after = r.after /\ s.anchors = r.anchors /\ s.tx = r.tx /\ s.schedule = r.schedule
      /\ s.release = r.release
  BY DEF ReaderForm, ReaderFields
<1>2. ReaderForm(s)
  BY <1>1 DEF ReaderForm
<1>3. PagesSound(s) /\ WaitSound(s)
  BY <1>1 DEF Sound, PagesSound, WaitSound
<1>4. \A n : LogRead(r, n) => LogRead(s, n)
  BY <1>1 DEF LogRead
<1>5. LogSound(s)
  BY <1>1, <1>4 DEF Sound, LogSound
<1>6. Entries(s) = Entries(r) /\ LegsRead(s) = LegsRead(r)
  BY <1>1 DEF Entries, LegsRead
<1>7. \A n : ReadsSound(r, n) => ReadsSound(s, n)
  BY <1>1, <1>6 DEF ReadsSound
<1>8. OrderSound(s)
  BY <1>1, <1>4, <1>6, <1>7 DEF Sound, OrderSound
<1>9. QED
  BY <1>2, <1>3, <1>5, <1>8 DEF Sound

LEMMA Goes ==
  ASSUME IInv, UNCHANGED <<record, returned>>,
         Len(answers) + Cardinality(returned) < MaxAnswers,
         NEW r, ReaderForm(r), Sound(r), Continue(r)
  PROVE  IInv'
<1>1. PICK s : s = [r EXCEPT !.tries = 0]
  OBVIOUS
<1>2. 0 \in 0..(Attempts - 1)
  BY BoundsAssumption
<1>3. ReaderForm(s) /\ Sound(s)
  BY <1>1, <1>2, TriesDoNotMatter
<1>4. reader' = s /\ answers' = answers
  BY <1>1 DEF Continue
<1>5. QED
  BY <1>3, <1>4, Continued

(* Who could not look says so.                                             *)
LEMMA NoVerdict ==
  ASSUME NEW q, NEW since, NEW upTo, NEW a, a = AnswerOf(q, since, upTo, Error)
  PROVE  OfOneRecord(a) /\ Waited(a)
<1>1. a.code = Error /\ a.q = q /\ a.shown = Shown(q.caller, Error)
  BY DEF AnswerOf
<1>2. Shown(q.caller, Error) = IF q.caller = "demo" THEN "fail" ELSE "unknown"
  BY DEF Shown, DemoShows, ToolShows, ServiceShows, Ok, Failed, Error
<1>3. QED
  BY <1>1, <1>2 DEF OfOneRecord, Waited

LEMMA GivenUp ==
  ASSUME IInv, UNCHANGED <<record, returned>>, reader # Idle,
         NEW r, r.q = reader.q, r.since = reader.since, GiveUp(r)
  PROVE  IInv'
<1>1. Len(answers) + Cardinality(returned) < MaxAnswers /\ ReaderForm(reader)
  BY Underway
<1>2. r.q \in Requests[ledger] /\ r.since \in 0..indexed
  BY <1>1 DEF ReaderForm
<1>3. CASE Waiting(r)
  <2>1. reader' = Idle /\ answers' = answers
    BY <1>3 DEF GiveUp
  <2>2. PICK s : s = Idle
    OBVIOUS
  <2>3. QED
    BY <2>1, <2>2, Continued
<1>4. CASE ~ Waiting(r)
  <2>1. PICK a : a = AnswerOf(r.q, r.since, indexed, Error)
    OBVIOUS
  <2>2. OfOneRecord(a) /\ Waited(a)
    BY <2>1, NoVerdict
  <2>3. Answer(r.q, r.since, Error)
    BY <1>4 DEF GiveUp
  <2>4. Error \in {Ok, Failed, Error} /\ (Error = Ok => WasSealed(indexed, r.q))
    BY DEF Error, Ok
  <2>5. QED
    BY <1>1, <1>2, <2>1, <2>2, <2>3, <2>4, Answered
<1>5. QED
  BY <1>3, <1>4

(* Nothing is on a topic after its last position that was read.            *)
LEMMA NothingAfter ==
  ASSUME NEW l, NEW n \in Nat, NEW t
  PROVE  /\ MessagesOf(l, n, t, n) = {}
         /\ AnchorsAmong(l, {}) = {}
         /\ Cardinality({}) = 0
<1>1. MessagesOf(l, n, t, n) = {}
  BY DEF MessagesOf
<1>2. AnchorsAmong(l, {}) = {}
  BY DEF AnchorsAmong
<1>3. QED
  BY <1>1, <1>2, FS_EmptySet

(* A verification starts from nothing, a read from what it is to follow.   *)
LEMMA StartsSound ==
  ASSUME NEW q \in Requests[ledger], ledger \in DOMAIN Requests, indexed \in Nat,
         NEW polls \in 0..MaxPolls, NEW since \in 0..indexed,
         NEW r, \/ r = Reading(q, polls, since) /\ q.caller # "library"
                \/ r = Following(q, polls, since) /\ q.caller = "library",
         q.caller = "demo" /\ polls = 0 => Complete(since, q)
  PROVE  ReaderForm(r) /\ Sound(r)
<1>1. /\ DOMAIN r = ReaderFields
      /\ r.q = q /\ r.polls = polls /\ r.since = since /\ r.tries = 0 /\ r.pages = 0
      /\ r.after = From(q) /\ r.anchors = {} /\ DOMAIN r.tx = {}
      /\ r.pc = IF q.caller = "library" THEN "follow" ELSE "anchors"
  <2>1. CASE r = Reading(q, polls, since) /\ q.caller # "library"
    BY <2>1 DEF Reading, ReaderFields, From
  <2>2. CASE r = Following(q, polls, since) /\ q.caller = "library"
    <3>1. PICK s : s = Reading(q, polls, since)
      OBVIOUS
    <3>2. /\ DOMAIN s = ReaderFields /\ s.q = q /\ s.polls = polls /\ s.since = since
          /\ s.tries = 0 /\ s.pages = 0 /\ s.anchors = {} /\ DOMAIN s.tx = {}
      BY <3>1 DEF Reading, ReaderFields
    <3>3. r = [s EXCEPT !.pc = "follow", !.after = q.from]
      BY <2>2, <3>1 DEF Following
    <3>4. QED
      BY <2>2, <3>2, <3>3 DEF ReaderFields, From
  <2>3. QED
    BY <2>1, <2>2
<1>2. From(q) \in Nat
  BY RequestsAssumption DEF From
<1>3. ReaderForm(r)
  BY <1>1, <1>2, BoundsAssumption, PagesAssumption DEF ReaderForm, OfTheLog, OfTheOrder
<1>4. LogAt(From(q), q) = {} /\ AnchorsAmong(ledger, {}) = {} /\ Cardinality({}) = 0
  BY <1>2, NothingAfter DEF LogAt
<1>5. PageSize \in Nat /\ 0 * PageSize = 0 /\ MaxPages > 0
  BY PagesAssumption
<1>6. PagesSound(r)
  <2>1. r.pages < MaxPages /\ r.after >= From(r.q) /\ r.after = From(r.q)
    BY <1>1, <1>2, <1>5
  <2>2. r.anchors = AnchorsAmong(ledger, LogAt(r.after, r.q))
    BY <1>1, <1>4
  <2>3. Cardinality(LogAt(r.after, r.q)) = 0 /\ r.pages * PageSize = 0
    BY <1>1, <1>4, <1>5
  <2>4. QED
    BY <2>1, <2>2, <2>3 DEF PagesSound
<1>7. LogSound(r) /\ OrderSound(r) /\ WaitSound(r)
  <2>1. LogSound(r) /\ WaitSound(r)
    BY <1>1 DEF LogSound, WaitSound
  <2>2. LegsRead(r) = {} /\ r.pc \notin OfTheOrder
    BY <1>1 DEF LegsRead, OfTheLog, OfTheOrder
  <2>3. DOMAIN r.tx = {}
    BY <1>1
  <2>4. QED
    BY <2>1, <2>2, <2>3 DEF OrderSound
<1>8. QED
  BY <1>3, <1>6, <1>7 DEF Sound

-----------------------------------------------------------------------------
(* The record grows, and is asked about.                                   *)

LEMMA RecordStep ==
  ASSUME IInv, ReachConsensus \/ Index
  PROVE  IInv'
<1>1. ledger' = ledger /\ reader' = reader /\ answers' = answers /\ returned' = returned
  BY DEF ReachConsensus, Index
<1>2. Len(ledger) \in Nat /\ agreed \in 0..Len(ledger) /\ indexed \in 0..agreed
  BY Underway DEF IInv, TypeOK
<1>3. /\ agreed' \in 0..Len(ledger) /\ indexed' \in 0..agreed' /\ indexed <= indexed'
      /\ indexed \in Nat /\ indexed' \in Nat
  BY <1>2 DEF ReachConsensus, Index
<1>4. PICK r : r = reader
  OBVIOUS
<1>5. r # Idle => /\ ReaderForm(r) /\ Sound(r)
                  /\ Len(answers) + Cardinality(returned) < MaxAnswers
  BY <1>4, Underway
<1>6. r # Idle => ReaderForm(r)' /\ Sound(r)'
  BY <1>1, <1>3, <1>5, ReaderStays
<1>7. QED
  BY <1>1, <1>3, <1>4, <1>5, <1>6, OnlyRead

LEMMA AskStep ==
  ASSUME IInv, NEW q \in Requests[ledger], Ask(q)
  PROVE  IInv'
<1>1. /\ q.caller # "library" /\ UNCHANGED <<record, returned>>
      /\ Len(answers) + Cardinality(returned) < MaxAnswers
  BY DEF Ask, MayAsk
<1>2. indexed \in Nat /\ indexed \in 0..indexed /\ ledger \in DOMAIN Requests
  BY Underway DEF IInv, TypeOK
<1> DEFINE usable == ParseReceipt(q.receipt) /\ \A m \in q.mandate : ParseMandate(m)
<1>3. CASE usable
  <2>1. PICK polls : polls = IF q.caller = "demo" THEN MaxPolls ELSE 0
    OBVIOUS
  <2>2. polls \in 0..MaxPolls /\ ~ (q.caller = "demo" /\ polls = 0)
    BY <2>1, BoundsAssumption
  <2>3. PICK r : r = Reading(q, polls, indexed)
    OBVIOUS
  <2>4. ReaderForm(r) /\ Sound(r)
    BY <1>1, <1>2, <2>2, <2>3, StartsSound
  <2>5. reader' = r /\ answers' = answers
    BY <1>3, <2>1, <2>3 DEF Ask
  <2>6. QED
    BY <1>1, <2>4, <2>5, Continued
<1>4. CASE ~ usable
  <2>1. Answer(q, indexed, Error)
    BY <1>4 DEF Ask
  <2>2. PICK a : a = AnswerOf(q, indexed, indexed, Error)
    OBVIOUS
  <2>3. OfOneRecord(a) /\ Waited(a)
    BY <2>2, NoVerdict
  <2>4. Error \in {Ok, Failed, Error} /\ (Error = Ok => WasSealed(indexed, q))
    BY DEF Error, Ok
  <2>5. QED
    BY <1>1, <1>2, <2>1, <2>2, <2>3, <2>4, Answered
<1>5. QED
  BY <1>3, <1>4

LEMMA ReadAnchorsStep ==
  ASSUME IInv, NEW q \in Requests[ledger], ReadAnchors(q)
  PROVE  IInv'
<1>1. /\ q.caller = "library" /\ UNCHANGED <<record, answers, returned>>
      /\ Len(answers) + Cardinality(returned) < MaxAnswers
  BY DEF ReadAnchors, MayAsk
<1>2. indexed \in Nat /\ indexed \in 0..indexed /\ ledger \in DOMAIN Requests
  BY Underway DEF IInv, TypeOK
<1>3. PICK r : r = Following(q, MaxPolls, indexed)
  OBVIOUS
<1>4. MaxPolls \in 0..MaxPolls /\ ~ q.caller = "demo"
  BY <1>1, BoundsAssumption
<1>5. ReaderForm(r) /\ Sound(r)
  BY <1>1, <1>2, <1>3, <1>4, StartsSound
<1>6. reader' = r
  BY <1>3 DEF ReadAnchors
<1>7. QED
  BY <1>1, <1>5, <1>6, Continued

LEMMA UnansweredStep ==
  ASSUME IInv, Unanswered
  PROVE  IInv'
<1>1. reader.pc \in {"anchors", "topic", "intake", "balance", "schedule", "release"}
      /\ UNCHANGED <<record, returned>>
  BY DEF Unanswered
<1>2. reader # Idle
  BY <1>1, Underway
<1>3. ReaderForm(reader) /\ Sound(reader) /\ Len(answers) + Cardinality(returned) < MaxAnswers
  BY <1>2, Underway
<1>4. PICK r : r = reader
  OBVIOUS
<1>5. CASE reader.tries + 1 < Attempts
  <2>1. reader' = [r EXCEPT !.tries = @ + 1] /\ answers' = answers
    BY <1>4, <1>5 DEF Unanswered
  <2>2. PICK s : s = [r EXCEPT !.tries = r.tries + 1]
    OBVIOUS
  <2>3. r.tries + 1 \in 0..(Attempts - 1)
    BY <1>3, <1>4, <1>5, BoundsAssumption DEF ReaderForm
  <2>4. ReaderForm(s) /\ Sound(s)
    BY <1>3, <1>4, <2>2, <2>3, TriesDoNotMatter
  <2>5. reader' = s
    BY <2>1, <2>2
  <2>6. QED
    BY <1>1, <1>3, <2>1, <2>4, <2>5, Continued
<1>6. CASE ~ reader.tries + 1 < Attempts
  <2>1. GiveUp(r)
    BY <1>4, <1>6 DEF Unanswered
  <2>2. QED
    BY <1>1, <1>2, <1>4, <2>1, GivenUp
<1>7. QED
  BY <1>5, <1>6

LEMMA TopicUnknownStep ==
  ASSUME IInv, TopicUnknown
  PROVE  IInv'
<1>1. reader.pc \in {"anchors", "topic"} /\ UNCHANGED <<record, returned>>
  BY DEF TopicUnknown
<1>2. reader # Idle
  BY <1>1, Underway
<1>3. PICK r : r = reader
  OBVIOUS
<1>4. GiveUp(r)
  BY <1>3 DEF TopicUnknown
<1>5. QED
  BY <1>1, <1>2, <1>3, <1>4, GivenUp

-----------------------------------------------------------------------------
(* The log is read.                                                        *)

(* One more page, and what the last one completes.                         *)
LEMMA OnePage ==
  ASSUME IInv, NEW r, r = reader, r.pc \in {"anchors", "follow"},
         NEW s, s = WithPage(r), NEW more, more = NextPage(r).next
  PROVE  /\ DOMAIN s = ReaderFields /\ s.pages = r.pages + 1 /\ s.pages \in 1..MaxPages
         /\ s.pc = r.pc /\ s.q = r.q /\ s.polls = r.polls /\ s.since = r.since
         /\ s.tries = r.tries /\ s.tx = r.tx /\ s.schedule = r.schedule /\ s.release = r.release
         /\ more \in BOOLEAN
         /\ s.after \in Nat /\ s.after >= From(r.q)
         /\ s.after <= indexed \/ s.after = From(r.q)
         /\ s.anchors = AnchorsAmong(ledger, LogAt(s.after, r.q))
         /\ Cardinality(LogAt(s.after, r.q)) <= s.pages * PageSize
         /\ ~ more => LogRead(s, indexed)
<1>1. ReaderForm(r) /\ Sound(r) /\ indexed \in Nat /\ r.q \in Requests[ledger]
  BY Underway DEF ReaderForm
<1>2. PICK t : t = TopicOf(r.q)
  OBVIOUS
<1>3. PICK from : from = From(r.q)
  OBVIOUS
<1>4. from \in Nat
  BY <1>1, <1>3, RequestsAssumption DEF From, IInv, TypeOK
<1>5. /\ r.pages \in Nat /\ r.pages < MaxPages /\ r.after \in Nat /\ from <= r.after
      /\ r.after <= indexed \/ r.after = from
      /\ r.anchors = AnchorsAmong(ledger, MessagesOf(ledger, r.after, t, from))
      /\ Cardinality(MessagesOf(ledger, r.after, t, from)) <= r.pages * PageSize
  BY <1>1, <1>2, <1>3, <1>4 DEF ReaderForm, Sound, PagesSound, LogAt
<1>6. PICK page : page = MessagePage(ledger, indexed, t, r.after)
  OBVIOUS
<1>7. PICK last : last = Max(page.messages \cup {r.after})
  OBVIOUS
<1>8. s = [r EXCEPT !.pages = @ + 1, !.after = last,
                    !.anchors = @ \cup AnchorsAmong(ledger, page.messages)]
  BY <1>2, <1>6, <1>7 DEF WithPage, NextPage
<1>9. more = page.next
  BY <1>2, <1>6 DEF NextPage
<1>10. /\ last \in Nat /\ r.after <= last
       /\ last <= indexed \/ last = from
       /\ MessagesOf(ledger, last, t, from) =
            MessagesOf(ledger, r.after, t, from) \cup page.messages
       /\ IsFiniteSet(page.messages) /\ Cardinality(page.messages) \in 0..PageSize
       /\ page.next \in BOOLEAN
       /\ ~ page.next =>
            /\ Cardinality(page.messages) < PageSize
            /\ MessagesOf(ledger, indexed, t, from) =
                 MessagesOf(ledger, r.after, t, from) \cup page.messages
  <2>1. PICK after : after = r.after
    OBVIOUS
  <2>2. after \in Nat /\ from <= after /\ (after <= indexed \/ after = from)
    BY <1>5, <2>1
  <2>3. page = MessagePage(ledger, indexed, t, after) /\ last = Max(page.messages \cup {after})
    BY <1>6, <1>7, <2>1
  <2>4. PageSound(ledger, indexed, t, from, after, page, last)
    BY <1>1, <1>4, <2>2, <2>3, PageRead
  <2>5. QED
    BY <2>1, <2>4 DEF PageSound
<1>11. /\ DOMAIN s = ReaderFields /\ s.pages = r.pages + 1 /\ s.after = last
       /\ s.anchors = r.anchors \cup AnchorsAmong(ledger, page.messages)
       /\ s.pc = r.pc /\ s.q = r.q /\ s.polls = r.polls /\ s.since = r.since
       /\ s.tries = r.tries /\ s.tx = r.tx /\ s.schedule = r.schedule /\ s.release = r.release
  BY <1>1, <1>8 DEF ReaderForm, ReaderFields
<1>12. s.anchors = AnchorsAmong(ledger, MessagesOf(ledger, last, t, from))
  BY <1>5, <1>10, <1>11, AnchorsOfBoth
<1>13. PageSize \in Nat /\ MaxPages \in Nat
  BY PagesAssumption
<1>14. PICK c : c = Cardinality(MessagesOf(ledger, r.after, t, from))
  OBVIOUS
<1>15. PICK d : d = Cardinality(page.messages)
  OBVIOUS
<1>16. /\ c \in Nat /\ c <= r.pages * PageSize /\ d \in 0..PageSize
       /\ Cardinality(MessagesOf(ledger, last, t, from)) <= c + d
       /\ Cardinality(MessagesOf(ledger, last, t, from)) \in Nat
  <2>1. IsFiniteSet(MessagesOf(ledger, r.after, t, from))
    BY <1>5, MessagesFinite
  <2>2. QED
    BY <1>5, <1>10, <1>14, <1>15, <2>1, UnionIsBounded
<1>17. /\ c + d <= (r.pages + 1) * PageSize
       /\ d < PageSize => c + d < (r.pages + 1) * PageSize
  BY <1>5, <1>13, <1>16, MorePages
<1>18. (r.pages + 1) * PageSize <= MaxPages * PageSize
  BY <1>5, <1>13, FewerPages
<1>19. PICK x : x = (r.pages + 1) * PageSize
  OBVIOUS
<1>20. PICK y : y = MaxPages * PageSize
  OBVIOUS
<1>21. x \in Nat /\ y \in Nat
  BY <1>5, <1>13, <1>19, <1>20
<1>22. Cardinality(MessagesOf(ledger, last, t, from)) <= s.pages * PageSize
  <2>1. Cardinality(MessagesOf(ledger, last, t, from)) <= x
    BY <1>16, <1>17, <1>19, <1>21
  <2>2. QED
    BY <1>11, <1>19, <2>1
<1>23. ASSUME ~ more PROVE LogRead(s, indexed)
  <2>1. MessagesOf(ledger, indexed, t, from) = MessagesOf(ledger, last, t, from)
    BY <1>9, <1>10, <1>23
  <2>2. d < PageSize
    BY <1>9, <1>10, <1>15, <1>23
  <2>3. Cardinality(MessagesOf(ledger, last, t, from)) < y
    BY <1>16, <1>17, <1>18, <1>19, <1>20, <1>21, <2>2
  <2>4. LogAt(indexed, s.q) = MessagesOf(ledger, last, t, from)
    BY <1>2, <1>3, <1>11, <2>1 DEF LogAt
  <2>5. QED
    BY <1>12, <1>20, <2>3, <2>4 DEF LogRead
<1>24. LogAt(s.after, r.q) = MessagesOf(ledger, last, t, from)
  BY <1>2, <1>3, <1>11 DEF LogAt
<1>25. s.pages \in 1..MaxPages
  BY <1>5, <1>11, <1>13
<1>26. s.after \in Nat /\ s.after >= From(r.q) /\ (s.after <= indexed \/ s.after = From(r.q))
  BY <1>3, <1>4, <1>5, <1>10, <1>11
<1>27. more \in BOOLEAN
  BY <1>9, <1>10
<1>28. QED
  BY <1>11, <1>12, <1>22, <1>23, <1>24, <1>25, <1>26, <1>27

(* Between two pages.                                                      *)
LEMMA AnotherPage ==
  ASSUME IInv, NEW r, r = reader, r.pc \in {"anchors", "follow"},
         NEW s, s = WithPage(r), s.pages < MaxPages
  PROVE  ReaderForm(s) /\ Sound(s)
<1>1. ReaderForm(r) /\ Sound(r)
  BY Underway
<1>2. PICK more : more = NextPage(r).next
  OBVIOUS
<1>3. /\ DOMAIN s = ReaderFields /\ s.pages \in 1..MaxPages
      /\ s.pc = r.pc /\ s.q = r.q /\ s.polls = r.polls /\ s.since = r.since
      /\ s.tries = r.tries /\ s.tx = r.tx
      /\ s.after \in Nat /\ s.after >= From(r.q)
      /\ s.after <= indexed \/ s.after = From(r.q)
      /\ s.anchors = AnchorsAmong(ledger, LogAt(s.after, r.q))
      /\ Cardinality(LogAt(s.after, r.q)) <= s.pages * PageSize
  BY <1>2, OnePage
<1>4. ReaderForm(s)
  <2>1. s.pages \in 0..MaxPages
    BY <1>3, PagesAssumption
  <2>2. QED
    BY <1>1, <1>3, <2>1 DEF ReaderForm
<1>5. PagesSound(s)
  BY <1>3 DEF PagesSound
<1>6. LogSound(s) /\ WaitSound(s)
  BY <1>1, <1>3 DEF Sound, LogSound, WaitSound
<1>7. OrderSound(s)
  <2>1. LegsRead(s) = LegsRead(r) /\ s.pc \notin OfTheOrder
    BY <1>3 DEF LegsRead, OfTheOrder
  <2>2. QED
    BY <1>1, <1>3, <2>1 DEF Sound, OrderSound
<1>8. QED
  BY <1>4, <1>5, <1>6, <1>7 DEF Sound

(* An empty log is looked into.                                            *)
LEMMA LookedInto ==
  ASSUME IInv, NEW r, r = reader, r.pc \in {"anchors", "follow"},
         NEW s, s = WithPage(r), ~ NextPage(r).next, s.anchors = {},
         NEW u, u = [s EXCEPT !.pc = IF r.pc = "anchors" THEN "topic" ELSE "confirm"]
  PROVE  ReaderForm(u) /\ Sound(u)
<1>1. ReaderForm(r) /\ Sound(r) /\ indexed \in Nat
  BY Underway
<1>2. PICK more : more = NextPage(r).next
  OBVIOUS
<1>3. /\ DOMAIN s = ReaderFields /\ s.pages \in 1..MaxPages
      /\ s.pc = r.pc /\ s.q = r.q /\ s.polls = r.polls /\ s.since = r.since
      /\ s.tries = r.tries /\ s.tx = r.tx /\ s.after \in Nat
      /\ LogRead(s, indexed)
  BY <1>2, OnePage
<1>4. /\ DOMAIN u = ReaderFields /\ u.pages = s.pages
      /\ u.pc = IF r.pc = "anchors" THEN "topic" ELSE "confirm"
      /\ u.q = s.q /\ u.polls = s.polls /\ u.since = s.since /\ u.anchors = s.anchors
      /\ u.tries = s.tries /\ u.tx = s.tx /\ u.after = s.after
  BY <1>3 DEF ReaderFields
<1>5. u.pc \in {"topic", "confirm"} /\ (u.pc = "confirm" <=> r.pc = "follow")
  BY <1>4
<1>6. ReaderForm(u)
  <2>1. u.pages \in 0..MaxPages
    BY <1>3, <1>4, PagesAssumption
  <2>2. u.pc \in {"follow", "confirm"} <=> u.q.caller = "library"
    BY <1>1, <1>3, <1>4, <1>5 DEF ReaderForm
  <2>3. QED
    BY <1>1, <1>3, <1>4, <1>5, <2>1, <2>2 DEF ReaderForm, OfTheLog
<1>7. PagesSound(u)
  BY <1>5 DEF PagesSound
<1>8. LogSound(u)
  <2>1. LogRead(u, indexed)
    BY <1>3, <1>4 DEF LogRead
  <2>2. indexed \in u.since..indexed
    BY <1>1, <1>3, <1>4 DEF ReaderForm
  <2>3. QED
    BY <1>4, <2>1, <2>2 DEF LogSound
<1>9. OrderSound(u)
  <2>1. LegsRead(u) = {} /\ LegsRead(r) = {} /\ u.pc \notin OfTheOrder
    BY <1>5 DEF LegsRead, OfTheOrder, OfTheLog
  <2>2. QED
    BY <1>1, <1>3, <1>4, <2>1 DEF Sound, OrderSound
<1>10. WaitSound(u)
  BY <1>1, <1>3, <1>4, <1>5 DEF Sound, WaitSound
<1>11. QED
  BY <1>6, <1>7, <1>8, <1>9, <1>10 DEF Sound

(* The log of the order is there: its payments are next.                   *)
LEMMA LogIsRead ==
  ASSUME IInv, NEW r, r = reader, r.q.caller # "library",
         NEW s, DOMAIN s = ReaderFields, s.q = r.q, s.polls = r.polls, s.since = r.since,
         s.tries = r.tries, s.tx = r.tx, r.pc \in {"anchors", "topic"}, s.pages \in 0..MaxPages,
         s.after \in Nat,
         NEW n \in s.since..indexed, LogRead(s, n), TopicExists(ledger, n, TopicOf(r.q)),
         NEW u, u = [s EXCEPT !.pc = "intake"]
  PROVE  ReaderForm(u) /\ Sound(u)
<1>1. ReaderForm(r) /\ Sound(r) /\ indexed \in Nat
  BY Underway
<1>2. /\ DOMAIN u = ReaderFields /\ u.pages = s.pages /\ u.pc = "intake"
      /\ u.q = s.q /\ u.polls = s.polls /\ u.since = s.since /\ u.anchors = s.anchors
      /\ u.tries = s.tries /\ u.tx = s.tx /\ u.after = s.after
  BY DEF ReaderFields
<1>3. ReaderForm(u)
  BY <1>1, <1>2 DEF ReaderForm, OfTheOrder
<1>4. PagesSound(u) /\ LogSound(u)
  BY <1>2 DEF PagesSound, LogSound
<1>5. OrderSound(u)
  <2>1. LegsRead(u) = {} /\ LegsRead(r) = {}
    BY <1>2 DEF LegsRead, OfTheLog
  <2>2. DOMAIN u.tx = {}
    BY <1>1, <1>2, <2>1 DEF Sound, OrderSound
  <2>3. LogRead(u, n)
    BY <1>2 DEF LogRead
  <2>4. ReadsSound(u, n)
    BY <1>2, <2>2 DEF ReadsSound
  <2>5. QED
    BY <1>2, <2>1, <2>2, <2>3, <2>4 DEF OrderSound
<1>6. WaitSound(u)
  BY <1>1, <1>2 DEF Sound, WaitSound
<1>7. QED
  BY <1>3, <1>4, <1>5, <1>6 DEF Sound

LEMMA ReadTopicAnchorsStep ==
  ASSUME IInv, ReadTopicAnchors
  PROVE  IInv'
<1>1. PICK r : r = reader
  OBVIOUS
<1>2. PICK s : s = WithPage(r)
  OBVIOUS
<1>3. PICK more : more = NextPage(r).next
  OBVIOUS
<1>4. r.pc = "anchors" /\ AfterPage(s, more) /\ UNCHANGED <<record, returned>>
  BY <1>1, <1>2, <1>3 DEF ReadTopicAnchors
<1>5. reader # Idle /\ ReaderForm(r) /\ Len(answers) + Cardinality(returned) < MaxAnswers
  BY <1>1, <1>4, Underway
<1>6. r.q.caller # "library"
  BY <1>4, <1>5 DEF ReaderForm
<1>7. /\ DOMAIN s = ReaderFields /\ s.pages \in 1..MaxPages /\ s.after \in Nat
      /\ s.pc = r.pc /\ s.q = r.q /\ s.polls = r.polls /\ s.since = r.since
      /\ s.tries = r.tries /\ s.tx = r.tx
      /\ ~ more => LogRead(s, indexed)
  BY <1>1, <1>2, <1>3, <1>4, OnePage
<1>8. CASE more /\ s.pages < MaxPages
  <2>1. Continue(s)
    BY <1>4, <1>8 DEF AfterPage
  <2>2. ReaderForm(s) /\ Sound(s)
    BY <1>1, <1>2, <1>4, <1>8, AnotherPage
  <2>3. QED
    BY <1>4, <1>5, <2>1, <2>2, Goes
<1>9. CASE more /\ ~ s.pages < MaxPages
  <2>1. GiveUp(s)
    BY <1>4, <1>9 DEF AfterPage
  <2>2. QED
    BY <1>1, <1>4, <1>5, <1>7, <2>1, GivenUp
<1>10. CASE ~ more
  <2>1. PICK u : u = [s EXCEPT !.pc = IF s.anchors = {} THEN "topic" ELSE "intake"]
    OBVIOUS
  <2>2. Continue(u)
    BY <1>4, <1>10, <2>1 DEF AfterPage
  <2>3. CASE s.anchors = {}
    <3>1. u = [s EXCEPT !.pc = IF r.pc = "anchors" THEN "topic" ELSE "confirm"]
      BY <1>4, <2>1, <2>3
    <3>2. ReaderForm(u) /\ Sound(u)
      BY <1>1, <1>2, <1>3, <1>4, <1>10, <2>3, <3>1, LookedInto
    <3>3. QED
      BY <1>4, <1>5, <2>2, <3>2, Goes
  <2>4. CASE s.anchors # {}
    <3>1. u = [s EXCEPT !.pc = "intake"]
      BY <2>1, <2>4
    <3>2. indexed \in s.since..indexed /\ indexed \in 0..Len(ledger) /\ IsLedger(ledger)
      BY <1>5, <1>7, Underway DEF ReaderForm
    <3>3. LogAt(indexed, r.q) # {}
      BY <1>7, <1>10, <2>4 DEF LogRead, AnchorsAmong
    <3>4. TopicExists(ledger, indexed, TopicOf(r.q))
      BY <3>2, <3>3, TopicThere DEF LogAt
    <3>5. s.pages \in 0..MaxPages /\ LogRead(s, indexed)
      BY <1>7, <1>10, PagesAssumption
    <3>6. ReaderForm(u) /\ Sound(u)
      BY <1>1, <1>4, <1>6, <1>7, <3>1, <3>2, <3>4, <3>5, LogIsRead
    <3>7. QED
      BY <1>4, <1>5, <2>2, <3>6, Goes
  <2>5. QED
    BY <2>3, <2>4
<1>11. more \in BOOLEAN
  BY <1>1, <1>2, <1>3, <1>4, OnePage
<1>12. QED
  BY <1>8, <1>9, <1>10

LEMMA AssertTopicExistsStep ==
  ASSUME IInv, AssertTopicExists
  PROVE  IInv'
<1>1. PICK r : r = reader
  OBVIOUS
<1>2. PICK t : t = TopicOf(r.q)
  OBVIOUS
<1>3. PICK u : u = [r EXCEPT !.pc = "intake"]
  OBVIOUS
<1>4. /\ r.pc = "topic" /\ TopicExists(ledger, indexed, t) /\ Continue(u)
      /\ UNCHANGED <<record, returned>>
  BY <1>1, <1>2, <1>3 DEF AssertTopicExists
<1>5. ReaderForm(r) /\ Sound(r) /\ Len(answers) + Cardinality(returned) < MaxAnswers
  BY <1>1, <1>4, Underway
<1>6. /\ IsLedger(ledger) /\ indexed \in Nat /\ Len(ledger) \in Nat /\ indexed <= Len(ledger)
      /\ r.q.caller # "library" /\ r.since \in 0..indexed
  BY <1>4, <1>5, Underway DEF ReaderForm
<1>7. PICK n \in r.since..indexed : LogRead(r, n)
  BY <1>4, <1>5 DEF Sound, LogSound
<1>8. r.anchors = {}
  BY <1>4, <1>5 DEF Sound, LogSound
<1>9. \E i \in r.since..indexed : LogRead(r, i) /\ TopicExists(ledger, i, t)
  <2>1. CASE TopicExists(ledger, n, t)
    BY <1>7, <2>1
  <2>2. CASE ~ TopicExists(ledger, n, t)
    <3>1. n \in 0..Len(ledger) /\ indexed \in n..Len(ledger)
      BY <1>6, <1>7
    <3>2. PICK i \in n..indexed : TopicExists(ledger, i, t) /\ MessagesOf(ledger, i, t, From(r.q)) = {}
      BY <1>4, <1>6, <2>2, <3>1, EmptyTopic
    <3>3. LogAt(i, r.q) = {} /\ AnchorsAmong(ledger, {}) = {} /\ Cardinality({}) = 0
      BY <1>2, <1>6, <3>2, NothingAfter DEF LogAt
    <3>4. MaxPages * PageSize > 0
      <4>1. PageSize \in Nat /\ MaxPages \in Nat /\ 1 <= MaxPages /\ 1 * PageSize = PageSize
            /\ PageSize > 0
        BY PagesAssumption
      <4>2. 1 * PageSize <= MaxPages * PageSize
        BY <4>1, FewerPages
      <4>3. PICK y : y = MaxPages * PageSize
        OBVIOUS
      <4>4. y \in Nat /\ PageSize <= y
        BY <4>1, <4>2, <4>3
      <4>5. QED
        BY <4>1, <4>3, <4>4
    <3>5. LogRead(r, i)
      BY <1>8, <3>3, <3>4 DEF LogRead
    <3>6. i \in r.since..indexed
      BY <1>6, <1>7, <3>2
    <3>7. QED
      BY <3>2, <3>5, <3>6
  <2>3. QED
    BY <2>1, <2>2
<1>10. PICK i \in r.since..indexed : LogRead(r, i) /\ TopicExists(ledger, i, t)
  BY <1>9
<1>11. /\ DOMAIN r = ReaderFields /\ r.pages \in 0..MaxPages /\ r.after \in Nat
  BY <1>5 DEF ReaderForm
<1>12. ReaderForm(u) /\ Sound(u)
  BY <1>1, <1>2, <1>3, <1>4, <1>6, <1>10, <1>11, LogIsRead
<1>13. QED
  BY <1>4, <1>5, <1>12, Goes

-----------------------------------------------------------------------------
(* The reader of the library.                                              *)

LEMMA AskedAgain ==
  ASSUME IInv, UNCHANGED <<record, answers>>, reader # Idle, reader.q.caller = "library",
         NEW r, r.q = reader.q, r.since = reader.since, r.polls = reader.polls, AskAgain(r)
  PROVE  IInv'
<1>1. /\ ReaderForm(reader) /\ Len(answers) + Cardinality(returned) < MaxAnswers
      /\ indexed \in Nat /\ ledger \in DOMAIN Requests
  BY Underway DEF IInv, TypeOK
<1>2. r.q \in Requests[ledger] /\ r.since \in 0..indexed /\ r.polls \in 0..MaxPolls
  BY <1>1 DEF ReaderForm
<1>3. returned' = returned
  BY DEF AskAgain
<1>4. CASE Waiting(r)
  <2>1. PICK s : s = Following(r.q, r.polls - 1, r.since)
    OBVIOUS
  <2>2. r.polls - 1 \in 0..MaxPolls
    BY <1>2, <1>4, BoundsAssumption DEF Waiting
  <2>3. r.q.caller = "library" /\ ~ (r.q.caller = "demo" /\ r.polls - 1 = 0)
    OBVIOUS
  <2>4. ReaderForm(s) /\ Sound(s)
    BY <1>1, <1>2, <2>1, <2>2, <2>3, StartsSound
  <2>5. reader' = s
    BY <1>4, <2>1 DEF AskAgain
  <2>6. QED
    BY <1>1, <1>3, <2>4, <2>5, Continued
<1>5. CASE ~ Waiting(r)
  <2>1. PICK s : s = Idle
    OBVIOUS
  <2>2. reader' = s
    BY <1>5, <2>1 DEF AskAgain
  <2>3. QED
    BY <1>3, <2>1, <2>2, Continued
<1>6. QED
  BY <1>4, <1>5

LEMMA ReturnedLog ==
  ASSUME IInv, UNCHANGED <<record, answers>>, reader # Idle, reader.q.caller = "library",
         NEW r, r.q = reader.q, Return(r),
         TopicExists(ledger, indexed, TopicOf(r.q)),
         NEW n \in r.since..indexed, LogRead(r, n)
  PROVE  IInv'
<1>1. Len(answers) + Cardinality(returned) < MaxAnswers
  BY Underway
<1>2. PICK a : a = [q |-> r.q, since |-> r.since, upTo |-> indexed, anchors |-> r.anchors]
  OBVIOUS
<1>3. /\ returned' = returned \cup {a} /\ reader' = Idle
      /\ a.q = r.q /\ a.since = r.since /\ a.upTo = indexed /\ a.anchors = r.anchors
  BY <1>2 DEF Return
<1>4. TopicOf(r.q) = r.q.topic /\ From(r.q) = r.q.from
  BY DEF TopicOf, From
<1>5. WholeLog(a)
  <2>1. a.anchors = AnchorsAmong(ledger, MessagesOf(ledger, n, a.q.topic, a.q.from))
    BY <1>3, <1>4 DEF LogRead, LogAt
  <2>2. TopicExists(ledger, a.upTo, a.q.topic)
    BY <1>3, <1>4
  <2>3. n \in a.since..a.upTo
    BY <1>3
  <2>4. QED
    BY <2>1, <2>2, <2>3 DEF WholeLog
<1>6. QED
  BY <1>1, <1>3, <1>5, Returned

LEMMA ReadAnchorsOnceStep ==
  ASSUME IInv, ReadAnchorsOnce
  PROVE  IInv'
<1>1. PICK r : r = reader
  OBVIOUS
<1>2. PICK s : s = WithPage(r)
  OBVIOUS
<1>3. PICK more : more = NextPage(r).next
  OBVIOUS
<1>4. r.pc = "follow" /\ UNCHANGED <<record, answers>>
  BY <1>1 DEF ReadAnchorsOnce
<1>5. /\ reader # Idle /\ ReaderForm(r) /\ Len(answers) + Cardinality(returned) < MaxAnswers
      /\ IsLedger(ledger) /\ indexed \in 0..Len(ledger)
  BY <1>1, <1>4, Underway
<1>6. r.q.caller = "library"
  BY <1>4, <1>5 DEF ReaderForm
<1>7. /\ s.pc = r.pc /\ s.q = r.q /\ s.polls = r.polls /\ s.since = r.since
      /\ ~ more => LogRead(s, indexed)
      /\ more \in BOOLEAN
  BY <1>1, <1>2, <1>3, <1>4, OnePage
<1>8. \/ more /\ s.pages < MaxPages /\ reader' = s /\ returned' = returned
      \/ ~ more /\ s.anchors # {} /\ Return(s)
      \/ ~ more /\ s.anchors = {} /\ reader' = [s EXCEPT !.pc = "confirm"] /\ returned' = returned
      \/ AskAgain(s)
  <2> DEFINE step(next) == reader' = next /\ returned' = returned
  <2>1. (CASE more /\ s.pages < MaxPages -> step(s)
           [] ~ more /\ s.anchors # {} -> Return(s)
           [] ~ more /\ s.anchors = {} /\ ~ Waiting(s) -> step([s EXCEPT !.pc = "confirm"])
           [] OTHER -> AskAgain(s))
    BY <1>1, <1>2, <1>3 DEF ReadAnchorsOnce
  <2>2. PICK u : u = [s EXCEPT !.pc = "confirm"]
    OBVIOUS
  <2> DEFINE goesOn == step(s)
             returns == Return(s)
             looks == step(u)
             again == AskAgain(s)
             c1 == more /\ s.pages < MaxPages
             c2 == ~ more /\ s.anchors # {}
             c3 == ~ more /\ s.anchors = {} /\ ~ Waiting(s)
  <2>3. (CASE c1 -> goesOn [] c2 -> returns [] c3 -> looks [] OTHER -> again)
    BY <2>1, <2>2
  <2>4. ~ (c1 /\ c2) /\ ~ (c1 /\ c3) /\ ~ (c2 /\ c3)
    OBVIOUS
  <2> HIDE DEF goesOn, returns, looks, again, c1, c2, c3
  <2>5. (c1 /\ goesOn) \/ (c2 /\ returns) \/ (c3 /\ looks) \/ again
    BY <2>3, <2>4, Zenon
  <2>6. QED
    BY <2>2, <2>5 DEF goesOn, returns, looks, again, c1, c2, c3
<1>9. CASE more /\ s.pages < MaxPages /\ reader' = s /\ returned' = returned
  <2>1. ReaderForm(s) /\ Sound(s)
    BY <1>1, <1>2, <1>4, <1>9, AnotherPage
  <2>2. QED
    BY <1>4, <1>5, <1>9, <2>1, Continued
<1>10. CASE ~ more /\ s.anchors # {} /\ Return(s)
  <2>1. LogRead(s, indexed) /\ indexed \in s.since..indexed
    BY <1>5, <1>7, <1>10, Underway DEF ReaderForm
  <2>2. LogAt(indexed, s.q) # {}
    BY <1>10, <2>1 DEF LogRead, AnchorsAmong
  <2>3. TopicExists(ledger, indexed, TopicOf(s.q))
    BY <1>5, <2>2, TopicThere DEF LogAt
  <2>4. QED
    BY <1>1, <1>4, <1>5, <1>6, <1>7, <1>10, <2>1, <2>3, ReturnedLog
<1>11. CASE ~ more /\ s.anchors = {} /\ reader' = [s EXCEPT !.pc = "confirm"] /\ returned' = returned
  <2>1. PICK u : u = [s EXCEPT !.pc = IF r.pc = "anchors" THEN "topic" ELSE "confirm"]
    OBVIOUS
  <2>2. ReaderForm(u) /\ Sound(u)
    BY <1>1, <1>2, <1>3, <1>4, <1>11, <2>1, LookedInto
  <2>3. reader' = u
    BY <1>4, <1>11, <2>1
  <2>4. QED
    BY <1>4, <1>5, <1>11, <2>2, <2>3, Continued
<1>12. CASE AskAgain(s)
  BY <1>1, <1>4, <1>5, <1>6, <1>7, <1>12, AskedAgain
<1>13. QED
  BY <1>8, <1>9, <1>10, <1>11, <1>12

LEMMA ConfirmTopicStep ==
  ASSUME IInv, ConfirmTopic
  PROVE  IInv'
<1>1. PICK r : r = reader
  OBVIOUS
<1>2. /\ r.pc = "confirm" /\ TopicExists(ledger, indexed, TopicOf(r.q)) /\ Return(r)
      /\ UNCHANGED <<record, answers>>
  BY <1>1 DEF ConfirmTopic
<1>3. reader # Idle /\ ReaderForm(r) /\ Sound(r)
  BY <1>1, <1>2, Underway
<1>4. r.q.caller = "library"
  BY <1>2, <1>3 DEF ReaderForm
<1>5. PICK n \in r.since..indexed : LogRead(r, n)
  BY <1>2, <1>3 DEF Sound, LogSound
<1>6. QED
  BY <1>1, <1>2, <1>3, <1>4, <1>5, ReturnedLog

LEMMA ReadFailsStep ==
  ASSUME IInv, ReadFails
  PROVE  IInv'
<1>1. PICK r : r = reader
  OBVIOUS
<1>2. r.pc \in {"follow", "confirm"} /\ AskAgain(r) /\ UNCHANGED <<record, answers>>
  BY <1>1 DEF ReadFails
<1>3. reader # Idle /\ ReaderForm(r)
  BY <1>1, <1>2, Underway
<1>4. r.q.caller = "library"
  BY <1>2, <1>3 DEF ReaderForm
<1>5. QED
  BY <1>1, <1>2, <1>3, <1>4, AskedAgain

-----------------------------------------------------------------------------
(* The rest of the record is read.                                         *)

LEMMA OrderGoesOn ==
  ASSUME IInv, NEW r, r = reader, r.pc \in OfTheOrder,
         NEW u, DOMAIN u = ReaderFields, u.pc \in OfTheOrder,
         u.q = r.q, u.polls = r.polls, u.since = r.since, u.tries = r.tries,
         u.pages = r.pages, u.after = r.after, u.anchors = r.anchors,
         DOMAIN u.tx = LegsRead(u),
         \A n \in r.since..indexed : ReadsSound(r, n) => ReadsSound(u, n),
         u.pc = "poll" => r.polls > 0,
         u.pc \in {"schedule", "release", "judge"} => r.polls = 0
  PROVE  ReaderForm(u) /\ Sound(u)
<1>1. r.pc # "idle"
  BY DEF OfTheOrder
<1>2. ReaderForm(r) /\ Sound(r)
  BY <1>1, Underway
<1>3. r.pc \notin {"follow", "confirm"} /\ u.pc \notin {"follow", "confirm"}
  BY DEF OfTheOrder
<1>4. ReaderForm(u)
  BY <1>2, <1>3 DEF ReaderForm
<1>5. PagesSound(u) /\ LogSound(u)
  BY DEF PagesSound, LogSound, OfTheOrder
<1>6. PICK n \in r.since..indexed : /\ LogRead(r, n) /\ TopicExists(ledger, n, TopicOf(r.q))
                                    /\ ReadsSound(r, n)
  BY <1>2 DEF Sound, OrderSound
<1>7. LogRead(u, n)
  BY <1>6 DEF LogRead
<1>8. OrderSound(u)
  BY <1>6, <1>7 DEF OrderSound
<1>9. WaitSound(u)
  BY <1>2 DEF Sound, WaitSound
<1>10. QED
  BY <1>4, <1>5, <1>8, <1>9 DEF Sound

(* One more transaction was read, the others are those that were read.     *)
LegAdded(r, leg, p, u) ==
  /\ DOMAIN u = ReaderFields /\ u.pc = p
  /\ u.q = r.q /\ u.polls = r.polls /\ u.since = r.since /\ u.tries = r.tries
  /\ u.pages = r.pages /\ u.after = r.after /\ u.anchors = r.anchors
  /\ DOMAIN u.tx = DOMAIN r.tx \cup {leg}
  /\ \A n \in Nat : n <= indexed /\ ReadsSound(r, n) => ReadsSound(u, n)

LEMMA LegIsRead ==
  ASSUME indexed \in Nat, NEW r, DOMAIN r = ReaderFields, NEW leg,
         NEW p, p # "release", p # "judge",
         NEW u, u = [WithTx(r, leg) EXCEPT !.pc = p]
  PROVE  LegAdded(r, leg, p, u)
<1>1. PICK tx : tx = [l \in DOMAIN r.tx \cup {leg} |->
                        IF l = leg THEN ReadTransaction(ledger, indexed, leg) ELSE r.tx[l]]
  OBVIOUS
<1>2. PICK s : s = [r EXCEPT !.tx = tx]
  OBVIOUS
<1>3. s = WithTx(r, leg)
  BY <1>1, <1>2 DEF WithTx
<1>4. /\ DOMAIN s = ReaderFields /\ s.tx = tx
      /\ s.q = r.q /\ s.polls = r.polls /\ s.since = r.since /\ s.tries = r.tries
      /\ s.pages = r.pages /\ s.after = r.after /\ s.anchors = r.anchors
  BY <1>2 DEF ReaderFields
<1>5. /\ DOMAIN u = ReaderFields /\ u.pc = p /\ u.tx = tx
      /\ u.q = r.q /\ u.polls = r.polls /\ u.since = r.since /\ u.tries = r.tries
      /\ u.pages = r.pages /\ u.after = r.after /\ u.anchors = r.anchors
  BY <1>3, <1>4 DEF ReaderFields
<1>6. DOMAIN u.tx = DOMAIN r.tx \cup {leg}
  BY <1>1, <1>5
<1>7. ASSUME NEW n \in Nat, n <= indexed, ReadsSound(r, n) PROVE ReadsSound(u, n)
  <2>1. indexed \in n..indexed
    BY <1>7
  <2>2. \A l \in DOMAIN r.tx : \E k \in n..indexed : r.tx[l] = ReadTransaction(ledger, k, l)
    BY <1>7 DEF ReadsSound
  <2>3. ASSUME NEW l \in DOMAIN u.tx
        PROVE  \E k \in n..indexed : u.tx[l] = ReadTransaction(ledger, k, l)
    <3>1. CASE l = leg
      <4>1. u.tx[l] = ReadTransaction(ledger, indexed, l)
        BY <1>1, <1>5, <1>6, <3>1
      <4>2. QED
        BY <2>1, <4>1
    <3>2. CASE l # leg
      <4>1. l \in DOMAIN r.tx /\ u.tx[l] = r.tx[l]
        BY <1>1, <1>5, <1>6, <3>2
      <4>2. QED
        BY <2>2, <4>1
    <3>3. QED
      BY <3>1, <3>2
  <2>4. u.pc \notin {"release", "judge"} /\ u.pc # "judge"
    BY <1>5
  <2>5. QED
    BY <2>3, <2>4 DEF ReadsSound
<1>8. QED
  BY <1>5, <1>6, <1>7 DEF LegAdded

LEMMA ReadIntakeStep ==
  ASSUME IInv, ReadIntake
  PROVE  IInv'
<1>1. PICK r : r = reader
  OBVIOUS
<1>2. PICK leg : leg = Data(r.q).intake
  OBVIOUS
<1>3. PICK u : u = [WithTx(r, leg) EXCEPT !.pc = "balance"]
  OBVIOUS
<1>4. r.pc = "intake" /\ Continue(u) /\ UNCHANGED <<record, returned>>
  BY <1>1, <1>2, <1>3 DEF ReadIntake
<1>5. /\ ReaderForm(r) /\ Sound(r) /\ indexed \in Nat
      /\ Len(answers) + Cardinality(returned) < MaxAnswers
  BY <1>1, <1>4, Underway
<1>6. DOMAIN r = ReaderFields /\ r.since \in Nat
  BY <1>5 DEF ReaderForm
<1>7. /\ DOMAIN u = ReaderFields /\ u.pc = "balance"
      /\ u.q = r.q /\ u.polls = r.polls /\ u.since = r.since /\ u.tries = r.tries
      /\ u.pages = r.pages /\ u.after = r.after /\ u.anchors = r.anchors
      /\ DOMAIN u.tx = DOMAIN r.tx \cup {leg}
      /\ \A n \in Nat : n <= indexed /\ ReadsSound(r, n) => ReadsSound(u, n)
  <2>1. LegAdded(r, leg, "balance", u)
    BY <1>3, <1>5, <1>6, LegIsRead
  <2>2. QED
    BY <2>1 DEF LegAdded
<1>8. DOMAIN u.tx = LegsRead(u)
  <2>1. DOMAIN r.tx = {}
    BY <1>4, <1>5 DEF Sound, OrderSound, LegsRead, OfTheLog
  <2>2. LegsRead(u) = {leg}
    BY <1>2, <1>7 DEF LegsRead, OfTheLog
  <2>3. QED
    BY <1>7, <2>1, <2>2
<1>9. \A n \in r.since..indexed : ReadsSound(r, n) => ReadsSound(u, n)
  BY <1>5, <1>6, <1>7
<1>10. r.pc \in OfTheOrder /\ u.pc \in OfTheOrder
  BY <1>4, <1>7 DEF OfTheOrder
<1>11. u.pc # "poll" /\ u.pc \notin {"schedule", "release", "judge"}
  BY <1>7
<1>12. ReaderForm(u) /\ Sound(u)
  BY <1>1, <1>7, <1>8, <1>9, <1>10, <1>11, OrderGoesOn
<1>13. QED
  BY <1>4, <1>5, <1>12, Goes

LEMMA ReadBalanceStep ==
  ASSUME IInv, ReadBalance
  PROVE  IInv'
<1>1. PICK r : r = reader
  OBVIOUS
<1>2. PICK leg : leg = Data(r.q).balance
  OBVIOUS
<1>3. PICK p : p = IF Waiting(r) THEN "poll" ELSE "schedule"
  OBVIOUS
<1>4. PICK u : u = [WithTx(r, leg) EXCEPT !.pc = p]
  OBVIOUS
<1>5. r.pc = "balance" /\ Continue(u) /\ UNCHANGED <<record, returned>>
  BY <1>1, <1>2, <1>3, <1>4 DEF ReadBalance
<1>6. /\ ReaderForm(r) /\ Sound(r) /\ indexed \in Nat
      /\ Len(answers) + Cardinality(returned) < MaxAnswers
  BY <1>1, <1>5, Underway
<1>7. DOMAIN r = ReaderFields /\ r.since \in Nat /\ r.polls \in Nat
  BY <1>6, BoundsAssumption DEF ReaderForm
<1>8. p # "release" /\ p # "judge"
  BY <1>3
<1>9. /\ DOMAIN u = ReaderFields /\ u.pc = p
      /\ u.q = r.q /\ u.polls = r.polls /\ u.since = r.since /\ u.tries = r.tries
      /\ u.pages = r.pages /\ u.after = r.after /\ u.anchors = r.anchors
      /\ DOMAIN u.tx = DOMAIN r.tx \cup {leg}
      /\ \A n \in Nat : n <= indexed /\ ReadsSound(r, n) => ReadsSound(u, n)
  <2>1. LegAdded(r, leg, p, u)
    BY <1>4, <1>6, <1>7, <1>8, LegIsRead
  <2>2. QED
    BY <2>1 DEF LegAdded
<1>10. DOMAIN u.tx = LegsRead(u)
  <2>1. DOMAIN r.tx = {Data(r.q).intake}
    BY <1>5, <1>6 DEF Sound, OrderSound, LegsRead, OfTheLog
  <2>2. LegsRead(u) = LegsOf(r.q)
    BY <1>3, <1>9 DEF LegsRead, OfTheLog
  <2>3. QED
    BY <1>2, <1>9, <2>1, <2>2 DEF LegsOf
<1>11. \A n \in r.since..indexed : ReadsSound(r, n) => ReadsSound(u, n)
  BY <1>6, <1>7, <1>9
<1>12. r.pc \in OfTheOrder /\ u.pc \in OfTheOrder
  BY <1>3, <1>5, <1>9 DEF OfTheOrder
<1>13. /\ u.pc = "poll" => r.polls > 0
       /\ u.pc \in {"schedule", "release", "judge"} => r.polls = 0
  BY <1>3, <1>7, <1>9 DEF Waiting
<1>14. ReaderForm(u) /\ Sound(u)
  BY <1>1, <1>9, <1>10, <1>11, <1>12, <1>13, OrderGoesOn
<1>15. QED
  BY <1>5, <1>6, <1>14, Goes

(* What was read of the order before the retainer.                         *)
LEMMA OrderKnown ==
  ASSUME IInv, NEW r, r = reader, r.pc \in {"poll", "schedule", "release", "judge"}
  PROVE  /\ ReaderForm(r) /\ Sound(r) /\ r.q.caller # "library" /\ From(r.q) = 0
         /\ DOMAIN r.tx = LegsOf(r.q)
         /\ \E n \in r.since..indexed :
              /\ r.anchors = AnchorsAt(n, r.q) /\ Readable(n, r.q) /\ ReadsSound(r, n)
<1>1. ReaderForm(r) /\ Sound(r)
  BY Underway
<1>2. r.q.caller # "library" /\ From(r.q) = 0
  BY <1>1 DEF ReaderForm, From
<1>3. DOMAIN r.tx = LegsOf(r.q)
  BY <1>1 DEF Sound, OrderSound, LegsRead, OfTheLog
<1>4. r.pc \in OfTheOrder
  BY DEF OfTheOrder
<1>5. PICK n \in r.since..indexed : /\ LogRead(r, n) /\ TopicExists(ledger, n, TopicOf(r.q))
                                    /\ ReadsSound(r, n)
  BY <1>1, <1>4 DEF Sound, OrderSound
<1>6. r.anchors = AnchorsAt(n, r.q) /\ Readable(n, r.q)
  BY <1>2, <1>5 DEF LogRead, LogAt, AnchorsAt, MessagesAt, Readable
<1>7. QED
  BY <1>1, <1>2, <1>3, <1>5, <1>6

LEMMA PollAgainStep ==
  ASSUME IInv, PollAgain
  PROVE  IInv'
<1>1. PICK r : r = reader
  OBVIOUS
<1>2. r.pc = "poll" /\ UNCHANGED <<record, returned>>
  BY <1>1 DEF PollAgain
<1>3. /\ reader # Idle /\ Len(answers) + Cardinality(returned) < MaxAnswers
      /\ indexed \in Nat /\ ledger \in DOMAIN Requests
  BY <1>1, <1>2, Underway DEF IInv, TypeOK
<1>4. /\ ReaderForm(r) /\ Sound(r) /\ r.q.caller # "library"
      /\ DOMAIN r.tx = LegsOf(r.q)
      /\ \E n \in r.since..indexed :
           /\ r.anchors = AnchorsAt(n, r.q) /\ Readable(n, r.q) /\ ReadsSound(r, n)
  BY <1>1, <1>2, OrderKnown
<1>5. r.q \in Requests[ledger] /\ r.since \in 0..indexed /\ r.polls \in 0..MaxPolls
  BY <1>4 DEF ReaderForm
<1> DEFINE enough == Cardinality(AnchorsFor(r.anchors, Data(r.q).order)) >= ExpectedAnchors
           visible == \A leg \in DOMAIN r.tx : r.tx[leg] # {}
<1>6. CASE enough /\ visible
  <2>1. PICK s : s = Reading(r.q, 0, indexed)
    OBVIOUS
  <2>2. Continue(s)
    BY <1>1, <1>6, <2>1 DEF PollAgain
  <2>3. Complete(indexed, r.q)
    <3>1. PICK n \in r.since..indexed : r.anchors = AnchorsAt(n, r.q) /\ ReadsSound(r, n)
      BY <1>4
    <3>2. n \in Nat /\ n <= indexed
      BY <1>3, <1>5, <3>1
    <3>3. Enough(indexed, r.q)
      <4>1. Enough(n, r.q)
        BY <1>6, <3>1 DEF Enough
      <4>2. QED
        BY <1>3, <3>2, <4>1, EnoughStays
    <3>4. ASSUME NEW leg \in LegsOf(r.q) PROVE ReadTransaction(ledger, indexed, leg) # {}
      <4>1. PICK k \in n..indexed : r.tx[leg] = ReadTransaction(ledger, k, leg)
        BY <1>4, <3>1 DEF ReadsSound
      <4>2. ReadTransaction(ledger, k, leg) # {}
        BY <1>4, <1>6, <4>1
      <4>3. k \in Nat /\ k <= indexed
        BY <1>3, <3>2, <4>1
      <4>4. QED
        BY <1>3, <4>2, <4>3, TransferStays
    <3>5. QED
      BY <3>3, <3>4 DEF Complete, Enough
  <2>4. 0 \in 0..MaxPolls /\ indexed \in 0..indexed
    BY <1>3, BoundsAssumption
  <2>5. ReaderForm(s) /\ Sound(s)
    BY <1>3, <1>4, <1>5, <2>1, <2>3, <2>4, StartsSound
  <2>6. QED
    BY <1>2, <1>3, <2>2, <2>5, Goes
<1>7. CASE ~ (enough /\ visible) /\ r.polls > 1
  <2>1. PICK s : s = Reading(r.q, r.polls - 1, r.since)
    OBVIOUS
  <2>2. Continue(s)
    BY <1>1, <1>7, <2>1 DEF PollAgain
  <2>3. r.polls - 1 \in 0..MaxPolls /\ r.polls - 1 # 0
    BY <1>5, <1>7, BoundsAssumption
  <2>4. ReaderForm(s) /\ Sound(s)
    BY <1>3, <1>4, <1>5, <2>1, <2>3, StartsSound
  <2>5. QED
    BY <1>2, <1>3, <2>2, <2>4, Goes
<1>8. CASE ~ (enough /\ visible) /\ ~ r.polls > 1
  <2>1. GiveUp(r)
    BY <1>1, <1>8 DEF PollAgain
  <2>2. QED
    BY <1>1, <1>2, <1>3, <2>1, GivenUp
<1>9. QED
  BY <1>6, <1>7, <1>8

LEMMA ReadRetainerScheduleStep ==
  ASSUME IInv, ReadRetainerSchedule
  PROVE  IInv'
<1>1. PICK r : r = reader
  OBVIOUS
<1> DEFINE lookups == RetainerLookups(Entries(r), Data(r.q).order)
<1>2. PICK found : found = UNION {ReadSchedule(ledger, indexed, s) : s \in lookups.schedule}
  OBVIOUS
<1>3. PICK u : u = [r EXCEPT !.pc = "release", !.schedule = found]
  OBVIOUS
<1>4. r.pc = "schedule" /\ Continue(u) /\ UNCHANGED <<record, returned>>
  BY <1>1, <1>2, <1>3 DEF ReadRetainerSchedule, Lookups
<1>5. /\ ReaderForm(r) /\ Sound(r) /\ indexed \in Nat
      /\ Len(answers) + Cardinality(returned) < MaxAnswers
  BY <1>1, <1>4, Underway
<1>6. DOMAIN r = ReaderFields /\ r.since \in Nat /\ DOMAIN r.tx = LegsOf(r.q)
  BY <1>1, <1>4, <1>5, OrderKnown DEF ReaderForm
<1>7. /\ DOMAIN u = ReaderFields /\ u.pc = "release" /\ u.schedule = found /\ u.tx = r.tx
      /\ u.q = r.q /\ u.polls = r.polls /\ u.since = r.since /\ u.tries = r.tries
      /\ u.pages = r.pages /\ u.after = r.after /\ u.anchors = r.anchors
  BY <1>3, <1>6 DEF ReaderFields
<1>8. DOMAIN u.tx = LegsRead(u)
  BY <1>6, <1>7 DEF LegsRead, OfTheLog
<1>9. Entries(u) = Entries(r)
  BY <1>7 DEF Entries
<1>10. ASSUME NEW n \in r.since..indexed, ReadsSound(r, n) PROVE ReadsSound(u, n)
  <2>1. indexed \in n..indexed
    BY <1>5, <1>6
  <2>2. \A leg \in DOMAIN u.tx : \E k \in n..indexed : u.tx[leg] = ReadTransaction(ledger, k, leg)
    BY <1>7, <1>10 DEF ReadsSound
  <2>3. \E k \in n..indexed :
          u.schedule = UNION {ReadSchedule(ledger, k, s) :
                                s \in RetainerLookups(Entries(u), Data(u.q).order).schedule}
    BY <1>2, <1>7, <1>9, <2>1
  <2>4. u.pc # "judge"
    BY <1>7
  <2>5. QED
    BY <2>2, <2>3, <2>4 DEF ReadsSound
<1>11. r.pc \in OfTheOrder /\ u.pc \in OfTheOrder /\ u.pc # "poll"
  BY <1>4, <1>7 DEF OfTheOrder
<1>12. r.polls = 0
  BY <1>4, <1>5 DEF Sound, WaitSound
<1>13. ReaderForm(u) /\ Sound(u)
  BY <1>1, <1>7, <1>8, <1>10, <1>11, <1>12, OrderGoesOn
<1>14. QED
  BY <1>4, <1>5, <1>13, Goes

LEMMA ReadRetainerReleaseStep ==
  ASSUME IInv, ReadRetainerRelease
  PROVE  IInv'
<1>1. PICK r : r = reader
  OBVIOUS
<1> DEFINE lookups == RetainerLookups(Entries(r), Data(r.q).order)
<1>2. PICK found :
        found = UNION {ReadScheduledTransaction(ledger, indexed, s) : s \in lookups.release}
  OBVIOUS
<1>3. PICK u : u = [r EXCEPT !.pc = "judge", !.release = found]
  OBVIOUS
<1>4. r.pc = "release" /\ Continue(u) /\ UNCHANGED <<record, returned>>
  BY <1>1, <1>2, <1>3 DEF ReadRetainerRelease, Lookups
<1>5. /\ ReaderForm(r) /\ Sound(r) /\ indexed \in Nat
      /\ Len(answers) + Cardinality(returned) < MaxAnswers
  BY <1>1, <1>4, Underway
<1>6. DOMAIN r = ReaderFields /\ r.since \in Nat /\ DOMAIN r.tx = LegsOf(r.q)
  BY <1>1, <1>4, <1>5, OrderKnown DEF ReaderForm
<1>7. /\ DOMAIN u = ReaderFields /\ u.pc = "judge" /\ u.release = found /\ u.tx = r.tx
      /\ u.q = r.q /\ u.polls = r.polls /\ u.since = r.since /\ u.tries = r.tries
      /\ u.pages = r.pages /\ u.after = r.after /\ u.anchors = r.anchors
      /\ u.schedule = r.schedule
  BY <1>3, <1>6 DEF ReaderFields
<1>8. DOMAIN u.tx = LegsRead(u)
  BY <1>6, <1>7 DEF LegsRead, OfTheLog
<1>9. Entries(u) = Entries(r)
  BY <1>7 DEF Entries
<1>10. ASSUME NEW n \in r.since..indexed, ReadsSound(r, n) PROVE ReadsSound(u, n)
  <2>1. indexed \in n..indexed
    BY <1>5, <1>6
  <2>2. \A leg \in DOMAIN u.tx : \E k \in n..indexed : u.tx[leg] = ReadTransaction(ledger, k, leg)
    BY <1>7, <1>10 DEF ReadsSound
  <2>3. \E k \in n..indexed :
          u.schedule = UNION {ReadSchedule(ledger, k, s) :
                                s \in RetainerLookups(Entries(u), Data(u.q).order).schedule}
    <3> DEFINE ScheduleAt(k) == UNION {ReadSchedule(ledger, k, s) : s \in lookups.schedule}
    <3>1. \E k \in n..indexed : r.schedule = ScheduleAt(k)
      BY <1>4, <1>10 DEF ReadsSound
    <3>2. \A k : UNION {ReadSchedule(ledger, k, s) :
                          s \in RetainerLookups(Entries(u), Data(u.q).order).schedule} = ScheduleAt(k)
      BY <1>7, <1>9
    <3> HIDE DEF ScheduleAt
    <3>3. QED
      BY <1>7, <3>1, <3>2
  <2>4. \E k \in n..indexed :
          u.release = UNION {ReadScheduledTransaction(ledger, k, s) :
                               s \in RetainerLookups(Entries(u), Data(u.q).order).release}
    BY <1>2, <1>7, <1>9, <2>1
  <2>5. QED
    BY <2>2, <2>3, <2>4 DEF ReadsSound
<1>11. r.pc \in OfTheOrder /\ u.pc \in OfTheOrder /\ u.pc # "poll"
  BY <1>4, <1>7 DEF OfTheOrder
<1>12. r.polls = 0
  BY <1>4, <1>5 DEF Sound, WaitSound
<1>13. ReaderForm(u) /\ Sound(u)
  BY <1>1, <1>7, <1>8, <1>10, <1>11, <1>12, OrderGoesOn
<1>14. QED
  BY <1>4, <1>5, <1>13, Goes

(* What passes was sealed.                                                 *)
LEMMA PassingIsSealed ==
  ASSUME indexed \in Nat, NEW q, NEW n \in 0..indexed,
         RestPasses(q, ToAnchorEntries(ledger, AnchorsAt(n, q)))
  PROVE  WasSealed(indexed, q)
<1> DEFINE l == ledger
           m == Data(q).order
<1>1. PICK E : E = ToAnchorEntries(l, AnchorsAmong(l, MessagesOf(l, n, TopicOf(q), 0)))
  OBVIOUS
<1>2. RestPasses(q, E) /\ n \in Nat /\ n <= indexed
  BY <1>1 DEF AnchorsAt, MessagesAt
<1>3. VerifyEnvelope(q.receipt)
  BY <1>2 DEF RestPasses, CheckReceiptSignature, Result
<1>4. \A x \in q.mandate : x = Envelope[Data(q).mandate]
  BY <1>2 DEF RestPasses, MandateFileAgrees
<1>5. PositionsOf(E, m, "receipt") # {} /\ Issued[FirstOf(E, m, "receipt").by] = q.receipt
  BY <1>2 DEF RestPasses, ReceiptAnchored, Data
<1>6. PICK p \in PositionsOf(E, m, "receipt") :
        /\ FirstOf(E, m, "receipt") = AnchorEntry(l, p)
        /\ p \in AnchorsAmong(l, MessagesOf(l, n, TopicOf(q), 0))
        /\ p \in 1..n
        /\ l[p].anchor.kind = "receipt" /\ l[p].anchor.order = m
        /\ \A o \in PositionsOf(E, m, "receipt") : p <= o
  BY <1>1, <1>2, <1>5, FirstEntry
<1>7. p \in MessagesAt(indexed, q)
  BY <1>2, <1>6, MessagesStay DEF AnchorsAmong, MessagesAt
<1>8. SealedAt(p, q)
  BY <1>5, <1>6 DEF SealedAt, AnchorEntry
<1>9. ASSUME NEW j \in PositionsOf(ToAnchorEntries(l, AnchorsAt(p, q)), m, "receipt")
      PROVE  j = p
  <2>1. PICK F : F = ToAnchorEntries(l, AnchorsAt(p, q))
    OBVIOUS
  <2>2. j \in DOMAIN F /\ F[j].order = m /\ F[j].kind = "receipt"
    BY <1>9, <2>1 DEF PositionsOf
  <2>3. DOMAIN F = AnchorsAt(p, q) /\ F[j] = AnchorEntry(l, j)
    BY <2>1, <2>2 DEF ToAnchorEntries
  <2>4. j \in 1..p /\ j \in AnchorsAmong(l, MessagesOf(l, n, TopicOf(q), 0))
    BY <1>2, <1>6, <2>2, <2>3 DEF AnchorsAt, MessagesAt, AnchorsAmong, MessagesOf
  <2>5. j \in DOMAIN E /\ E[j] = AnchorEntry(l, j)
    BY <1>1, <2>4 DEF ToAnchorEntries
  <2>6. j \in PositionsOf(E, m, "receipt")
    BY <2>2, <2>3, <2>5 DEF PositionsOf
  <2>7. QED
    BY <1>6, <2>4, <2>6
<1>10. QED
  BY <1>3, <1>4, <1>7, <1>8, <1>9 DEF WasSealed

LEMMA JudgeStep ==
  ASSUME IInv, Judge
  PROVE  IInv'
<1>1. PICK r : r = reader
  OBVIOUS
<1>2. PICK q : q = r.q
  OBVIOUS
<1>3. PICK read : read = RunChecks(q, Entries(r), r.tx, r.schedule, r.release)
  OBVIOUS
<1>4. PICK code : code = IF Passed(read) THEN Ok ELSE Failed
  OBVIOUS
<1>5. r.pc = "judge" /\ Answer(q, r.since, code) /\ UNCHANGED <<record, returned>>
  BY <1>1, <1>2, <1>3, <1>4 DEF Judge
<1>6. /\ Len(answers) + Cardinality(returned) < MaxAnswers
      /\ IsLedger(ledger) /\ indexed \in Nat /\ indexed \in 0..Len(ledger)
  BY <1>1, <1>5, Underway
<1>7. /\ ReaderForm(r) /\ Sound(r) /\ DOMAIN r.tx = LegsOf(q)
      /\ \E n \in r.since..indexed :
           /\ r.anchors = AnchorsAt(n, q) /\ Readable(n, q) /\ ReadsSound(r, n)
  BY <1>1, <1>2, <1>5, OrderKnown
<1>8. PICK n \in r.since..indexed :
        r.anchors = AnchorsAt(n, q) /\ Readable(n, q) /\ ReadsSound(r, n)
  BY <1>7
<1>9. q \in Requests[ledger] /\ r.since \in 0..indexed /\ r.polls \in Nat
  BY <1>2, <1>7, BoundsAssumption DEF ReaderForm
<1>10. n \in 0..indexed /\ (r.since = indexed => n = indexed)
  BY <1>6, <1>8, <1>9
<1>11. /\ Passed(read) => Passed(ChecksAt(n, q))
       /\ ~ Passed(read) /\ (HasRetainer => n = indexed) => ~ Passed(ChecksAt(n, q))
  BY <1>2, <1>3, <1>5, <1>6, <1>7, <1>8, <1>10, Judgement
<1>12. PICK a : a = AnswerOf(q, r.since, indexed, code)
  OBVIOUS
<1>13. /\ a.q = q /\ a.since = r.since /\ a.upTo = indexed /\ a.code = code
       /\ a.shown = Shown(q.caller, code)
  BY <1>12 DEF AnswerOf
<1>14. /\ code \in {Ok, Failed, Error}
       /\ Shown(q.caller, code) = IF code = Ok THEN "pass" ELSE "fail"
  BY <1>4 DEF Shown, DemoShows, ToolShows, ServiceShows, Ok, Failed, Error
<1>15. code = Ok <=> Passed(read)
  BY <1>4 DEF Ok, Failed
<1>16. OfOneRecord(a)
  <2>1. ASSUME a.shown = "pass" PROVE Seen(a, Ok)
    <3>1. Snapshot(n, q) = Ok
      BY <1>8, <1>11, <1>13, <1>14, <1>15, <2>1 DEF Snapshot
    <3>2. QED
      BY <1>8, <1>13, <3>1 DEF Seen
  <2>2. ASSUME a.shown = "fail", HasRetainer => a.since = a.upTo PROVE Seen(a, Failed)
    <3>1. ~ Passed(read) /\ (HasRetainer => n = indexed)
      BY <1>10, <1>13, <1>14, <1>15, <2>2
    <3>2. Snapshot(n, q) = Failed
      BY <1>8, <1>11, <3>1 DEF Snapshot
    <3>3. QED
      BY <1>8, <1>13, <3>2 DEF Seen
  <2>3. QED
    BY <2>1, <2>2 DEF OfOneRecord
<1>17. Waited(a)
  <2>1. r.polls = 0
    BY <1>5, <1>7 DEF Sound, WaitSound
  <2>2. QED
    BY <1>2, <1>7, <1>13, <2>1 DEF Sound, WaitSound, Waited
<1>18. ASSUME code = Ok PROVE WasSealed(indexed, q)
  <2>1. PICK rc : rc = Data(q)
    OBVIOUS
  <2>2. RestPasses(q, Entries(r))
    BY <1>3, <1>15, <1>18, <2>1, PassedIs
  <2>3. Entries(r) = ToAnchorEntries(ledger, AnchorsAt(n, q))
    BY <1>8 DEF Entries
  <2>4. QED
    BY <1>6, <1>10, <2>2, <2>3, PassingIsSealed
<1>19. QED
  BY <1>5, <1>6, <1>9, <1>12, <1>14, <1>16, <1>17, <1>18, Answered

-----------------------------------------------------------------------------
(* The theorems.                                                           *)

LEMMA Begins ==
  ASSUME Init
  PROVE  IInv
<1>1. ledger \in DOMAIN Requests
  BY DEF Init
<1>2. IsLedger(ledger) /\ \E i \in DOMAIN ledger : IsReceipt(ledger[i])
  BY <1>1, LedgersAssumption
<1>3. DOMAIN ledger = 1..Len(ledger) /\ Len(ledger) \in Nat
  BY <1>2 DEF IsLedger
<1> DEFINE P(n) == IsReceipt(ledger[n]) /\ \A k \in 1..(n - 1) : ~ IsReceipt(ledger[k])
<1>4. \E n \in DOMAIN ledger : P(n)
  <2> DEFINE S == {i \in DOMAIN ledger : IsReceipt(ledger[i])}
  <2>1. S \subseteq Nat /\ S # {}
    BY <1>2, <1>3
  <2>2. PICK n \in S : \A i \in S : n <= i
    BY <2>1, LeastPosition
  <2>3. ASSUME NEW k \in 1..(n - 1), IsReceipt(ledger[k]) PROVE FALSE
    <3>1. k \in S /\ k < n
      BY <1>3, <2>2, <2>3
    <3>2. QED
      BY <1>3, <2>2, <3>1
  <2>4. QED
    BY <2>2, <2>3
<1>5. agreed = CHOOSE n \in DOMAIN ledger : P(n)
  BY DEF Init
<1> HIDE DEF P
<1>6. agreed \in DOMAIN ledger
  BY <1>4, <1>5
<1>7. agreed \in 0..Len(ledger) /\ indexed \in 0..agreed
  BY <1>3, <1>6 DEF Init
<1>8. reader = Idle /\ answers = <<>> /\ returned = {}
  BY DEF Init
<1>9. /\ answers \in Seq({answers[k] : k \in DOMAIN answers})
      /\ DOMAIN answers = {} /\ Len(answers) = 0
  BY <1>8
<1>10. IsFiniteSet(returned) /\ Cardinality(returned) = 0
  BY <1>8, FS_EmptySet
<1>11. TypeOK
  BY <1>1, <1>7, <1>8, <1>9, <1>10, BoundsAssumption DEF TypeOK
<1>12. ReaderSound
  BY <1>8 DEF ReaderSound
<1>13. VerdictOfOneRecord /\ OnlySealedPasses /\ DemoWaited /\ ReaderReturnsWholeLog
  BY <1>8, <1>9 DEF VerdictOfOneRecord, OnlySealedPasses, DemoWaited, ReaderReturnsWholeLog
<1>14. QED
  BY <1>11, <1>12, <1>13 DEF IInv

LEMMA Stutters ==
  ASSUME IInv, UNCHANGED vars
  PROVE  IInv'
<1>1. PICK r : r = reader
  OBVIOUS
<1>2. r # Idle => /\ ReaderForm(r) /\ Sound(r)
                  /\ Len(answers) + Cardinality(returned) < MaxAnswers
  BY <1>1, Underway
<1>3. UNCHANGED <<record, answers, returned>> /\ reader' = r
  BY <1>1 DEF vars, record
<1>4. QED
  BY <1>2, <1>3, Continued

LEMMA Steps ==
  ASSUME IInv, [Next]_vars
  PROVE  IInv'
<1>1. CASE ReachConsensus \/ Index
  BY <1>1, RecordStep
<1>2. CASE \E q \in Requests[ledger] : Ask(q) \/ ReadAnchors(q)
  BY <1>2, AskStep, ReadAnchorsStep
<1>3. CASE Verify
  BY <1>3, UnansweredStep, TopicUnknownStep, ReadTopicAnchorsStep, AssertTopicExistsStep,
     ReadIntakeStep, ReadBalanceStep, PollAgainStep, ReadRetainerScheduleStep,
     ReadRetainerReleaseStep, JudgeStep DEF Verify
<1>4. CASE Follow
  BY <1>4, ReadAnchorsOnceStep, ConfirmTopicStep, ReadFailsStep DEF Follow
<1>5. CASE UNCHANGED vars
  BY <1>5, Stutters
<1>6. QED
  BY <1>1, <1>2, <1>3, <1>4, <1>5 DEF Next

(* What a verification has read so far, whoever asks and however far       *)
(* behind the mirror node is, are reads of one growing record in the order *)
(* in which src/verifier/cli.ts and mirror.ts make them, and no page of    *)
(* the log is left out.                                                    *)
THEOREM InvariantHolds == Spec => []IInv
<1>1. Init => IInv
  BY Begins
<1>2. IInv /\ [Next]_vars => IInv'
  BY Steps
<1>3. QED
  BY <1>1, <1>2, PTL DEF Spec

(* Every verdict is that of one state of the record between the question   *)
(* and the answer, although the log, the payments and the retainer are     *)
(* read one after another while the record grows.                          *)
THEOREM VerdictOfOneRecordHolds == Spec => []VerdictOfOneRecord
<1>1. IInv => VerdictOfOneRecord
  BY DEF IInv
<1>2. QED
  BY <1>1, InvariantHolds, PTL

(* Only what was sealed passes, and only where the first anchor of its     *)
(* kind covers it.                                                         *)
THEOREM OnlySealedPassesHolds == Spec => []OnlySealedPasses
<1>1. IInv => OnlySealedPasses
  BY DEF IInv
<1>2. QED
  BY <1>1, InvariantHolds, PTL

(* The library's reader returns all that was on the topic, or nothing.     *)
THEOREM ReaderReturnsWholeLogHolds == Spec => []ReaderReturnsWholeLog
<1>1. IInv => ReaderReturnsWholeLog
  BY DEF IInv
<1>2. QED
  BY <1>1, InvariantHolds, PTL

(* A demo whose order is in order does not fail it because the mirror node *)
(* is behind: what it waited for stays, so the verdict is one on a record  *)
(* that has all of it.                                                     *)
THEOREM DemoWaitsHolds == Spec => []DemoWaitsForTheRecord
<1>1. ASSUME IInv PROVE DemoWaitsForTheRecord
  <2>1. SUFFICES ASSUME NEW k \in DOMAIN answers, answers[k].q.caller = "demo",
                        InOrder(answers[k].q), ~ HasRetainer, answers[k].code = Failed
                 PROVE  FALSE
    BY DEF DemoWaitsForTheRecord
  <2>2. PICK a : a = answers[k]
    OBVIOUS
  <2>3. AnswerForm(a) /\ OfOneRecord(a) /\ Waited(a)
    BY <1>1, <2>1, <2>2 DEF IInv, TypeOK, VerdictOfOneRecord, DemoWaited
  <2>4. a.shown = "fail" /\ a.code = Failed /\ Failed # Error
    BY <2>1, <2>2, <2>3 DEF AnswerForm, Shown, DemoShows, Ok, Failed, Error
  <2>5. PICK n \in a.since..a.upTo : Snapshot(n, a.q) = Failed
    BY <2>1, <2>3, <2>4 DEF OfOneRecord, Seen
  <2>6. /\ indexed \in Nat /\ indexed \in 0..Len(ledger) /\ Len(ledger) \in Nat
        /\ a.upTo \in 0..indexed /\ a.since \in 0..a.upTo
    BY <1>1, <2>3, Underway DEF AnswerForm
  <2>7. n \in Nat /\ a.since \in Nat /\ a.since <= n /\ n \in 0..Len(ledger)
    BY <2>5, <2>6
  <2>8. Complete(a.since, a.q)
    BY <2>1, <2>2, <2>3, <2>4 DEF Waited
  <2>9. Complete(n, a.q)
    BY <2>7, <2>8, CompleteStays
  <2>10. Snapshot(n, a.q) = Ok
    BY <2>1, <2>2, <2>7, <2>9 DEF InOrder
  <2>11. QED
    BY <2>5, <2>10 DEF Ok, Failed
<1>2. QED
  BY <1>1, InvariantHolds, PTL

=============================================================================
