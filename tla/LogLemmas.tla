----------------------------- MODULE LogLemmas ------------------------------
(***************************************************************************)
(* Facts about append-only logs and the positions of their entries.        *)
(***************************************************************************)
EXTENDS AuditTopic, WellFoundedInduction, TLAPS

(* The log only grows.                                                     *)
LEMMA AppendGrows ==
  ASSUME NEW S, NEW s \in Seq(S), NEW e \in S
  PROVE  /\ Append(s, e) \in Seq(S)
         /\ DOMAIN Append(s, e) = DOMAIN s \cup {Len(s) + 1}
         /\ \A n \in DOMAIN s : Append(s, e)[n] = s[n]
         /\ Append(s, e)[Len(s) + 1] = e
         /\ DOMAIN s = 1..Len(s)
         /\ Len(s) \in Nat
OBVIOUS

(* What was on the log stays, and what is appended is there.               *)
LEMMA OnTopicGrows ==
  ASSUME NEW S, NEW s \in Seq(S), NEW e \in S, NEW a
  PROVE  OnTopic(Append(s, e), a) <=> OnTopic(s, a) \/ a = e
<1>1. /\ DOMAIN Append(s, e) = DOMAIN s \cup {Len(s) + 1}
      /\ \A n \in DOMAIN s : Append(s, e)[n] = s[n]
      /\ Append(s, e)[Len(s) + 1] = e
  BY AppendGrows
<1>2. QED
  BY <1>1, Zenon DEF OnTopic

(* Of some positions, one is the first.                                    *)
LEMMA LeastPosition ==
  ASSUME NEW S, S \subseteq Nat, S # {}
  PROVE  \E m \in S : \A n \in S : m <= n
<1> DEFINE R == {p \in Nat \X Nat : p[1] < p[2]}
<1>1. IsWellFoundedOn(R, Nat)
  BY NatLessThanWellFounded, Zenon DEF OpToRel
<1> HIDE DEF R
<1>2. PICK m \in S : \A n \in S : ~ <<n, m>> \in R
  BY <1>1, WFMin
<1>3. \A p, q \in Nat : p < q => <<p, q>> \in R
  BY DEF R
<1>4. \A n \in S : ~ n < m
  BY <1>2, <1>3
<1>5. \A n \in S : n \in Nat /\ m \in Nat
  OBVIOUS
<1>6. \A n \in S : m <= n
  BY <1>4, <1>5
<1>7. QED
  BY <1>6

(* The first anchor of a kind stands at the first of its positions.        *)
LEMMA FirstStands ==
  ASSUME NEW t, NEW m, NEW k, DOMAIN t \subseteq Nat, PositionsOf(t, m, k) # {}
  PROVE  \E n \in PositionsOf(t, m, k) :
           FirstOf(t, m, k) = t[n] /\ \A o \in PositionsOf(t, m, k) : n <= o
<1>1. PositionsOf(t, m, k) \subseteq Nat
  BY DEF PositionsOf
<1>2. \E n \in PositionsOf(t, m, k) : \A o \in PositionsOf(t, m, k) : n <= o
  BY <1>1, LeastPosition
<1>3. QED
  BY <1>2 DEF FirstOf
=============================================================================
