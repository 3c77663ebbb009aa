---------------------------- MODULE Settlements -----------------------------
(***************************************************************************)
(* The settlement registry of the contractor (src/contractor/server.ts):   *)
(* a map from the payment header of a request to the settlement it paid    *)
(* for, and since when it is there.  The settle hook records, the handler  *)
(* of the request that shows the same header claims.                       *)
(***************************************************************************)
EXTENDS Naturals

CONSTANT Ttl  \* how long a settlement can be claimed

ASSUME TtlAssumption == Ttl \in Nat

Empty == [h \in {} |-> {}]

(* Mutant: a settlement is dropped that can still be claimed.              *)
PruneEarly(registry) ==
  [h \in {g \in DOMAIN registry : registry[g].age < Ttl} |-> registry[h]]

(* Older than its lifetime: nobody claimed it.                             *)
Prune(registry) ==
  [h \in {g \in DOMAIN registry : registry[g].age <= Ttl} |-> registry[h]]

(* Stored under the header, in place of what was there.                    *)
Record(registry, header, payment) ==
  LET kept == Prune(registry)
  IN  [h \in DOMAIN kept \cup {header} |->
         IF h = header THEN [payment |-> payment, age |-> 0] ELSE kept[h]]

(* What a request with this header is handed, and what is then left.       *)
Claim(registry, header) ==
  {registry[h].payment : h \in {g \in DOMAIN registry \cap {header} : registry[g].age <= Ttl}}

Claimed(registry, header) == [h \in DOMAIN registry \ {header} |-> registry[h]]

(* Time passes; beyond the lifetime it makes no difference any more.       *)
Older(age) == IF age <= Ttl THEN age + 1 ELSE age
Aged(registry) == [h \in DOMAIN registry |-> [registry[h] EXCEPT !.age = Older(@)]]
=============================================================================
