------------------------- MODULE EvidenceSolanaProofs -------------------------
(* Theorems about the two services an issuance uses besides the registries: the *)
(* evidence its claims are derived from, for any plan, workers, answers and     *)
(* edits; and the Solana anchor that repeats it, for any calls, references,     *)
(* verifications and times. They share no state; each part states its own       *)
(* invariant.                                                                   *)
EXTENDS SolanaAttestation, EvidenceCollection, TLAPS, FiniteSetTheorems, SequenceTheorems, WellFoundedInduction

(* The evidence. Workers settle slots in any order; what orders the bundle is   *)
(* the slot, so the invariant says where each slot stands: below the counter it *)
(* is with a worker or holds a source of its own request, and a worker stops    *)
(* only when the counter has passed the plan.                                   *)

Phases == {"planned", "security", "done", "rejected"}

(* A list of n things.                                                          *)
IsList(f, n) == f = [i \in 1..n |-> f[i]]

(* h is f and then g, which are of n and of m things.                           *)
Joins(h, f, n, g, m) ==
  /\ IsList(h, n + m) /\ Len(h) = n + m
  /\ \A i \in 1..n : h[i] = f[i]
  /\ \A i \in 1..m : h[n + i] = g[i]
  /\ \A i \in 1..(n + m) : i \in 1..n \/ (i - n \in 1..m /\ i = n + (i - n))

(* What toSource() makes of a settled request: without a body it is unavailable,*)
(* with one it has the digest of that body.                                     *)
IsSource(x) ==
  /\ DOMAIN x = {"request", "unavailable", "body", "digest"} /\ DOMAIN x.request = {"kind", "of"}
  /\ x.unavailable \in BOOLEAN
GoodSource(x, request) ==
  /\ IsSource(x) /\ x.request = request
  /\ x.unavailable => x.body = Null /\ x.digest = Null
  /\ ~x.unavailable => x.body # Null /\ x.body \in Bodies[request.kind] /\ x.digest = x.body

Asked(request) == DOMAIN request = {"kind", "of"} /\ Null \notin Bodies[request.kind]

PlanInv ==
  /\ phase \in Phases
  /\ Len(plan) \in Nat /\ IsList(plan, Len(plan))
  /\ \A slot \in 1..Len(plan) : Asked(plan[slot])
  /\ phase = "planned" => plan = Plan

Places == [slot : Nat, attempt : Nat, waiting : BOOLEAN]

Below(slot) == slot < next => (\E w \in Workers : worker[w].slot = slot) \/ GoodSource(results[slot], plan[slot])

SlotsInv ==
  /\ next \in Nat \ {0}
  /\ worker \in [Workers -> Places]
  /\ \A w \in Workers : worker[w].slot # 0 => worker[w].slot \in 1..Len(plan)
  /\ IsList(results, Len(plan))
  /\ phase # "rejected" =>
       /\ \A slot \in 1..Len(plan) : Below(slot)
       /\ \A w \in Workers : worker[w].slot = 0 => Len(plan) < next
  /\ phase = "done" => AllStopped

CollectedInv ==
  phase \in {"security", "done"} =>
    /\ IsList(collected, Len(Plan))
    /\ \A i \in 1..Len(Plan) : GoodSource(collected[i], Plan[i])

(* What edits leave of a source: its endpoint, or one that no claim reads, and  *)
(* a body of the endpoint it was issued with, if it has one.                    *)
Edited(x, y) ==
  /\ IsSource(x) /\ x.request.kind \in {y.request.kind, "other"}
  /\ x.body = Null \/ x.body \in Bodies[y.request.kind]

IsBundle(b) ==
  /\ DOMAIN b = {"schema", "derivationId", "subject", "window", "sources", "claims", "repeated"}
  /\ IsList(b.sources, Len(Plan) + Len(plan))

IssuedInv ==
  /\ IsBundle(issued)
  /\ issued.schema = "ours" /\ issued.derivationId = "ours"
  /\ issued.claims = deriveClaims(issued.sources, issued.window)
  /\ \A i \in 1..(Len(Plan) + Len(plan)) : GoodSource(issued.sources[i], (Plan \o plan)[i])

BundleInv ==
  /\ edits \in Nat
  /\ phase # "done" => edits = 0 /\ verdict = "none"
  /\ phase = "done" =>
       /\ IssuedInv /\ IsBundle(bundle)
       /\ \A i \in 1..(Len(Plan) + Len(plan)) : Edited(bundle.sources[i], issued.sources[i])
       /\ edits = 0 => bundle = issued
       /\ verdict \in {"none", "ok", "mismatch"}
       /\ verdict = "ok" => verifyClaims(bundle)
       /\ verdict = "mismatch" => ~verifyClaims(bundle)

CollectionInv == PlanInv /\ SlotsInv /\ CollectedInv /\ BundleInv
------------------------------------------------------------------------------
(* Lists.                                                                       *)

LEMMA ListIsSeq ==
  ASSUME NEW f, NEW n \in Nat, IsList(f, n)
  PROVE  /\ f \in Seq({f[i] : i \in 1..n}) /\ Len(f) = n /\ DOMAIN f = 1..n
<1> DEFINE S == {f[i] : i \in 1..n}
<1>1. f \in [1..n -> S]
  BY DEF IsList
<1>2. DOMAIN f = 1..n
  BY <1>1
<1>3. f \in Seq(S)
  BY <1>1, SeqDef
<1>4. Len(f) = n
  BY <1>2, <1>3, LenProperties
<1> QED
  BY <1>2, <1>3, <1>4

LEMMA ListsJoined ==
  ASSUME NEW f, NEW n \in Nat, IsList(f, n), NEW g, NEW m \in Nat, IsList(g, m)
  PROVE  Joins(f \o g, f, n, g, m)
<1> DEFINE S == {f[i] : i \in 1..n} \cup {g[i] : i \in 1..m}
           h == f \o g
<1>1. f \in [1..n -> S] /\ g \in [1..m -> S]
  BY DEF IsList
<1>2. f \in Seq(S) /\ g \in Seq(S) /\ Len(f) = n /\ Len(g) = m
  <2>1. f \in Seq(S) /\ g \in Seq(S)
    BY <1>1, SeqDef
  <2>2. Len(f) = n /\ Len(g) = m
    BY ListIsSeq, Zenon
  <2> QED
    BY <2>1, <2>2
<1> HIDE DEF S
<1>3. /\ h \in Seq(S) /\ Len(h) = n + m
      /\ \A i \in 1..(n + m) : h[i] = IF i <= n THEN f[i] ELSE g[i - n]
  BY <1>2, ConcatProperties
<1> HIDE DEF h
<1>4. h \in [1..(n + m) -> S]
  BY <1>3, LenProperties
<1>5. IsList(h, n + m)
  BY <1>4 DEF IsList
<1>6. \A i \in 1..n : h[i] = f[i]
  BY <1>3
<1>7. ASSUME NEW i \in 1..m
      PROVE  h[n + i] = g[i]
  <2>1. n + i \in 1..(n + m) /\ ~(n + i <= n) /\ (n + i) - n = i
    OBVIOUS
  <2> QED
    BY <1>3, <2>1
<1>8. \A i \in 1..(n + m) : i \in 1..n \/ (i - n \in 1..m /\ i = n + (i - n))
  OBVIOUS
<1> QED
  BY <1>3, <1>5, <1>6, <1>7, <1>8 DEF h, Joins

(* The plan of the first phase is a list, and every request of it is of a kind  *)
(* that is answered with bodies.                                                *)
LEMMA PlanIsList ==
  /\ Len(Plan) \in Nat /\ IsList(Plan, Len(Plan))
  /\ \A slot \in 1..Len(Plan) : Asked(Plan[slot])
<1> DEFINE n == Len(Chains) * Len(PerChain)
           m == Len(PerWallet)
           ofChains == [slot \in 1..n |-> Request(PerChain[((slot - 1) % Len(PerChain)) + 1],
                                                  Chains[((slot - 1) \div Len(PerChain)) + 1])]
           ofWallet == [k \in 1..m |-> Request(PerWallet[k], "wallet")]
<1>1. n \in Nat /\ m \in Nat
  BY BodiesAssumption
<1>2. IsList(ofChains, n) /\ IsList(ofWallet, m)
  BY DEF IsList
<1>3. ASSUME NEW slot \in 1..n
      PROVE  Asked(ofChains[slot])
  <2>1. Len(PerChain) # 0
    BY BodiesAssumption
  <2>2. Len(PerChain) \in Nat /\ Len(PerChain) > 0
    BY <2>1, BodiesAssumption
  <2> DEFINE k == ((slot - 1) % Len(PerChain)) + 1
  <2>3. slot - 1 \in Nat
    BY <1>1
  <2>4. k \in 1..Len(PerChain)
    BY <2>2, <2>3
  <2>5. DOMAIN ofChains[slot] = {"kind", "of"} /\ ofChains[slot].kind = PerChain[k]
    BY DEF Request
  <2> HIDE DEF k, n, ofChains
  <2> QED
    BY <2>4, <2>5, BodiesAssumption DEF Asked
<1>4. ASSUME NEW k \in 1..m
      PROVE  Asked(ofWallet[k])
  <2>1. DOMAIN ofWallet[k] = {"kind", "of"} /\ ofWallet[k].kind = PerWallet[k]
    BY DEF Request
  <2> HIDE DEF ofWallet
  <2> QED
    BY <2>1, BodiesAssumption DEF Asked
<1>5. Plan = ofChains \o ofWallet
  BY DEF Plan
<1> HIDE DEF ofChains, ofWallet, n, m
<1>6. /\ IsList(Plan, n + m) /\ Len(Plan) = n + m
      /\ \A i \in 1..n : Plan[i] = ofChains[i]
      /\ \A i \in 1..m : Plan[n + i] = ofWallet[i]
      /\ \A i \in 1..(n + m) : i \in 1..n \/ (i - n \in 1..m /\ i = n + (i - n))
  <2>1. Joins(ofChains \o ofWallet, ofChains, n, ofWallet, m)
    BY <1>1, <1>2, ListsJoined, Zenon
  <2> QED
    BY <1>5, <2>1, Zenon DEF Joins
<1>7. \A slot \in 1..(n + m) : Asked(Plan[slot])
  <2> TAKE slot \in 1..(n + m)
  <2>1. CASE slot \in 1..n
    BY <1>3, <1>6, <2>1
  <2>2. CASE slot - n \in 1..m /\ slot = n + (slot - n)
    <3>1. Plan[slot] = ofWallet[slot - n]
      BY <1>6, <2>2
    <3> QED
      BY <1>4, <2>2, <3>1
  <2> QED
    BY <1>6, <2>1, <2>2
<1> QED
  BY <1>1, <1>6, <1>7

LEMMA MinOfTwo ==
  ASSUME NEW a \in Nat, NEW b \in Nat
  PROVE  Min({a, b}) \in Nat
<1>1. \E x \in {a, b} : \A y \in {a, b} : x =< y
  <2>1. CASE a =< b
    BY <2>1
  <2>2. CASE ~(a =< b)
    BY <2>2
  <2> QED
    BY <2>1, <2>2
<1>2. Min({a, b}) \in {a, b}
  BY <1>1, Zenon DEF Min
<1> QED
  BY <1>2

(* However many assets were traded, they are finitely many, and so is their     *)
(* ranking.                                                                     *)
LEMMA RankedIsList ==
  ASSUME NEW sources
  PROVE  \E n \in Nat : IsList(rankTradedAssets(sources), n)
<1> DEFINE traded == {p \in usable(sources, "history") \X Cycles :
                        p[2] \in sources[p[1]].body /\ InWindow(p[2].exit, Window)}
           assets == {p[2].asset : p \in traded}
           size == Min({MaxSecurityLookups, Cardinality(assets)})
           volume(a) == MapThenSumSet(LAMBDA p : p[2].volume, {p \in traded : p[2].asset = a})
           busier(a) == {b \in assets : volume(b) > volume(a) \/ (volume(b) = volume(a) /\ b < a)}
           ranked == [k \in 1..size |-> CHOOSE a \in assets : Cardinality(busier(a)) = k - 1]
<1>1. assets \subseteq Assets
  BY DEF Assets
<1>2. rankTradedAssets(sources) = ranked
  BY DEF rankTradedAssets
<1> HIDE DEF busier, assets
<1>3. Cardinality(assets) \in Nat
  BY <1>1, CollectionAssumption, FS_Subset, FS_CardinalityType
<1>4. size \in Nat
  BY <1>3, MinOfTwo, CollectionAssumption
<1> HIDE DEF size
<1>5. IsList(ranked, size)
  BY DEF IsList
<1> HIDE DEF ranked
<1> QED
  BY <1>2, <1>4, <1>5

(* The second plan.                                                             *)
Lookups(sources) ==
  [k \in 1..Len(rankTradedAssets(sources)) |-> Request("security", rankTradedAssets(sources)[k])]

LEMMA LookupsAreList ==
  ASSUME NEW sources
  PROVE  /\ Len(Lookups(sources)) \in Nat /\ IsList(Lookups(sources), Len(Lookups(sources)))
         /\ \A slot \in 1..Len(Lookups(sources)) : Asked(Lookups(sources)[slot])
<1> DEFINE ranked == rankTradedAssets(sources)
<1>1. PICK n \in Nat : IsList(ranked, n)
  BY RankedIsList
<1>2. Len(ranked) = n
  BY <1>1, ListIsSeq, Zenon
<1>3. Lookups(sources) = [k \in 1..n |-> Request("security", ranked[k])]
  BY <1>2, Zenon DEF Lookups
<1> HIDE DEF ranked
<1>4. IsList(Lookups(sources), n)
  BY <1>3 DEF IsList
<1>5. Len(Lookups(sources)) = n
  BY <1>4, ListIsSeq, Zenon
<1>6. \A slot \in 1..n : Asked(Lookups(sources)[slot])
  BY <1>3, BodiesAssumption DEF Request, Asked
<1> QED
  BY <1>4, <1>5, <1>6
------------------------------------------------------------------------------
(* A plan is begun: each worker takes the slot of its own number.               *)
Begun(p, n, kept, at) ==
  /\ n = Concurrency + 1
  /\ kept = [slot \in 1..Len(p) |-> Null]
  /\ at = [w \in Workers |-> Taking(w, p)]

LEMMA BegunSlots ==
  ASSUME NEW p, Len(p) \in Nat, NEW n, NEW kept, NEW at, Begun(p, n, kept, at)
  PROVE  /\ n \in Nat \ {0} /\ at \in [Workers -> Places]
         /\ \A w \in Workers : at[w].slot # 0 => at[w].slot \in 1..Len(p)
         /\ IsList(kept, Len(p))
         /\ \A slot \in 1..Len(p) : slot < n => \E w \in Workers : at[w].slot = slot
         /\ \A w \in Workers : at[w].slot = 0 => Len(p) < n
<1>1. at = [w \in Workers |-> Taking(w, p)] /\ n = Concurrency + 1 /\ kept = [slot \in 1..Len(p) |-> Null]
  BY DEF Begun
<1>2. Concurrency \in Nat /\ Workers = 1..Concurrency
  BY CollectionAssumption DEF Workers
<1>3. ASSUME NEW w \in Workers
      PROVE  /\ Taking(w, p) \in Places
             /\ Taking(w, p).slot = IF w =< Len(p) THEN w ELSE 0
  BY <1>2 DEF Taking, Stopped, Places
<1>4. IsList(kept, Len(p))
  BY <1>1 DEF IsList
<1>5. \A slot \in 1..Len(p) : slot < n => slot \in Workers /\ at[slot].slot = slot
  BY <1>1, <1>2, <1>3
<1>6. \A w \in Workers : at[w].slot # 0 => at[w].slot \in 1..Len(p)
  BY <1>1, <1>2, <1>3
<1>7. \A w \in Workers : at[w].slot = 0 => Len(p) < n
  BY <1>1, <1>2, <1>3
<1> QED
  BY <1>1, <1>2, <1>3, <1>4, <1>5, <1>6, <1>7

(* A worker's slot is settled and it takes the next.                            *)
LEMMA SettleSlots ==
  ASSUME PlanInv, SlotsInv, NEW w \in Workers, worker[w].slot # 0, NEW result,
         GoodSource(result, plan[worker[w].slot]), settle(w, result), UNCHANGED <<phase, plan>>
  PROVE  SlotsInv'
<1> DEFINE s == worker[w].slot
<1>1. /\ next \in Nat \ {0} /\ worker \in [Workers -> Places] /\ s \in 1..Len(plan) /\ Len(plan) \in Nat
      /\ IsList(results, Len(plan))
  BY DEF SlotsInv, PlanInv
<1>2. /\ worker' = [worker EXCEPT ![w] = Taking(next, plan)]
      /\ results' = [results EXCEPT ![s] = result] /\ next' = next + 1
  BY DEF settle
<1>3. phase # "done"
  BY DEF SlotsInv, AllStopped, Stopped
<1>4. /\ Taking(next, plan) \in Places
      /\ Taking(next, plan).slot = IF next =< Len(plan) THEN next ELSE 0
  BY <1>1 DEF Taking, Stopped, Places
<1>5. IsList(results', Len(plan))
  BY <1>1, <1>2 DEF IsList
<1>6. worker' \in [Workers -> Places]
  BY <1>1, <1>2, <1>4
<1>7. \A v \in Workers : worker'[v] = IF v = w THEN Taking(next, plan) ELSE worker[v]
  BY <1>1, <1>2
<1>8. \A slot \in 1..Len(plan) : results'[slot] = IF slot = s THEN result ELSE results[slot]
  BY <1>1, <1>2 DEF IsList
<1>9. \A v \in Workers : worker'[v].slot # 0 => worker'[v].slot \in 1..Len(plan)
  <2>1. Taking(next, plan).slot # 0 => Taking(next, plan).slot \in 1..Len(plan)
    BY <1>1, <1>4
  <2> QED
    BY <1>7, <2>1 DEF SlotsInv
<1>10. ASSUME phase # "rejected"
       PROVE  /\ \A slot \in 1..Len(plan) : Below(slot)'
              /\ \A v \in Workers : worker'[v].slot = 0 => Len(plan) < next'
  <2>1. /\ \A slot \in 1..Len(plan) : Below(slot)
        /\ \A v \in Workers : worker[v].slot = 0 => Len(plan) < next
    BY <1>10 DEF SlotsInv
  <2>2. ASSUME NEW slot \in 1..Len(plan), slot < next'
        PROVE  (\E v \in Workers : worker'[v].slot = slot) \/ GoodSource(results'[slot], plan[slot])
    <3>1. CASE slot = s
      BY <1>8, <3>1
    <3>2. CASE slot # s /\ slot < next
      <4>1. CASE \E v \in Workers : worker[v].slot = slot
        <5>1. PICK v \in Workers : worker[v].slot = slot
          BY <4>1
        <5>2. v # w
          BY <3>2, <5>1
        <5> QED
          BY <1>7, <5>1, <5>2
      <4>2. CASE GoodSource(results[slot], plan[slot])
        BY <1>8, <3>2, <4>2
      <4> QED
        BY <2>1, <3>2, <4>1, <4>2 DEF Below
    <3>3. CASE slot = next
      BY <1>4, <1>7, <3>3
    <3> QED
      BY <1>1, <1>2, <2>2, <3>1, <3>2, <3>3
  <2>3. \A v \in Workers : worker'[v].slot = 0 => Len(plan) < next'
    <3>1. Taking(next, plan).slot = 0 => Len(plan) < next + 1
      BY <1>1, <1>4
    <3>2. Len(plan) < next => Len(plan) < next + 1
      BY <1>1
    <3> QED
      BY <1>2, <1>7, <2>1, <3>1, <3>2
  <2> QED
    BY <2>2, <2>3 DEF Below
<1> QED
  BY <1>1, <1>2, <1>3, <1>5, <1>6, <1>9, <1>10 DEF SlotsInv

(* A step that moves one worker, keeps its slot, and settles nothing.           *)
LEMMA WaitSlots ==
  ASSUME PlanInv, SlotsInv, NEW w \in Workers, NEW place \in Places, place.slot = worker[w].slot, worker[w] # Stopped,
         worker' = [worker EXCEPT ![w] = place], UNCHANGED <<phase, plan, next, results>>
  PROVE  SlotsInv'
<1>1. worker \in [Workers -> Places]
  BY DEF SlotsInv
<1>2. worker' \in [Workers -> Places] /\ \A v \in Workers : worker'[v].slot = worker[v].slot
  BY <1>1
<1>3. phase # "done"
  BY DEF SlotsInv, AllStopped
<1>4. \A slot \in 1..Len(plan) : Below(slot) => Below(slot)'
  BY <1>2 DEF Below
<1> QED
  BY <1>2, <1>3, <1>4 DEF SlotsInv

(* The two ends of a request.                                                   *)
LEMMA ResultsGood ==
  ASSUME PlanInv, SlotsInv, NEW w \in Workers, worker[w].slot # 0
  PROVE  /\ GoodSource(Failed(w), plan[worker[w].slot])
         /\ \A body \in Bodies[plan[worker[w].slot].kind] : GoodSource(Got(w, body), plan[worker[w].slot])
<1>1. Null \notin Bodies[plan[worker[w].slot].kind] /\ DOMAIN plan[worker[w].slot] = {"kind", "of"}
  BY DEF PlanInv, SlotsInv, Asked
<1>2. GoodSource(Failed(w), plan[worker[w].slot])
  BY <1>1 DEF Failed, GoodSource, IsSource
<1>3. ASSUME NEW body \in Bodies[plan[worker[w].slot].kind]
      PROVE  GoodSource(Got(w, body), plan[worker[w].slot])
  BY <1>1, <1>3 DEF Got, GoodSource, IsSource
<1> QED
  BY <1>2, <1>3

(* While a worker is at a slot the bundle is not made, and what is kept besides *)
(* the slots stays.                                                             *)
LEMMA OthersKept ==
  ASSUME CollectionInv, phase # "done", phase' \in {phase, "rejected"},
         UNCHANGED <<plan, collected, bundle, issued, edits, verdict>>
  PROVE  PlanInv' /\ CollectedInv' /\ BundleInv'
<1>1. PlanInv'
  BY DEF CollectionInv, PlanInv, Phases
<1>2. CollectedInv'
  BY DEF CollectionInv, CollectedInv
<1>3. BundleInv'
  BY DEF CollectionInv, BundleInv
<1> QED
  BY <1>1, <1>2, <1>3

LEMMA AtWork ==
  ASSUME SlotsInv, NEW w \in Workers, worker[w].slot # 0
  PROVE  phase # "done"
BY DEF SlotsInv, AllStopped, Stopped

LEMMA WaitingAtWork ==
  ASSUME SlotsInv, NEW w \in Workers, worker[w] # Stopped
  PROVE  phase # "done"
BY DEF SlotsInv, AllStopped
------------------------------------------------------------------------------
(* Each action.                                                                 *)

LEMMA SettleInv ==
  ASSUME CollectionInv, NEW w \in Workers, worker[w].slot # 0, NEW result,
         GoodSource(result, plan[worker[w].slot]), settle(w, result),
         UNCHANGED <<phase, plan, collected, bundle, issued, edits, verdict>>
  PROVE  CollectionInv'
<1>1. PlanInv /\ SlotsInv
  BY DEF CollectionInv
<1>2. SlotsInv'
  BY <1>1, SettleSlots
<1>3. phase # "done"
  BY <1>1, AtWork
<1>4. PlanInv' /\ CollectedInv' /\ BundleInv'
  BY <1>3, OthersKept
<1> QED
  BY <1>2, <1>4 DEF CollectionInv

LEMMA AnsweredInv ==
  ASSUME CollectionInv, NEW w \in Workers, answered(w) \/ refused(w)
  PROVE  CollectionInv'
<1>1. worker[w].slot # 0 /\ UNCHANGED <<phase, plan, collected, bundle, issued, edits, verdict>>
  BY DEF answered, refused, Asking
<1>2. PlanInv /\ SlotsInv
  BY DEF CollectionInv
<1>3. PICK result : settle(w, result) /\ GoodSource(result, plan[worker[w].slot])
  <2>1. CASE answered(w)
    <3>1. PICK body \in Bodies[plan[worker[w].slot].kind] : settle(w, Got(w, body))
      BY <2>1 DEF answered
    <3>2. GoodSource(Got(w, body), plan[worker[w].slot])
      BY <1>1, <1>2, ResultsGood
    <3> QED
      BY <3>1, <3>2
  <2>2. CASE refused(w)
    BY <1>1, <1>2, <2>2, ResultsGood DEF refused
  <2> QED
    BY <2>1, <2>2
<1> QED
  BY <1>1, <1>3, SettleInv

(* A worker that waits, and one that asks again, is still at its slot.          *)
LEMMA MovedInv ==
  ASSUME CollectionInv, NEW w \in Workers, NEW place \in Places, place.slot = worker[w].slot, worker[w] # Stopped,
         worker' = [worker EXCEPT ![w] = place],
         UNCHANGED <<phase, plan, next, results, collected, bundle, issued, edits, verdict>>
  PROVE  CollectionInv'
<1>1. PlanInv /\ SlotsInv
  BY DEF CollectionInv
<1>2. SlotsInv'
  BY <1>1, WaitSlots
<1>3. phase # "done"
  BY <1>1, WaitingAtWork
<1>4. PlanInv' /\ CollectedInv' /\ BundleInv'
  BY <1>3, OthersKept
<1> QED
  BY <1>2, <1>4 DEF CollectionInv

LEMMA UnansweredInv ==
  ASSUME CollectionInv, NEW w \in Workers, unanswered(w)
  PROVE  CollectionInv'
<1>1. worker[w].slot # 0 /\ UNCHANGED <<phase, plan, collected, bundle, issued, edits, verdict>>
  BY DEF unanswered, Asking
<1>2. PlanInv /\ SlotsInv
  BY DEF CollectionInv
<1>3. CASE worker[w].attempt < MaxAttempts
  <2> DEFINE place == [worker[w] EXCEPT !.waiting = TRUE]
  <2>1. /\ worker' = [worker EXCEPT ![w] = place] /\ UNCHANGED <<next, results>>
    BY <1>3 DEF unanswered
  <2>2. worker[w] \in Places
    BY <1>2 DEF SlotsInv
  <2>3. place \in Places
    BY <2>2 DEF Places
  <2>4. place.slot = worker[w].slot
    BY <2>2 DEF Places
  <2>5. worker[w] # Stopped
    BY <1>1 DEF Stopped
  <2> HIDE DEF place
  <2> QED
    BY <1>1, <2>1, <2>3, <2>4, <2>5, MovedInv
<1>4. CASE ~(worker[w].attempt < MaxAttempts)
  <2>1. settle(w, Failed(w))
    BY <1>4 DEF unanswered
  <2>2. GoodSource(Failed(w), plan[worker[w].slot])
    BY <1>1, <1>2, ResultsGood
  <2> QED
    BY <1>1, <2>1, <2>2, SettleInv
<1> QED
  BY <1>3, <1>4

LEMMA RetryInv ==
  ASSUME CollectionInv, NEW w \in Workers, retry(w)
  PROVE  CollectionInv'
<1> DEFINE place == [worker[w] EXCEPT !.waiting = FALSE, !.attempt = @ + 1]
<1>1. worker[w] \in Places /\ worker \in [Workers -> Places]
  BY DEF CollectionInv, SlotsInv
<1>2. worker' = [worker EXCEPT ![w] = place]
  BY <1>1 DEF retry, Places
<1>3. place \in Places
  <2>1. worker[w].attempt + 1 \in Nat
    BY <1>1 DEF Places
  <2> QED
    BY <1>1, <2>1 DEF Places
<1>4. worker[w] # Stopped
  BY DEF retry, Stopped
<1>5. UNCHANGED <<phase, plan, next, results, collected, bundle, issued, edits, verdict>>
  BY DEF retry
<1>6. place.slot = worker[w].slot
  BY <1>1 DEF Places
<1> HIDE DEF place
<1> QED
  BY <1>2, <1>3, <1>4, <1>5, <1>6, MovedInv

LEMMA UnreadableInv ==
  ASSUME CollectionInv, NEW w \in Workers, unreadable(w)
  PROVE  CollectionInv'
<1>1. /\ phase' = "rejected" /\ worker' = [worker EXCEPT ![w] = Stopped]
      /\ UNCHANGED <<plan, next, results, collected, bundle, issued, edits, verdict>>
  BY DEF unreadable
<1>2. PlanInv /\ SlotsInv
  BY DEF CollectionInv
<1>3. Stopped \in Places /\ Stopped.slot = 0
  BY DEF Stopped, Places
<1>4. SlotsInv'
  BY <1>1, <1>2, <1>3 DEF SlotsInv
<1>5. phase # "done"
  BY <1>2, AtWork DEF unreadable, Asking
<1>6. PlanInv' /\ CollectedInv' /\ BundleInv'
  BY <1>1, <1>5, OthersKept
<1> QED
  BY <1>4, <1>6 DEF CollectionInv

(* When every worker has stopped, every slot of the plan holds its source.      *)
LEMMA PlanDone ==
  ASSUME PlanInv, SlotsInv, AllStopped, phase # "rejected"
  PROVE  \A slot \in 1..Len(plan) : GoodSource(results[slot], plan[slot])
<1>1. 1 \in Workers
  BY CollectionAssumption DEF Workers
<1>2. \A w \in Workers : worker[w].slot = 0
  BY DEF AllStopped, Stopped
<1>3. Len(plan) < next /\ \A slot \in 1..Len(plan) : Below(slot)
  BY <1>1, <1>2 DEF SlotsInv
<1>4. \A slot \in 1..Len(plan) : slot < next /\ slot # 0
  BY <1>3 DEF PlanInv, SlotsInv
<1> QED
  BY <1>2, <1>3, <1>4 DEF Below

LEMMA RankInv ==
  ASSUME CollectionInv, Rank
  PROVE  CollectionInv'
<1>1. /\ phase = "planned" /\ AllStopped /\ start(Lookups(results)) /\ collected' = results /\ phase' = "security"
      /\ UNCHANGED <<bundle, issued, edits, verdict>>
  BY DEF Rank, Lookups
<1>2. PlanInv /\ SlotsInv
  BY DEF CollectionInv
<1>3. plan = Plan
  BY <1>1, <1>2 DEF PlanInv
<1>4. \A slot \in 1..Len(plan) : GoodSource(results[slot], plan[slot])
  BY <1>1, <1>2, PlanDone
<1>5. CollectedInv'
  BY <1>1, <1>2, <1>3, <1>4 DEF CollectedInv, SlotsInv
<1> DEFINE p == Lookups(results)
<1>6. plan' = p /\ Begun(p, next', results', worker')
  BY <1>1 DEF start, Begun
<1>7. /\ Len(p) \in Nat /\ IsList(p, Len(p))
      /\ \A slot \in 1..Len(p) : Asked(p[slot])
  BY LookupsAreList
<1> HIDE DEF p
<1>8. PlanInv'
  BY <1>1, <1>6, <1>7 DEF PlanInv, Phases
<1>9. SlotsInv'
  BY <1>1, <1>6, <1>7, BegunSlots DEF SlotsInv, Below
<1>10. BundleInv'
  BY <1>1 DEF CollectionInv, BundleInv
<1> QED
  BY <1>5, <1>8, <1>9, <1>10 DEF CollectionInv

(* The bundle of two lists of sources answers the plan, and the lookups behind  *)
(* it.                                                                          *)
LEMMA SourcesJoined ==
  ASSUME PlanInv, IsList(collected, Len(Plan)), IsList(results, Len(plan)),
         \A i \in 1..Len(Plan) : GoodSource(collected[i], Plan[i]),
         \A i \in 1..Len(plan) : GoodSource(results[i], plan[i])
  PROVE  /\ IsList(collected \o results, Len(Plan) + Len(plan))
         /\ \A i \in 1..(Len(Plan) + Len(plan)) : GoodSource((collected \o results)[i], (Plan \o plan)[i])
<1> DEFINE n == Len(Plan)
           m == Len(plan)
           h == collected \o results
           p == Plan \o plan
<1>1. n \in Nat /\ m \in Nat /\ IsList(Plan, n) /\ IsList(plan, m)
  BY PlanIsList, Zenon DEF PlanInv
<1>2. Joins(h, collected, n, results, m) /\ Joins(p, Plan, n, plan, m)
  BY <1>1, ListsJoined, Zenon
<1> HIDE DEF n, m, h, p
<1>3. ASSUME NEW i \in 1..(n + m)
      PROVE  GoodSource(h[i], p[i])
  <2>1. CASE i \in 1..n
    <3>1. h[i] = collected[i] /\ p[i] = Plan[i]
      BY <1>2, <2>1, Zenon DEF Joins
    <3> QED
      BY <2>1, <3>1 DEF n
  <2>2. CASE i - n \in 1..m /\ i = n + (i - n)
    <3> DEFINE k == i - n
    <3>1. k \in 1..m /\ i = n + k
      BY <2>2
    <3> HIDE DEF k
    <3>2. h[i] = results[k] /\ p[i] = plan[k]
      BY <1>2, <3>1, Zenon DEF Joins
    <3> QED
      BY <3>1, <3>2 DEF m
  <2>3. i \in 1..n \/ (i - n \in 1..m /\ i = n + (i - n))
    BY <1>2, <1>3, Zenon DEF Joins
  <2> QED
    BY <2>1, <2>2, <2>3
<1>4. IsList(h, n + m)
  BY <1>2, Zenon DEF Joins
<1> QED
  BY <1>3, <1>4, Zenon DEF n, m, h, p

LEMMA AssembleInv ==
  ASSUME CollectionInv, Assemble
  PROVE  CollectionInv'
<1> DEFINE h == collected \o results
<1>1. /\ phase = "security" /\ AllStopped /\ phase' = "done" /\ issued' = bundle'
      /\ bundle' = [schema |-> "ours", derivationId |-> "ours", subject |-> "ours", window |-> Window,
                    sources |-> h, claims |-> deriveClaims(h, Window), repeated |-> {}]
      /\ UNCHANGED <<plan, next, results, worker, collected, edits, verdict>>
  BY DEF Assemble
<1>2. PlanInv /\ SlotsInv /\ CollectedInv
  BY DEF CollectionInv
<1>3. \A slot \in 1..Len(plan) : GoodSource(results[slot], plan[slot])
  BY <1>1, <1>2, PlanDone
<1>4. /\ IsList(collected, Len(Plan)) /\ IsList(results, Len(plan))
      /\ \A i \in 1..Len(Plan) : GoodSource(collected[i], Plan[i])
  BY <1>1, <1>2 DEF CollectedInv, SlotsInv
<1>5. /\ IsList(h, Len(Plan) + Len(plan))
      /\ \A i \in 1..(Len(Plan) + Len(plan)) : GoodSource(h[i], (Plan \o plan)[i])
  BY <1>2, <1>3, <1>4, SourcesJoined
<1> HIDE DEF h
<1>6. /\ DOMAIN bundle' = {"schema", "derivationId", "subject", "window", "sources", "claims", "repeated"}
      /\ bundle'.schema = "ours" /\ bundle'.derivationId = "ours" /\ bundle'.sources = h
      /\ bundle'.window = Window /\ bundle'.claims = deriveClaims(h, Window)
  BY <1>1
<1>7. IsBundle(bundle)'
  BY <1>1, <1>5, <1>6, Zenon DEF IsBundle
<1>8. IssuedInv'
  BY <1>1, <1>5, <1>6, <1>7, Zenon DEF IssuedInv
<1>9. \A i \in 1..(Len(Plan) + Len(plan)) : Edited(bundle'.sources[i], issued'.sources[i])
  <2>1. \A i \in 1..(Len(Plan) + Len(plan)) :
          IsSource(h[i]) /\ (h[i].body = Null \/ h[i].body \in Bodies[h[i].request.kind])
    BY <1>5 DEF GoodSource, IsSource
  <2> QED
    BY <1>1, <1>6, <2>1 DEF Edited
<1>10. edits \in Nat /\ verdict = "none"
  BY <1>1 DEF CollectionInv, BundleInv
<1>11. BundleInv'
  BY <1>1, <1>7, <1>8, <1>9, <1>10 DEF BundleInv
<1>12. PlanInv'
  BY <1>1, <1>2 DEF PlanInv, Phases
<1>13. SlotsInv'
  BY <1>1, <1>2 DEF SlotsInv, Below, AllStopped
<1>14. CollectedInv'
  BY <1>1, <1>4 DEF CollectedInv
<1> QED
  BY <1>11, <1>12, <1>13, <1>14 DEF CollectionInv

(* An edit of the bundle that is finished.                                      *)
LEMMA EditKept ==
  ASSUME CollectionInv, phase = "done", verdict = "none", edits' = edits + 1,
         UNCHANGED <<phase, plan, next, results, worker, collected, issued, verdict>>,
         IsBundle(bundle)',
         \A i \in 1..(Len(Plan) + Len(plan)) : Edited(bundle'.sources[i], issued.sources[i])
  PROVE  CollectionInv'
<1>1. PlanInv' /\ CollectedInv'
  BY DEF CollectionInv, PlanInv, CollectedInv
<1>2. SlotsInv'
  BY DEF CollectionInv, SlotsInv, Below, AllStopped
<1>3. IssuedInv'
  BY Zenon DEF CollectionInv, BundleInv, IssuedInv, IsBundle
<1>4. edits' \in Nat /\ edits' # 0
  BY DEF CollectionInv, BundleInv
<1>5. BundleInv'
  BY <1>3, <1>4 DEF BundleInv
<1> QED
  BY <1>1, <1>2, <1>5 DEF CollectionInv

(* A source in the place of another.                                            *)
LEMMA SourceEdited ==
  ASSUME phase = "done", BundleInv, NEW i \in 1..(Len(Plan) + Len(plan)), NEW y, Edited(y, issued.sources[i]),
         DOMAIN bundle' = DOMAIN bundle, bundle'.sources = [bundle.sources EXCEPT ![i] = y], UNCHANGED plan
  PROVE  /\ IsBundle(bundle)'
         /\ \A k \in 1..(Len(Plan) + Len(plan)) : Edited(bundle'.sources[k], issued.sources[k])
<1> DEFINE n == Len(Plan) + Len(plan)
           edited == [bundle.sources EXCEPT ![i] = y]
<1>1. IsBundle(bundle) /\ \A k \in 1..n : Edited(bundle.sources[k], issued.sources[k])
  BY DEF BundleInv
<1>2. bundle.sources = [k \in 1..n |-> bundle.sources[k]]
  BY <1>1, Zenon DEF IsBundle, IsList
<1> HIDE DEF n
<1>3. edited = [k \in 1..n |-> IF k = i THEN y ELSE bundle.sources[k]]
  BY <1>2
<1> HIDE DEF edited
<1>4. IsList(edited, n)
  BY <1>3 DEF IsList
<1>5. IsBundle(bundle)'
  BY <1>1, <1>4, Zenon DEF IsBundle, n, edited
<1>6. ASSUME NEW k \in 1..n
      PROVE  Edited(edited[k], issued.sources[k])
  <2>1. edited[k] = IF k = i THEN y ELSE bundle.sources[k]
    BY <1>3
  <2> QED
    BY <1>1, <2>1
<1> QED
  BY <1>5, <1>6, Zenon DEF n, edited

(* What is done to one source.                                                  *)
LEMMA OneEdited ==
  ASSUME phase = "done", BundleInv, NEW i \in 1..(Len(Plan) + Len(plan)), EditAnswer(i) \/ EditRequest(i)
  PROVE  \E y : /\ Edited(y, issued.sources[i]) /\ DOMAIN bundle' = DOMAIN bundle
                /\ bundle'.sources = [bundle.sources EXCEPT ![i] = y]
<1> DEFINE n == Len(Plan) + Len(plan)
           x == bundle.sources[i]
<1>1. IsBundle(bundle) /\ Edited(x, issued.sources[i])
  BY DEF BundleInv
<1>2. "sources" \in DOMAIN bundle /\ i \in DOMAIN bundle.sources
  <2>1. bundle.sources = [k \in 1..n |-> bundle.sources[k]]
    BY <1>1, Zenon DEF IsBundle, IsList
  <2>2. i \in 1..n
    OBVIOUS
  <2> HIDE DEF n
  <2>3. i \in DOMAIN bundle.sources
    BY <2>1, <2>2
  <2> QED
    BY <1>1, <2>3 DEF IsBundle
<1>3. /\ DOMAIN x = {"request", "unavailable", "body", "digest"} /\ DOMAIN x.request = {"kind", "of"}
      /\ x.unavailable \in BOOLEAN /\ x.request.kind \in {issued.sources[i].request.kind, "other"}
      /\ x.body = Null \/ x.body \in Bodies[issued.sources[i].request.kind]
  BY <1>1 DEF Edited, IsSource
<1> HIDE DEF n
<1>4. CASE EditAnswer(i)
  <2>1. PICK body \in Bodies[issued.sources[i].request.kind] \cup {Null}, unavailable \in BOOLEAN :
          \E digest \in {body, x.digest} :
            bundle' = [bundle EXCEPT !.sources[i] =
                         [request |-> @.request, unavailable |-> unavailable, body |-> body, digest |-> digest]]
    BY <1>4 DEF EditAnswer
  <2>2. PICK digest : bundle' = [bundle EXCEPT !.sources[i] =
                         [request |-> @.request, unavailable |-> unavailable, body |-> body, digest |-> digest]]
    BY <2>1
  <2> DEFINE y == [request |-> x.request, unavailable |-> unavailable, body |-> body, digest |-> digest]
  <2>3. Edited(y, issued.sources[i])
    BY <1>3, <2>1 DEF Edited, IsSource
  <2>4. DOMAIN bundle' = DOMAIN bundle /\ bundle'.sources = [bundle.sources EXCEPT ![i] = y]
    BY <1>2, <2>2
  <2> QED
    BY <2>3, <2>4
<1>5. CASE bundle' = [bundle EXCEPT !.sources[i].request.kind = "other"]
  <2> DEFINE y == [x EXCEPT !.request.kind = "other"]
  <2>1. Edited(y, issued.sources[i])
    BY <1>3 DEF Edited, IsSource
  <2>2. DOMAIN bundle' = DOMAIN bundle /\ bundle'.sources = [bundle.sources EXCEPT ![i] = y]
    BY <1>2, <1>5
  <2> QED
    BY <2>1, <2>2
<1>6. CASE \E of : bundle' = [bundle EXCEPT !.sources[i].request.of = of]
  <2>1. PICK of : bundle' = [bundle EXCEPT !.sources[i].request.of = of]
    BY <1>6
  <2> DEFINE y == [x EXCEPT !.request.of = of]
  <2>2. Edited(y, issued.sources[i])
    BY <1>3 DEF Edited, IsSource
  <2>3. DOMAIN bundle' = DOMAIN bundle /\ bundle'.sources = [bundle.sources EXCEPT ![i] = y]
    BY <1>2, <2>1
  <2> QED
    BY <2>2, <2>3
<1> QED
  BY <1>4, <1>5, <1>6, Zenon DEF EditRequest

(* What else an edit may touch.                                                 *)
LEMMA RestEdited ==
  ASSUME BundleInv, phase = "done", DOMAIN bundle' = DOMAIN bundle, bundle'.sources = bundle.sources, UNCHANGED plan
  PROVE  /\ IsBundle(bundle)'
         /\ \A k \in 1..(Len(Plan) + Len(plan)) : Edited(bundle'.sources[k], issued.sources[k])
<1>1. IsBundle(bundle) /\ \A k \in 1..(Len(Plan) + Len(plan)) : Edited(bundle.sources[k], issued.sources[k])
  BY DEF BundleInv
<1>2. IsBundle(bundle)'
  BY <1>1, Zenon DEF IsBundle
<1> QED
  BY <1>1, <1>2, Zenon

LEMMA EditInv ==
  ASSUME CollectionInv, Edit
  PROVE  CollectionInv'
<1> DEFINE n == Len(Plan) + Len(plan)
<1>1. /\ phase = "done" /\ verdict = "none" /\ edits' = edits + 1
      /\ UNCHANGED <<phase, plan, next, results, worker, collected, issued, verdict>>
  BY DEF Edit
<1>2. BundleInv
  BY DEF CollectionInv
<1>3. IsBundle(bundle) /\ DOMAIN bundle.sources = 1..n
  <2>1. IsBundle(bundle)
    BY <1>1, <1>2 DEF BundleInv
  <2>2. bundle.sources = [k \in 1..n |-> bundle.sources[k]]
    BY <2>1, Zenon DEF IsBundle, IsList
  <2> QED
    BY <2>1, <2>2
<1>4. DOMAIN bundle = {"schema", "derivationId", "subject", "window", "sources", "claims", "repeated"}
  BY <1>3, Zenon DEF IsBundle
<1>5. /\ IsBundle(bundle)'
      /\ \A k \in 1..(Len(Plan) + Len(plan)) : Edited(bundle'.sources[k], issued.sources[k])
  <2>1. CASE \E i \in DOMAIN bundle.sources : EditAnswer(i) \/ EditRequest(i)
    <3>1. PICK i \in 1..n : EditAnswer(i) \/ EditRequest(i)
      BY <1>3, <2>1, Zenon
    <3>2. PICK y : /\ Edited(y, issued.sources[i]) /\ DOMAIN bundle' = DOMAIN bundle
                   /\ bundle'.sources = [bundle.sources EXCEPT ![i] = y]
      BY <1>1, <1>2, <3>1, OneEdited, Zenon
    <3> QED
      BY <1>1, <1>2, <3>2, SourceEdited, Zenon
  <2> HIDE DEF n
  <2>2. CASE EditFrame
    <3>1. DOMAIN bundle' = DOMAIN bundle /\ bundle'.sources = bundle.sources
      BY <1>4, <2>2 DEF EditFrame
    <3> QED
      BY <1>1, <1>2, <3>1, RestEdited
  <2>3. CASE \E c \in bundle.claims : EditClaim(c)
    <3>1. DOMAIN bundle' = DOMAIN bundle /\ bundle'.sources = bundle.sources
      BY <1>4, <2>3 DEF EditClaim, Replace
    <3> QED
      BY <1>1, <1>2, <3>1, RestEdited
  <2>4. CASE \E id \in ClaimIds \ ClaimsMade : InventClaim(id)
    <3>1. DOMAIN bundle' = DOMAIN bundle /\ bundle'.sources = bundle.sources
      BY <1>4, <2>4 DEF InventClaim, Replace
    <3> QED
      BY <1>1, <1>2, <3>1, RestEdited
  <2> QED
    BY <2>1, <2>2, <2>3, <2>4, Zenon DEF Edit
<1> QED
  BY <1>1, <1>5, EditKept

LEMMA VerifyBundleInv ==
  ASSUME CollectionInv, VerifyBundle
  PROVE  CollectionInv'
<1>1. /\ phase = "done" /\ verdict = "none" /\ verdict' = IF verifyClaims(bundle) THEN "ok" ELSE "mismatch"
      /\ UNCHANGED <<phase, plan, next, results, worker, collected, bundle, issued, edits>>
  BY DEF VerifyBundle
<1>2. PlanInv' /\ CollectedInv'
  BY <1>1 DEF CollectionInv, PlanInv, CollectedInv
<1>3. SlotsInv'
  BY <1>1 DEF CollectionInv, SlotsInv, Below, AllStopped
<1>4. IssuedInv' /\ IsBundle(bundle)'
  BY <1>1, Zenon DEF CollectionInv, BundleInv, IssuedInv, IsBundle
<1>5. BundleInv'
  BY <1>1, <1>4 DEF CollectionInv, BundleInv
<1> QED
  BY <1>2, <1>3, <1>5 DEF CollectionInv

LEMMA CollectionInitInv == CollectionInit => CollectionInv
<1> SUFFICES ASSUME CollectionInit
             PROVE  CollectionInv
  OBVIOUS
<1>1. /\ phase = "planned" /\ plan = Plan /\ edits = 0 /\ verdict = "none"
  BY DEF CollectionInit
<1>2. Begun(Plan, next, results, worker)
  BY DEF CollectionInit, Begun
<1>3. PlanInv
  BY <1>1, PlanIsList DEF PlanInv, Phases
<1>4. SlotsInv
  <2>1. Len(Plan) \in Nat
    BY PlanIsList
  <2> QED
    BY <1>1, <1>2, <2>1, BegunSlots DEF SlotsInv, Below
<1>5. CollectedInv
  BY <1>1 DEF CollectedInv
<1>6. BundleInv
  BY <1>1 DEF BundleInv
<1> QED
  BY <1>3, <1>4, <1>5, <1>6 DEF CollectionInv

\* Wherever the workers of runPlan (collect.ts:198-234) are, a slot below the
\* counter is at a worker or holds the source of its own request; a bundle as it
\* was issued has the requests of the plan, and edits leave in each place a body
\* of the endpoint that was asked there, or none.
THEOREM CollectionInvariant == CollectionSpec => []CollectionInv
<1>1. CollectionInv /\ [CollectionNext]_collectionVars => CollectionInv'
  <2> SUFFICES ASSUME CollectionInv, [CollectionNext]_collectionVars
               PROVE  CollectionInv'
    OBVIOUS
  <2>1. CASE \E w \in Workers : Work(w)
    <3>1. PICK w \in Workers : Work(w)
      BY <2>1
    <3>2. CASE answered(w) \/ refused(w)
      BY <3>2, AnsweredInv
    <3>3. CASE unanswered(w)
      BY <3>3, UnansweredInv
    <3>4. CASE retry(w)
      BY <3>4, RetryInv
    <3>5. CASE unreadable(w)
      BY <3>5, UnreadableInv
    <3> QED
      BY <3>1, <3>2, <3>3, <3>4, <3>5 DEF Work
  <2>2. CASE Rank
    BY <2>2, RankInv
  <2>3. CASE Assemble
    BY <2>3, AssembleInv
  <2>4. CASE Edit
    BY <2>4, EditInv
  <2>5. CASE VerifyBundle
    BY <2>5, VerifyBundleInv
  <2>6. CASE UNCHANGED collectionVars
    <3>1. UNCHANGED <<phase, plan, next, results, worker, collected, bundle, issued, edits, verdict>>
      BY <2>6 DEF collectionVars
    <3>2. PlanInv' /\ CollectedInv'
      BY <3>1 DEF CollectionInv, PlanInv, CollectedInv
    <3>3. SlotsInv'
      BY <3>1 DEF CollectionInv, SlotsInv, Below, AllStopped
    <3>4. IssuedInv' = IssuedInv /\ IsBundle(bundle)' = IsBundle(bundle)
      BY <3>1, Zenon DEF IssuedInv, IsBundle
    <3>5. BundleInv'
      BY <3>1, <3>4 DEF CollectionInv, BundleInv
    <3> QED
      BY <3>2, <3>3, <3>5 DEF CollectionInv
  <2> QED
    BY <2>1, <2>2, <2>3, <2>4, <2>5, <2>6 DEF CollectionNext
<1> QED
  BY <1>1, CollectionInitInv, PTL DEF CollectionSpec

(* Two bundles with the sources of one have the digests of one: the bundle as   *)
(* it was issued passes.                                                        *)
LEMMA IssuedPasses ==
  ASSUME IssuedInv
  PROVE  verifyClaims(issued)
<1> DEFINE n == Len(Plan) + Len(plan)
<1>1. DOMAIN issued.sources = 1..n
  <2>1. issued.sources = [k \in 1..n |-> issued.sources[k]]
    BY Zenon DEF IssuedInv, IsBundle, IsList
  <2> QED
    BY <2>1
<1>2. \A i \in 1..n : GoodSource(issued.sources[i], (Plan \o plan)[i])
  BY Zenon DEF IssuedInv
<1> HIDE DEF n
<1>3. digestsHold(issued.sources)
  BY <1>1, <1>2 DEF digestsHold, GoodSource, IsSource
<1> QED
  BY <1>3, Zenon DEF verifyClaims, IssuedInv

\* verifyClaims() (verify.ts:23-81): a bundle passes as it was issued. One that
\* passes after any number of edits has no response but under another digest than
\* it was issued with, or the response it was issued with; and where its sources
\* and its window are the issued ones, so are its claims.
THEOREM EditsSeen == CollectionSpec => []EditsAreSeen
<1>1. CollectionInv => EditsAreSeen
  <2> SUFFICES ASSUME CollectionInv
               PROVE  EditsAreSeen
    OBVIOUS
  <2> DEFINE n == Len(Plan) + Len(plan)
  <2>1. BundleInv
    BY DEF CollectionInv
  <2>2. ASSUME verdict # "none"
        PROVE  phase = "done" /\ IssuedInv /\ IsBundle(bundle)
    BY <2>1, <2>2 DEF BundleInv
  <2>3. ASSUME verdict = "ok"
        PROVE  /\ bundle.schema = "ours" /\ bundle.derivationId = "ours"
               /\ \A i \in DOMAIN bundle.sources :
                    \/ bundle.sources[i].body \in {issued.sources[i].body, Null}
                    \/ bundle.sources[i].digest # issued.sources[i].digest
               /\ bundle.sources = issued.sources /\ bundle.window = issued.window => bundle.claims = issued.claims
    <3>1. phase = "done" /\ IssuedInv /\ IsBundle(bundle)
      BY <2>2, <2>3
    <3>2. verifyClaims(bundle)
      BY <2>1, <2>3, <3>1 DEF BundleInv
    <3>3. DOMAIN bundle.sources = 1..n /\ \A i \in 1..n : GoodSource(issued.sources[i], (Plan \o plan)[i])
      <4>1. bundle.sources = [k \in 1..n |-> bundle.sources[k]]
        BY <3>1, Zenon DEF IsBundle, IsList
      <4>2. DOMAIN bundle.sources = 1..n
        BY <4>1
      <4> QED
        BY <3>1, <4>2, Zenon DEF IssuedInv
    <3> HIDE DEF n
    <3>4. digestsHold(bundle.sources)
      BY <3>2, Zenon DEF verifyClaims
    <3>5. ASSUME NEW i \in DOMAIN bundle.sources
          PROVE  \/ bundle.sources[i].body \in {issued.sources[i].body, Null}
                 \/ bundle.sources[i].digest # issued.sources[i].digest
      <4>1. bundle.sources[i].body = Null \/ bundle.sources[i].digest = bundle.sources[i].body
        BY <3>4 DEF digestsHold
      <4>2. issued.sources[i].digest \in {issued.sources[i].body, Null}
        BY <3>3 DEF GoodSource, IsSource
      <4> QED
        BY <4>1, <4>2
    <3>6. bundle.sources = issued.sources /\ bundle.window = issued.window => bundle.claims = issued.claims
      BY <3>1, <3>2, Zenon DEF verifyClaims, IssuedInv
    <3>7. bundle.schema = "ours" /\ bundle.derivationId = "ours"
      BY <3>2, Zenon DEF verifyClaims
    <3> QED
      BY <3>5, <3>6, <3>7
  <2>4. ASSUME verdict = "mismatch"
        PROVE  edits > 0
    <3>1. phase = "done" /\ IssuedInv
      BY <2>2, <2>4
    <3>2. ~verifyClaims(bundle)
      BY <2>1, <2>4, <3>1 DEF BundleInv
    <3>3. edits # 0
      BY <2>1, <3>1, <3>2, IssuedPasses DEF BundleInv
    <3> QED
      BY <2>1, <3>3 DEF BundleInv
  <2> QED
    BY <2>3, <2>4 DEF EditsAreSeen
<1> QED
  BY <1>1, CollectionInvariant, PTL

\* packages/evidence/src/collect.ts:207: the sources of a new bundle stand in the
\* order of the plan, the lookups behind it, each request once, in whatever order
\* they settled: the position by which a claim cites a source is a fact of the
\* two plans and not of the schedule.
SourcesInPlanOrder ==
  phase = "done" => [i \in DOMAIN issued.sources |-> issued.sources[i].request] = Plan \o plan

\* runPlan() (collect.ts:203-233): the sources of a new bundle stand in the order of
\* the plan and of the lookups behind it, each request once, in whatever order
\* they were settled.
THEOREM SourcesOrdered == CollectionSpec => []SourcesInPlanOrder
<1>1. CollectionInv => SourcesInPlanOrder
  <2> SUFFICES ASSUME CollectionInv, phase = "done"
               PROVE  [i \in DOMAIN issued.sources |-> issued.sources[i].request] = Plan \o plan
    BY DEF SourcesInPlanOrder
  <2> DEFINE n == Len(Plan) + Len(plan)
             p == Plan \o plan
  <2>1. PlanInv /\ BundleInv
    BY DEF CollectionInv
  <2>2. Len(Plan) \in Nat /\ Len(plan) \in Nat /\ IsList(Plan, Len(Plan)) /\ IsList(plan, Len(plan))
    BY <2>1, PlanIsList, Zenon DEF PlanInv
  <2>3. IsList(p, n)
    BY <2>2, ListsJoined, Zenon DEF Joins
  <2>4. IssuedInv
    BY <2>1 DEF BundleInv
  <2>5. \A i \in 1..n : issued.sources[i].request = p[i]
    BY <2>4, Zenon DEF IssuedInv, GoodSource
  <2>6. issued.sources = [i \in 1..n |-> issued.sources[i]]
    BY <2>4, Zenon DEF IssuedInv, IsBundle, IsList
  <2>7. p = [i \in 1..n |-> p[i]]
    BY <2>3, Zenon DEF IsList
  <2> HIDE DEF n, p
  <2>8. DOMAIN issued.sources = 1..n
    BY <2>6
  <2>10. [i \in DOMAIN issued.sources |-> issued.sources[i].request] = [i \in 1..n |-> p[i]]
    BY <2>5, <2>8
  <2> QED
    BY <2>7, <2>10, Zenon DEF p
<1> QED
  BY <1>1, CollectionInvariant, PTL
------------------------------------------------------------------------------
(* What the claims cite.                                                        *)

HasBody(sources, i) == i \in DOMAIN sources /\ ~sources[i].unavailable /\ sources[i].body # Null

LEMMA SmallestOf ==
  ASSUME NEW T \in SUBSET Nat, T # {}
  PROVE  \E x \in T : \A y \in T : x =< y
<1>1. \E x \in T : \A y \in T : ~(<<y, x>> \in OpToRel(<, Nat))
  BY WFMin, NatLessThanWellFounded, Zenon
<1>2. PICK x \in T : \A y \in T : ~(<<y, x>> \in OpToRel(<, Nat))
  BY <1>1
<1>3. ASSUME NEW y \in T
      PROVE  x =< y
  <2>1. ~(y < x)
    BY <1>2, x \in Nat, y \in Nat, Zenon DEF OpToRel
  <2> QED
    BY <2>1, x \in Nat, y \in Nat
<1> QED
  BY <1>3

(* Of finitely many numbers one is the least, and one the greatest.             *)
LEMMA LeastIndex ==
  ASSUME NEW n \in Nat, NEW S \in SUBSET (1..n), S # {}, NEW f, \A i \in S : f[i] \in Int
  PROVE  Min({f[i] : i \in S}) \in {f[i] : i \in S}
<1> DEFINE upto(k) == {i \in S : i =< k}
           least(k) == \E x \in upto(k) : \A y \in upto(k) : f[x] =< f[y]
           bad == {k \in 1..n : upto(k) # {} /\ ~least(k)}
<1>0. \A i \in S : i \in 1..n
  OBVIOUS
<1>1. bad = {}
  <2> SUFFICES ASSUME bad # {}
               PROVE  FALSE
    OBVIOUS
  <2>1. PICK k \in bad : \A j \in bad : k =< j
    <3>1. bad \in SUBSET Nat
      OBVIOUS
    <3> HIDE DEF bad
    <3> QED
      BY <3>1, SmallestOf
  <2>2. k \in 1..n /\ upto(k) # {} /\ ~least(k)
    BY <2>1
  <2>3. CASE upto(k - 1) = {}
    <3>1. \A i \in upto(k) : i = k
      <4>1. \A i \in S : ~(i =< k - 1)
        BY <2>3
      <4> QED
        BY <1>0, <2>2, <4>1
    <3>2. \A x, y \in upto(k) : f[x] =< f[y]
      BY <3>1
    <3> QED
      BY <2>2, <3>2
  <2>4. CASE upto(k - 1) # {}
    <3>1. k - 1 \in 1..n /\ k - 1 < k
      <4>1. PICK i \in S : i =< k - 1
        BY <2>4
      <4> QED
        BY <1>0, <2>2, <4>1
    <3>2. k - 1 \notin bad
      BY <2>1, <3>1
    <3>3. least(k - 1)
      BY <2>4, <3>1, <3>2
    <3>4. PICK x \in upto(k - 1) : \A y \in upto(k - 1) : f[x] =< f[y]
      BY <3>3
    <3>5. upto(k) \subseteq upto(k - 1) \cup {k} /\ x \in upto(k) /\ f[x] \in Int
      <4>1. \A i \in S : i =< k => i =< k - 1 \/ i = k
        BY <1>0, <2>2
      <4>2. x \in S /\ x =< k - 1 /\ x =< k
        BY <1>0, <2>2
      <4> QED
        BY <4>1, <4>2
    <3>6. CASE k \in S /\ f[k] =< f[x]
      <4>1. \A y \in upto(k) : f[k] =< f[y]
        BY <3>4, <3>5, <3>6
      <4> QED
        BY <2>2, <3>6, <4>1
    <3>7. CASE ~(k \in S /\ f[k] =< f[x])
      <4>1. \A y \in upto(k) : f[x] =< f[y]
        BY <2>2, <3>4, <3>5, <3>7
      <4> QED
        BY <2>2, <3>5, <4>1
    <3> QED
      BY <3>6, <3>7
  <2> QED
    BY <2>3, <2>4
<1>2. n \in 1..n /\ upto(n) = S
  <2>1. PICK i \in S : TRUE
    OBVIOUS
  <2>2. n \in 1..n
    BY <1>0, <2>1
  <2>3. \A j \in S : j =< n
    BY <1>0
  <2> QED
    BY <2>2, <2>3
<1>3. least(n)
  BY <1>1, <1>2
<1>4. \E v \in {f[i] : i \in S} : \A w \in {f[i] : i \in S} : v =< w
  BY <1>2, <1>3
<1> QED
  BY <1>4, Zenon DEF Min

LEMMA GreatestOf ==
  ASSUME NEW n \in Nat, NEW S \in SUBSET (1..n), S # {}
  PROVE  Max(S) \in S
<1> DEFINE T == {k \in Nat : n - k \in S}
<1>1. PICK i \in S : TRUE
  OBVIOUS
<1>2. n - i \in T
  BY <1>1
<1>3. PICK x \in T : \A y \in T : x =< y
  BY <1>2, SmallestOf
<1>4. ASSUME NEW y \in S
      PROVE  n - x >= y
  <2>1. n - y \in T
    OBVIOUS
  <2> QED
    BY <1>3, <2>1
<1>5. \E v \in S : \A w \in S : v >= w
  BY <1>3, <1>4
<1> QED
  BY <1>5, Zenon DEF Max

(* Every metric cites sources that answered: all of a kind that is usable, one   *)
(* for an asset that has a reading, or the one with the oldest funding.         *)
LEMMA MetricsCite ==
  ASSUME NEW sources, NEW n \in Nat, DOMAIN sources = 1..n,
         \A i \in usable(sources, "funding") : sources[i].body.date \in Int \cup {Null},
         NEW window, NEW m \in deriveMetrics(sources, window)
  PROVE  \A i \in m.sources : HasBody(sources, i)
<1> DEFINE
      histories == usable(sources, "history")
      closed == counted(sources, window)
      assets == {p[2].asset : p \in closed}
      volumeOf(a) == MapThenSumSet(LAMBDA p : p[2].volume, {p \in closed : p[2].asset = a})
      volume == MapThenSumSet(LAMBDA p : p[2].volume, closed)
      held == {p \in closed : p[2].entry # Null /\ p[2].entry =< p[2].exit}
      sampled(i) == {t \in sources[i].body : InWindow(t.date, window)}
      traded == {i \in usable(sources, "trades") : sampled(i) # {}}
      fees == MapThenSumSet(LAMBDA i : MapThenSumSet(LAMBDA t : t.total, sampled(i)), traded)
      mev == MapThenSumSet(LAMBDA i : MapThenSumSet(LAMBDA t : t.mev, sampled(i)), traded)
      security == securityByAsset(sources)
      scored == {a \in assets \cap DOMAIN security : sources[security[a]].body.score # Null}
      risky == {a \in scored : LET s == sources[security[a]].body IN s.killed \/ s.score < Floor}
      funded == {i \in usable(sources, "funding") : sources[i].body.date # Null}
      oldest == Min({sources[i].body.date : i \in funded})
      first == Min({i \in funded : sources[i].body.date = oldest})
      pnl == <<MapThenSumSet(LAMBDA p : p[2].pnl, closed), 1>>
      won == <<Cardinality({p \in closed : p[2].pnl > 0}), Cardinality(closed)>>
      drawn == <<maxDrawdown(closed), 1>>
      holding == median(held)
      costs == <<MapThenSumSet(LAMBDA p : p[2].fees, closed), volume>>
      largest == <<Max({volumeOf(a) : a \in assets}), volume>>
      risk == <<Cardinality(risky), Cardinality(scored)>>
      m1 == Measured("realized-pnl-usd", histories # {}, pnl, histories)
      m2 == Measured("closed-position-cycles", histories # {}, <<Cardinality(closed), 1>>, histories)
      m3 == Measured("win-rate", closed # {}, won, histories)
      m4 == Measured("max-drawdown-usd", closed # {}, drawn, histories)
      m5 == Measured("median-holding-period-days", held # {}, holding, histories)
      m6 == Measured("trading-cost-ratio", volume > 0, costs, histories)
      m7 == Measured("mev-fee-share", fees > 0, <<mev, fees>>, traded)
      m8 == Measured("risk-quality-ratio", scored # {}, risk, {security[a] : a \in scored})
      m9 == Measured("position-concentration", volume > 0, largest, histories)
      m10 == Measured("wallet-age-days", funded # {}, <<window.to - oldest, 1>>, {first})
      metrics == UNION {m1, m2, m3, m4, m5, m6, m7, m8, m9, m10}
<1>1. deriveMetrics(sources, window) = metrics
  BY DEF deriveMetrics
<1> HIDE DEF histories, closed, held, volume, fees, mev, traded, security, scored, funded, oldest, first,
             pnl, won, drawn, holding, costs, largest, risk, m1, m2, m3, m4, m5, m6, m7, m8, m9, m10
<1>2. \/ m.sources = histories \/ m.sources = traded
      \/ m.sources = {security[a] : a \in scored}
      \/ m.sources = {first} /\ funded # {}
  <2>1. m \in metrics
    BY <1>1
  <2>2. m \in m1 \/ m \in m2 \/ m \in m3 \/ m \in m4 \/ m \in m5 \/ m \in m6 \/ m \in m7 \/ m \in m8 \/ m \in m9
        \/ m \in m10
    BY <2>1
  <2>3. m \in m1 \/ m \in m2 \/ m \in m3 => m.sources = histories
    BY DEF m1, m2, m3, Measured
  <2>4. m \in m4 \/ m \in m5 \/ m \in m6 \/ m \in m9 => m.sources = histories
    BY DEF m4, m5, m6, m9, Measured
  <2>5. m \in m7 => m.sources = traded
    BY DEF m7, Measured
  <2>6. m \in m8 => m.sources = {security[a] : a \in scored}
    BY DEF m8, Measured
  <2>7. m \in m10 => m.sources = {first} /\ funded # {}
    BY DEF m10, Measured
  <2> QED
    BY <2>2, <2>3, <2>4, <2>5, <2>6, <2>7
<1>3. \A kind : usable(sources, kind) \subseteq 1..n /\ \A i \in usable(sources, kind) : HasBody(sources, i)
  BY DEF usable, HasBody
<1>4. \A i \in histories \cup traded \cup funded : HasBody(sources, i)
  BY <1>3 DEF histories, traded, funded
<1>5. ASSUME NEW a \in scored
      PROVE  HasBody(sources, security[a])
  <2> DEFINE S == {i \in usable(sources, "security") : ratedAsset(sources[i]) = a}
  <2>1. a \in {ratedAsset(sources[i]) : i \in usable(sources, "security")} /\ security[a] = Max(S)
    BY DEF scored, security, securityByAsset
  <2>2. S \in SUBSET (1..n) /\ S # {}
    BY <1>3, <2>1
  <2> HIDE DEF S
  <2>3. Max(S) \in S
    BY <2>2, GreatestOf
  <2> QED
    BY <1>3, <2>1, <2>3 DEF S
<1>6. ASSUME funded # {}
      PROVE  first \in funded
  <2> DEFINE date == [i \in funded |-> sources[i].body.date]
             T == {i \in funded : sources[i].body.date = oldest}
  <2>1. funded \in SUBSET (1..n) /\ \A i \in funded : sources[i].body.date \in Int
    BY <1>3 DEF funded
  <2>2. oldest \in {sources[i].body.date : i \in funded}
    <3>1. Min({date[i] : i \in funded}) \in {date[i] : i \in funded}
      <4>1. \A i \in funded : date[i] \in Int
        BY <2>1
      <4> HIDE DEF date
      <4> QED
        BY <1>6, <2>1, <4>1, LeastIndex
    <3>2. {date[i] : i \in funded} = {sources[i].body.date : i \in funded}
      OBVIOUS
    <3> QED
      BY <3>1, <3>2 DEF oldest
  <2>3. T # {} /\ T \in SUBSET Nat
    <3>1. PICK i \in funded : sources[i].body.date = oldest
      BY <2>2
    <3>2. i \in T
      BY <3>1
    <3>3. \A j \in 1..n : j \in Nat
      OBVIOUS
    <3> QED
      BY <2>1, <3>2, <3>3
  <2> HIDE DEF T
  <2>4. PICK x \in T : \A y \in T : x =< y
    BY <2>3, SmallestOf
  <2>5. Min(T) \in T
    BY <2>4, Zenon DEF Min
  <2> QED
    BY <2>5 DEF T, first
<1> QED
  BY <1>2, <1>4, <1>5, <1>6

\* deriveClaims() (derive.ts:555-606), packages/evidence/README.md:26: a claim of
\* a bundle as it was made, or of one that a reader confirmed after any edits,
\* cites only responses that are there, each with its digest: none that failed,
\* and no place beyond the bundle.
CitesWhatAnswered ==
  phase = "done" /\ (edits = 0 \/ verdict = "ok") =>
    \A c \in bundle.claims : \A i \in c.sources :
      HasBody(bundle.sources, i) /\ bundle.sources[i].digest = bundle.sources[i].body

THEOREM ClaimsCiteAnswers == CollectionSpec => []CitesWhatAnswered
<1>1. CollectionInv => CitesWhatAnswered
  <2> SUFFICES ASSUME CollectionInv, phase = "done", edits = 0 \/ verdict = "ok",
                      NEW c \in bundle.claims, NEW i \in c.sources
               PROVE  HasBody(bundle.sources, i) /\ bundle.sources[i].digest = bundle.sources[i].body
    BY DEF CitesWhatAnswered
  <2> DEFINE n == Len(Plan) + Len(plan)
             sources == bundle.sources
  <2>1. PlanInv /\ BundleInv
    BY DEF CollectionInv
  <2>2. IssuedInv /\ IsBundle(bundle) /\ \A k \in 1..n : Edited(sources[k], issued.sources[k])
    BY <2>1 DEF BundleInv
  <2>3. verifyClaims(bundle)
    BY <2>1, <2>2, IssuedPasses DEF BundleInv
  <2>4. n \in Nat /\ DOMAIN sources = 1..n
    <3>1. Len(Plan) \in Nat /\ Len(plan) \in Nat
      BY <2>1, PlanIsList, Zenon DEF PlanInv
    <3>2. sources = [k \in 1..n |-> sources[k]]
      BY <2>2, Zenon DEF IsBundle, IsList
    <3> HIDE DEF sources
    <3> QED
      BY <3>1, <3>2
  <2>5. \A k \in 1..n : GoodSource(issued.sources[k], (Plan \o plan)[k])
    BY <2>2, Zenon DEF IssuedInv
  <2>6. digestsHold(sources) /\ bundle.claims = deriveClaims(sources, bundle.window)
    BY <2>3, Zenon DEF verifyClaims
  <2> HIDE DEF n, sources
  <2>7. \A k \in usable(sources, "funding") : sources[k].body.date \in Int \cup {Null}
    <3> SUFFICES ASSUME NEW k \in usable(sources, "funding")
                 PROVE  sources[k].body.date \in Int \cup {Null}
      OBVIOUS
    <3>1. k \in 1..n /\ sources[k].request.kind = "funding" /\ sources[k].body # Null
      BY <2>4 DEF usable
    <3>2. Edited(sources[k], issued.sources[k])
      BY <2>2, <3>1
    <3>3. sources[k].body \in Bodies["funding"]
      BY <3>1, <3>2, "funding" # "other" DEF Edited
    <3> QED
      BY <3>3, BodiesAssumption
  <2>8. PICK m \in deriveMetrics(sources, bundle.window) : c.sources = m.sources
    BY <2>6 DEF deriveClaims
  <2>9. HasBody(sources, i)
    BY <2>4, <2>7, <2>8, MetricsCite
  <2>10. sources[i].digest = sources[i].body
    BY <2>6, <2>9 DEF HasBody, digestsHold
  <2> QED
    BY <2>9, <2>10 DEF sources
<1> QED
  BY <1>1, CollectionInvariant, PTL
------------------------------------------------------------------------------
(* The Solana anchor. The account is shared and a transaction does not name     *)
(* what it closes, so everything hangs on who can still change it. A            *)
(* transaction whose caller was told how it ended, or gave up at the deadline,  *)
(* cannot run any more (CallOK); so while calls are begun one after the other,  *)
(* the one that is not settled is alone, and the account is as that call found  *)
(* or left it (AloneInv).                                                       *)

CallOK(call) ==
  /\ call.phase = "new" => call = NewCall
  /\ call.phase # "new" =>
       /\ call.input \in Input
       /\ call.input.kind \in {"revoke", "close"} /\ call.answer # "refused" =>
            /\ call.seen \in Attestation
            /\ call.input.referenceId # None => call.seen.referenceId = call.input.referenceId
            /\ call.input.kind = "close" => Lapsed(call.seen, now)
       /\ call.input.kind # "setup" /\ call.answer # "refused" => Setup \subseteq accounts
  /\ call.phase # "done" => call.answer = "none"
  /\ call.phase \in {"built", "signed"} => call.tx = "none"
  /\ call.signedAt =< now
  /\ call.phase = "sent" => call.deadline >= call.signedAt + Lifetime
  /\ call.answer = "refused" => call.tx = "none"
  /\ call.phase = "done" /\ call.tx = "pending" /\ call.answer \notin {"rejected", "unheard"}
       => now >= call.signedAt + Lifetime

(* What a call that is not settled may still find in the account.             *)
Holds(call) ==
  IF call.input.kind = "issue"
    THEN /\ call.input.data.referenceId \notin withdrawn
         /\ call.tx = "landed" => attestation = call.input.data
    ELSE /\ call.tx \in {"none", "pending"} => attestation = call.seen
         /\ call.tx = "landed" => attestation = None

VerifyOK(v) ==
  /\ v.phase = "new" => v = NewVerification
  /\ v.phase # "new" => v.asked # None
  /\ v.afterClose => v.asked.referenceId \in withdrawn /\ v.schema \in {None, "live", "paused"}
  /\ ~raced /\ v.afterClose /\ v.account \in Attestation => v.account.referenceId # v.asked.referenceId

CallsInv == \A c \in Calls : CallOK(calls[c])
SetupInv == attestation # None \/ withdrawn # {} => Setup \subseteq accounts
AloneInv ==
  ~raced =>
    /\ \A c, d \in Calls : Unsettled(c) /\ Unsettled(d) => c = d
    /\ \A c \in Calls : Unsettled(c) => believed = Unknown /\ Holds(calls[c])
    /\ believed # Unknown =>
         IF attestation = None THEN believed = None ELSE believed = attestation.referenceId
    /\ \A r \in withdrawn : attestation = None \/ attestation.referenceId # r
VerifyInv == \A v \in Verifies : VerifyOK(verifies[v])

IInv == TypeOK /\ CallsInv /\ SetupInv /\ AloneInv /\ VerifyInv
------------------------------------------------------------------------------
(* What a step of one call leaves alone.                                      *)

LEMMA TimeFacts ==
  ASSUME TypeOK
  PROVE  now \in Nat /\ Lifetime \in Nat /\ ConfirmTimeout \in Nat /\ MaxTime \in Nat /\ Lifetime =< ConfirmTimeout
BY TimesAssumption DEF TypeOK

LEMMA LapsedStays ==
  ASSUME NEW a \in Attestation, NEW t \in Nat, NEW u \in Nat, t =< u, Lapsed(a, t)
  PROVE  Lapsed(a, u)
<1>1. a.expiry \in Nat
  BY TimesAssumption DEF Attestation
<1> QED
  BY <1>1 DEF Lapsed

LEMMA CallKept ==
  ASSUME TypeOK, NEW call \in Call, CallOK(call), now' \in Nat, now' >= now, accounts \subseteq accounts'
  PROVE  CallOK(call)'
<1>1. now \in Nat /\ Lifetime \in Nat /\ call.signedAt \in Nat
  BY TimeFacts DEF Call
<1>2. call.seen \in Attestation /\ Lapsed(call.seen, now) => Lapsed(call.seen, now')
  BY <1>1, LapsedStays
<1> QED
  BY <1>1, <1>2 DEF CallOK

LEMMA OneCall ==
  ASSUME TypeOK, CallsInv, NEW c \in Calls, NEW d \in Call, calls' = [calls EXCEPT ![c] = d], CallOK(d)',
         now' \in Nat, now' >= now, accounts \subseteq accounts'
  PROVE  /\ calls' \in [Calls -> Call] /\ CallsInv' /\ calls'[c] = d
         /\ \A e \in Calls : e # c => calls'[e] = calls[e]
         /\ \A e \in Calls : e # c => (Unsettled(e)' <=> Unsettled(e))
<1>1. calls \in [Calls -> Call]
  BY DEF TypeOK
<1>2. /\ calls' \in [Calls -> Call] /\ calls'[c] = d
      /\ \A e \in Calls : e # c => calls'[e] = calls[e]
  BY <1>1
<1>3. ASSUME NEW e \in Calls PROVE CallOK(calls[e])'
  <2>1. CASE e = c
    BY <1>2, <2>1
  <2>2. CASE e # c
    BY <1>1, <1>2, <2>2, CallKept DEF CallsInv
  <2> QED
    BY <2>1, <2>2
<1> QED
  BY <1>2, <1>3 DEF CallsInv, Unsettled

LEMMA VerifyKept ==
  ASSUME VerifyInv, UNCHANGED verifies, withdrawn \subseteq withdrawn', raced' = raced
  PROVE  VerifyInv'
BY DEF VerifyInv, VerifyOK

(* A transaction that can still run belongs to a call that is not settled.    *)
LEMMA AliveUnsettled ==
  ASSUME TypeOK, CallsInv, NEW c \in Calls, calls[c].tx = "pending", Alive(calls[c])
  PROVE  /\ calls[c].phase \in {"sent", "done"} /\ calls[c].input \in Input /\ calls[c].input # None
         /\ calls[c].answer # "refused"
         /\ calls[c].input.kind # "setup" => Unsettled(c)
<1>1. CallOK(calls[c]) /\ calls[c] \in Call /\ now \in Nat /\ Lifetime \in Nat /\ calls[c].signedAt \in Nat
  BY TimeFacts DEF CallsInv, TypeOK, Call
<1>2. calls[c].phase \in {"sent", "done"}
  BY <1>1 DEF CallOK, NewCall, Call
<1>3. calls[c].input \in Input /\ calls[c].input # None /\ calls[c].answer # "refused"
  BY <1>1, <1>2, ValuesAssumption DEF CallOK
<1>4. calls[c].phase = "sent" \/ calls[c].answer \in {"rejected", "unheard"}
  BY <1>1, <1>2 DEF CallOK, Alive
<1> QED
  BY <1>2, <1>3, <1>4 DEF Unsettled

LEMMA NewFacts ==
  /\ NewCall \in Call /\ NewCall.phase = "new" /\ NewCall.input = None /\ NewCall.tx = "none" /\ NewCall.answer = "none"
  /\ NewCall.signedAt = 0
  /\ NewVerification \in Verification /\ NewVerification.phase = "new" /\ ~NewVerification.afterClose
  /\ NewVerification.account = Unknown /\ NewVerification.schema = None /\ NewVerification.asked = None
BY TimesAssumption DEF NewCall, Call, NewVerification, Verification

LEMMA InitInv == Init => IInv
<1> SUFFICES ASSUME Init PROVE IInv
  OBVIOUS
<1>1. now = 0 /\ 0 \in 0..MaxTime
  BY TimesAssumption DEF Init
<1>2. CallsInv
  <2>1. \A c \in Calls : calls[c] = NewCall
    BY DEF Init
  <2> QED
    BY <1>1, <2>1, NewFacts DEF CallsInv, CallOK
<1>3. VerifyInv
  <2>1. \A v \in Verifies : verifies[v] = NewVerification
    BY DEF Init
  <2> QED
    BY <2>1, NewFacts DEF VerifyInv, VerifyOK
<1>4. SetupInv
  BY DEF Init, SetupInv
<1>5. AloneInv
  <2>1. \A c \in Calls : ~Unsettled(c)
    BY NewFacts DEF Init, Unsettled
  <2> QED
    BY <2>1 DEF Init, AloneInv
<1>6. TypeOK
  <2>1. history \in Seq([closes : BOOLEAN, err : BOOLEAN, stranger : BOOLEAN])
    <3>1. CASE attestation = None
      BY <3>1 DEF Init
    <3>2. CASE attestation # None
      <4>1. [closes |-> FALSE, err |-> FALSE, stranger |-> FALSE] \in [closes : BOOLEAN, err : BOOLEAN, stranger : BOOLEAN]
        OBVIOUS
      <4> QED
        BY <3>2, <4>1 DEF Init
    <3> QED
      BY <3>1, <3>2
  <2>2. calls \in [Calls -> Call] /\ verifies \in [Verifies -> Verification]
    BY NewFacts DEF Init
  <2> QED
    BY <1>1, <2>1, <2>2 DEF Init, TypeOK, Setup
<1> QED
  BY <1>2, <1>3, <1>4, <1>5, <1>6 DEF IInv
------------------------------------------------------------------------------
(* A call begins.                                                             *)

LEMMA Begins ==
  ASSUME IInv, NEW c \in Calls, calls[c].phase = "new", NoteRace(c), UNCHANGED <<now, ledger>>,
         NEW d \in Call, calls' = [calls EXCEPT ![c] = d], CallOK(d)', withdrawn' \subseteq withdrawn,
         \/ d.phase = "built" /\ believed' = Unknown /\ Holds(d)'
         \/ /\ d.phase = "done" /\ d.answer = "refused"
            /\ believed' = IF Setup \subseteq accounts
                             THEN IF attestation = None THEN None ELSE attestation.referenceId
                             ELSE believed
  PROVE  calls' \in [Calls -> Call] /\ CallsInv' /\ SetupInv' /\ AloneInv'
<1>1. /\ TypeOK /\ CallsInv /\ UNCHANGED <<accounts, paused, attestation, history>>
  BY DEF IInv, ledger
<1>2. now' \in Nat /\ now' >= now /\ accounts \subseteq accounts'
  BY <1>1, TimeFacts
<1>3. /\ calls' \in [Calls -> Call] /\ CallsInv' /\ calls'[c] = d
      /\ \A e \in Calls : e # c => (Unsettled(e)' <=> Unsettled(e))
  BY <1>1, <1>2, OneCall
<1>4. SetupInv'
  BY <1>1 DEF IInv, SetupInv
<1>5. AloneInv'
  <2> SUFFICES ASSUME ~raced' PROVE AloneInv'
    BY DEF AloneInv
  <2>1. ~raced /\ \A e \in Calls : e # c => ~Unsettled(e)
    BY DEF NoteRace
  <2>2. \A e \in Calls : Unsettled(e)' => e = c
    BY <1>3, <2>1
  <2>3. \A r \in withdrawn' : attestation = None \/ attestation.referenceId # r
    BY <2>1 DEF IInv, AloneInv
  <2>4. CASE d.phase = "built" /\ believed' = Unknown /\ Holds(d)'
    <3>1. Holds(calls[c])'
      BY <1>3, <2>4
    <3> QED
      BY <1>1, <2>2, <2>3, <2>4, <3>1 DEF AloneInv
  <2>5. CASE /\ d.phase = "done" /\ d.answer = "refused"
             /\ believed' = IF Setup \subseteq accounts
                             THEN IF attestation = None THEN None ELSE attestation.referenceId
                             ELSE believed
    <3>1. \A e \in Calls : ~Unsettled(e)'
      BY <1>3, <2>2, <2>5 DEF Unsettled
    <3>2. believed' # Unknown =>
            IF attestation = None THEN believed' = None ELSE believed' = attestation.referenceId
      BY <2>1, <2>5 DEF IInv, AloneInv
    <3> QED
      BY <1>1, <2>3, <3>1, <3>2 DEF AloneInv
  <2> QED
    BY <2>4, <2>5
<1> QED
  BY <1>3, <1>4, <1>5

(* What a new call makes of itself when it is refused.                        *)
LEMMA RefusedCall ==
  ASSUME NEW old \in Call, old = NewCall, NEW input \in Input, now' \in Nat, NEW d,
         d = [old EXCEPT !.phase = "done", !.input = input, !.answer = "refused"]
  PROVE  /\ d \in Call /\ d.phase = "done" /\ d.answer = "refused" /\ CallOK(d)'
<1>1. old.tx = "none" /\ old.signedAt = 0
  BY NewFacts
<1>2. d \in Call /\ d.phase = "done" /\ d.input = input /\ d.tx = "none" /\ d.answer = "refused" /\ d.signedAt = 0
  BY <1>1 DEF Call
<1> QED
  BY <1>2 DEF CallOK

LEMMA BelievedType ==
  ASSUME TypeOK
  PROVE  attestation # None => attestation.referenceId \in References
BY DEF TypeOK, Attestation

LEMMA IssueInv == ASSUME IInv, NEW c \in Calls, NEW data \in Attestation, issue(c, data) PROVE IInv'
<1> DEFINE input == [kind |-> "issue", data |-> data]
<1>1. /\ calls[c].phase = "new" /\ NoteRace(c) /\ UNCHANGED <<now, ledger>>
      /\ withdrawn' = withdrawn \ {data.referenceId}
      /\ verifies' = [v \in Verifies |->
           IF verifies[v].asked # None /\ verifies[v].asked.referenceId = data.referenceId
             THEN [verifies[v] EXCEPT !.afterClose = FALSE] ELSE verifies[v]]
      /\ IF Setup \subseteq accounts /\ attestation = None THEN build(c, input, None) ELSE refuse(c, input)
  BY DEF issue
<1>2. TypeOK /\ CallsInv /\ UNCHANGED <<accounts, paused, attestation, history>>
  BY <1>1 DEF IInv, ledger
<1>3. input \in Input /\ input.kind = "issue" /\ input.data = data
  BY DEF Input
<1> HIDE DEF input
<1>4. /\ calls' \in [Calls -> Call] /\ CallsInv' /\ SetupInv' /\ AloneInv'
      /\ believed' \in References \cup {None, Unknown}
  <2>1. CASE Setup \subseteq accounts /\ attestation = None
    <3>0. calls[c] \in Call /\ calls[c] = NewCall
      BY <1>1, <1>2 DEF CallsInv, CallOK, TypeOK
    <3>1. PICK d : d = [calls[c] EXCEPT !.phase = "built", !.input = input, !.seen = None]
      OBVIOUS
    <3>2. calls' = [calls EXCEPT ![c] = d] /\ believed' = Unknown
      BY <1>1, <2>1, <3>1 DEF build
    <3>3. /\ d \in Call /\ d.phase = "built" /\ d.input = input /\ d.tx = "none" /\ d.answer = "none"
          /\ d.signedAt = 0
      <4>1. PICK old : old = calls[c]
        OBVIOUS
      <4>2. PICK seen \in Attestation \cup {None} : seen = None
        OBVIOUS
      <4>3. d = [old EXCEPT !.phase = "built", !.input = input, !.seen = seen]
        BY <3>1, <4>1, <4>2
      <4>4. old \in Call /\ old.tx = "none" /\ old.answer = "none" /\ old.signedAt = 0
        BY <3>0, <4>1, NewFacts
      <4> QED
        BY <1>3, <4>2, <4>3, <4>4 DEF Call
    <3>4. CallOK(d)'
      BY <1>1, <1>2, <1>3, <2>1, <3>3, TimeFacts DEF CallOK
    <3>5. Holds(d)'
      BY <1>1, <1>3, <3>3 DEF Holds
    <3> QED
      BY <1>1, <3>2, <3>3, <3>4, <3>5, Begins
  <2>2. CASE ~(Setup \subseteq accounts /\ attestation = None)
    <3>0. calls[c] \in Call /\ calls[c] = NewCall
      BY <1>1, <1>2 DEF CallsInv, CallOK, TypeOK
    <3>1. PICK d : d = [calls[c] EXCEPT !.phase = "done", !.input = input, !.answer = "refused"]
      OBVIOUS
    <3>2. /\ calls' = [calls EXCEPT ![c] = d]
          /\ believed' = IF Setup \subseteq accounts
                           THEN IF attestation = None THEN None ELSE attestation.referenceId
                           ELSE believed
      BY <1>1, <2>2, <3>1 DEF refuse
    <3>3. d \in Call /\ d.phase = "done" /\ d.answer = "refused" /\ CallOK(d)'
      <4>1. PICK old : old = calls[c]
        OBVIOUS
      <4>2. old \in Call /\ old = NewCall /\ now' \in Nat
        BY <1>1, <1>2, <3>0, <4>1, TimeFacts
      <4>3. d = [old EXCEPT !.phase = "done", !.input = input, !.answer = "refused"]
        BY <3>1, <4>1
      <4> QED
        BY <1>3, <4>2, <4>3, RefusedCall
    <3>4. believed' \in References \cup {None, Unknown}
      BY <1>2, <3>2, BelievedType DEF TypeOK
    <3> QED
      BY <1>1, <3>2, <3>3, <3>4, Begins
  <2> QED
    BY <2>1, <2>2
<1>5. raced' \in BOOLEAN /\ (raced => raced')
  BY <1>1, <1>2 DEF NoteRace, TypeOK
<1>6. verifies' \in [Verifies -> Verification] /\ VerifyInv'
  <2>1. ASSUME NEW v \in Verifies PROVE verifies'[v] \in Verification /\ VerifyOK(verifies[v])'
    <3>1. verifies[v] \in Verification /\ VerifyOK(verifies[v])
      BY <1>2 DEF IInv, VerifyInv, TypeOK
    <3>2. CASE verifies[v].asked # None /\ verifies[v].asked.referenceId = data.referenceId
      <4>1. PICK w : w = verifies'[v]
        OBVIOUS
      <4>2. w = [verifies[v] EXCEPT !.afterClose = FALSE]
        BY <1>1, <3>2, <4>1
      <4>3. w \in Verification /\ ~w.afterClose /\ w.phase = verifies[v].phase /\ w.asked = verifies[v].asked
        BY <3>1, <4>2 DEF Verification
      <4>4. w.phase # "new"
        BY <3>1, <3>2, <4>3, NewFacts DEF VerifyOK
      <4>5. VerifyOK(w)'
        BY <3>2, <4>3, <4>4 DEF VerifyOK
      <4> QED
        BY <4>1, <4>3, <4>5
    <3>3. CASE ~(verifies[v].asked # None /\ verifies[v].asked.referenceId = data.referenceId)
      <4>1. verifies'[v] = verifies[v]
        BY <1>1, <3>3
      <4>2. verifies[v].afterClose => verifies[v].asked # None
        BY <3>1, NewFacts DEF VerifyOK
      <4> QED
        BY <1>1, <1>5, <3>1, <3>3, <4>1, <4>2 DEF VerifyOK
    <3> QED
      BY <3>2, <3>3
  <2> QED
    BY <1>1, <2>1 DEF VerifyInv
<1>7. TypeOK'
  BY <1>1, <1>2, <1>4, <1>5, <1>6 DEF TypeOK
<1> QED
  BY <1>4, <1>6, <1>7 DEF IInv

LEMMA CloseInv ==
  ASSUME IInv, NEW c \in Calls, NEW kind \in {"revoke", "close"}, NEW id \in References \cup {None},
         closeAttestation(c, [kind |-> kind, referenceId |-> id])
  PROVE  IInv'
<1> DEFINE input == [kind |-> kind, referenceId |-> id]
<1>1. /\ calls[c].phase = "new" /\ NoteRace(c) /\ UNCHANGED <<now, ledger>> /\ UNCHANGED <<verifies, withdrawn>>
      /\ IF mayClose(input, attestation) THEN build(c, input, attestation) ELSE refuse(c, input)
  BY DEF closeAttestation
<1>2. TypeOK /\ CallsInv /\ UNCHANGED <<accounts, paused, attestation, history>>
  BY <1>1 DEF IInv, ledger
<1>3. input \in Input /\ input.kind = kind /\ input.referenceId = id
  BY DEF Input
<1> HIDE DEF input
<1>4. calls[c] \in Call /\ calls[c] = NewCall
  BY <1>1, <1>2 DEF CallsInv, CallOK, TypeOK
<1>5. /\ calls' \in [Calls -> Call] /\ CallsInv' /\ SetupInv' /\ AloneInv'
      /\ believed' \in References \cup {None, Unknown}
  <2>1. CASE mayClose(input, attestation)
    <3>1. attestation \in Attestation /\ Setup \subseteq accounts
      BY <1>2, <2>1 DEF mayClose, TypeOK, IInv, SetupInv
    <3>2. PICK d : d = [calls[c] EXCEPT !.phase = "built", !.input = input, !.seen = attestation]
      OBVIOUS
    <3>3. calls' = [calls EXCEPT ![c] = d] /\ believed' = Unknown
      BY <1>1, <2>1, <3>2 DEF build
    <3>4. /\ d \in Call /\ d.phase = "built" /\ d.input = input /\ d.seen = attestation /\ d.tx = "none"
          /\ d.answer = "none" /\ d.signedAt = 0
      <4>1. PICK old : old = calls[c]
        OBVIOUS
      <4>2. PICK seen \in Attestation \cup {None} : seen = attestation
        BY <3>1
      <4>3. d = [old EXCEPT !.phase = "built", !.input = input, !.seen = seen]
        BY <3>2, <4>1, <4>2
      <4>4. old \in Call /\ old.tx = "none" /\ old.answer = "none" /\ old.signedAt = 0
        BY <1>4, <4>1, NewFacts
      <4> QED
        BY <1>3, <4>2, <4>3, <4>4 DEF Call
    <3>5. CallOK(d)'
      <4>1. /\ input.referenceId # None => attestation.referenceId = input.referenceId
            /\ input.kind = "close" => Lapsed(attestation, now)
        BY <2>1 DEF mayClose
      <4> QED
        BY <1>1, <1>2, <1>3, <3>1, <3>4, <4>1, TimeFacts DEF CallOK
    <3>6. Holds(d)'
      BY <1>2, <1>3, <3>4 DEF Holds
    <3> QED
      BY <1>1, <3>3, <3>4, <3>5, <3>6, Begins
  <2>2. CASE ~mayClose(input, attestation)
    <3>1. PICK d : d = [calls[c] EXCEPT !.phase = "done", !.input = input, !.answer = "refused"]
      OBVIOUS
    <3>2. /\ calls' = [calls EXCEPT ![c] = d]
          /\ believed' = IF Setup \subseteq accounts
                           THEN IF attestation = None THEN None ELSE attestation.referenceId
                           ELSE believed
      BY <1>1, <2>2, <3>1 DEF refuse
    <3>3. d \in Call /\ d.phase = "done" /\ d.answer = "refused" /\ CallOK(d)'
      <4>1. PICK old : old = calls[c]
        OBVIOUS
      <4>2. old \in Call /\ old = NewCall /\ now' \in Nat
        BY <1>1, <1>2, <1>4, <4>1, TimeFacts
      <4>3. d = [old EXCEPT !.phase = "done", !.input = input, !.answer = "refused"]
        BY <3>1, <4>1
      <4> QED
        BY <1>3, <4>2, <4>3, RefusedCall
    <3>4. believed' \in References \cup {None, Unknown}
      BY <1>2, <3>2, BelievedType DEF TypeOK
    <3> QED
      BY <1>1, <3>2, <3>3, <3>4, Begins
  <2> QED
    BY <2>1, <2>2
<1>6. raced' \in BOOLEAN /\ (raced => raced')
  BY <1>1, <1>2 DEF NoteRace, TypeOK
<1>7. VerifyInv'
  BY <1>1, <1>6 DEF IInv, VerifyInv, VerifyOK
<1>8. TypeOK'
  BY <1>1, <1>2, <1>5, <1>6 DEF TypeOK
<1> QED
  BY <1>5, <1>7, <1>8 DEF IInv
------------------------------------------------------------------------------
(* Its transaction.                                                           *)

(* A step of a call after which nobody else has more say than before.         *)
LEMMA CallGoesOn ==
  ASSUME IInv, NEW c \in Calls, NEW d \in Call, calls' = [calls EXCEPT ![c] = d], CallOK(d)',
         UNCHANGED <<now, paused, verifies, believed, withdrawn, raced>>, attestation' = attestation,
         accounts \subseteq accounts', accounts' \subseteq Setup,
         history' \in Seq([closes : BOOLEAN, err : BOOLEAN, stranger : BOOLEAN]),
         Unsettled(c)' => Unsettled(c) /\ (~raced => Holds(d))
  PROVE  IInv'
<1>1. TypeOK /\ CallsInv /\ now' \in Nat /\ now' >= now
  BY TimeFacts DEF IInv
<1>2. /\ calls' \in [Calls -> Call] /\ CallsInv' /\ calls'[c] = d
      /\ \A e \in Calls : e # c => calls'[e] = calls[e]
      /\ \A e \in Calls : e # c => (Unsettled(e)' <=> Unsettled(e))
  BY <1>1, OneCall
<1>3. TypeOK'
  BY <1>1, <1>2 DEF TypeOK
<1>4. SetupInv'
  BY DEF IInv, SetupInv
<1>5. VerifyInv'
  BY VerifyKept DEF IInv
<1>6. AloneInv'
  <2> SUFFICES ASSUME ~raced PROVE AloneInv'
    BY DEF AloneInv
  <2>1. \A e \in Calls : Unsettled(e)' => Unsettled(e)
    BY <1>2
  <2>2. ASSUME NEW e \in Calls, Unsettled(e)' PROVE Holds(calls[e])'
    <3>1. Holds(calls'[e])
      BY <1>2, <2>1, <2>2 DEF IInv, AloneInv
    <3> QED
      BY <3>1 DEF Holds
  <2> QED
    BY <2>1, <2>2 DEF IInv, AloneInv
<1> QED
  BY <1>2, <1>3, <1>4, <1>5, <1>6 DEF IInv

LEMMA SetupIssuerInv == ASSUME IInv, NEW c \in Calls, setupIssuer(c) PROVE IInv'
<1> DEFINE missing == Setup \ accounts
           input == [kind |-> "setup"]
<1>1. /\ calls[c].phase = "new"
      /\ calls' = [calls EXCEPT ![c] =
           IF missing = {} THEN [@ EXCEPT !.phase = "done", !.input = input, !.answer = "ok"]
                           ELSE [@ EXCEPT !.phase = "built", !.input = input, !.missing = missing]]
      /\ UNCHANGED <<now, accounts, paused, attestation, history, verifies, believed, withdrawn, raced>>
  BY DEF setupIssuer, ledger
<1>2. TypeOK /\ CallsInv
  BY DEF IInv
<1>3. PICK old : old = calls[c]
  OBVIOUS
<1>4. old \in Call /\ old.tx = "none" /\ old.answer = "none" /\ old.signedAt = 0
  BY <1>1, <1>2, <1>3, NewFacts DEF CallsInv, CallOK, TypeOK
<1>5. input \in Input /\ input.kind = "setup" /\ missing \subseteq Setup
  BY DEF Input
<1> HIDE DEF input, missing
<1>6. PICK d : d = IF missing = {} THEN [old EXCEPT !.phase = "done", !.input = input, !.answer = "ok"]
                                   ELSE [old EXCEPT !.phase = "built", !.input = input, !.missing = missing]
  OBVIOUS
<1>7. /\ d \in Call /\ d.phase \in {"done", "built"} /\ d.input = input /\ d.tx = "none"
      /\ d.phase = "built" => d.answer = "none"
      /\ d.answer # "refused" /\ d.signedAt = 0
  <2>1. CASE missing = {}
    BY <1>4, <1>5, <1>6, <2>1 DEF Call
  <2>2. CASE missing # {}
    BY <1>4, <1>5, <1>6, <2>2 DEF Call
  <2> QED
    BY <2>1, <2>2
<1>8. CallOK(d)'
  BY <1>1, <1>2, <1>5, <1>7, TimeFacts DEF CallOK
<1>9. calls' = [calls EXCEPT ![c] = d]
  BY <1>1, <1>3, <1>6
<1>10. ~Unsettled(c)'
  <2>1. calls'[c] = d
    BY <1>2, <1>9 DEF TypeOK
  <2> QED
    BY <1>5, <1>7, <2>1 DEF Unsettled
<1>11. accounts \subseteq Setup /\ history \in Seq([closes : BOOLEAN, err : BOOLEAN, stranger : BOOLEAN])
  BY <1>2 DEF TypeOK
<1> QED
  BY <1>1, <1>7, <1>8, <1>9, <1>10, <1>11, CallGoesOn

LEMMA SignInv == ASSUME IInv, NEW c \in Calls, sign(c) PROVE IInv'
<1>1. /\ calls[c].phase = "built" /\ calls' = [calls EXCEPT ![c] = [@ EXCEPT !.phase = "signed", !.signedAt = now]]
      /\ UNCHANGED <<now, accounts, paused, attestation, history, verifies, believed, withdrawn, raced>>
  BY DEF sign, ledger
<1>2. TypeOK /\ CallsInv
  BY DEF IInv
<1>3. PICK old : old = calls[c]
  OBVIOUS
<1>4. old \in Call /\ CallOK(old) /\ old.phase = "built" /\ old.tx = "none" /\ old.answer = "none"
  BY <1>1, <1>2, <1>3 DEF CallsInv, CallOK, TypeOK
<1>5. PICK d : d = [old EXCEPT !.phase = "signed", !.signedAt = now]
  OBVIOUS
<1>6. /\ d \in Call /\ d.phase = "signed" /\ d.input = old.input /\ d.seen = old.seen /\ d.tx = "none"
      /\ d.answer = "none" /\ d.signedAt = now
  BY <1>2, <1>4, <1>5 DEF Call, TypeOK
<1>7. CallOK(d)'
  BY <1>1, <1>2, <1>4, <1>6, TimeFacts DEF CallOK
<1>8. calls' = [calls EXCEPT ![c] = d] /\ calls'[c] = d
  BY <1>1, <1>2, <1>3, <1>5 DEF TypeOK
<1>9. Unsettled(c)' => Unsettled(c) /\ (~raced => Holds(d))
  <2>1. Unsettled(c)' => Unsettled(c)
    BY <1>1, <1>3, <1>6, <1>8 DEF Unsettled
  <2>2. Unsettled(c) /\ ~raced => Holds(old)
    BY <1>3 DEF IInv, AloneInv
  <2> QED
    BY <1>4, <1>6, <2>1, <2>2 DEF Holds
<1>10. accounts \subseteq Setup /\ history \in Seq([closes : BOOLEAN, err : BOOLEAN, stranger : BOOLEAN])
  BY <1>2 DEF TypeOK
<1> QED
  BY <1>1, <1>6, <1>7, <1>8, <1>9, <1>10, CallGoesOn

LEMMA SendInv == ASSUME IInv, NEW c \in Calls, send(c) PROVE IInv'
<1>1. /\ calls[c].phase = "signed"
      /\ UNCHANGED <<now, accounts, paused, attestation, history, verifies, believed, withdrawn, raced>>
  BY DEF send, ledger
<1>2. TypeOK /\ CallsInv
  BY DEF IInv
<1>3. PICK old : old = calls[c]
  OBVIOUS
<1>4. old \in Call /\ CallOK(old) /\ old.phase = "signed" /\ old.tx = "none" /\ old.answer = "none"
  BY <1>1, <1>2, <1>3 DEF CallsInv, CallOK, TypeOK
<1>5. PICK d : /\ calls' = [calls EXCEPT ![c] = d]
               /\ \/ /\ d = [old EXCEPT !.phase = "sent", !.tx = "pending", !.deadline = now + ConfirmTimeout]
                     /\ Alive(old)
                  \/ d = [old EXCEPT !.phase = "done", !.answer = "rejected", !.deadline = 0]
                  \/ d = [[old EXCEPT !.phase = "done", !.answer = "rejected", !.deadline = 0] EXCEPT !.tx = "pending"]
  BY <1>3 DEF send, Answered
<1>6. /\ now \in 0..MaxTime /\ now + ConfirmTimeout \in 0..(MaxTime + ConfirmTimeout)
      /\ 0 \in 0..(MaxTime + ConfirmTimeout) /\ old.signedAt \in Nat
  BY <1>2, <1>4, TimeFacts DEF TypeOK, Call
<1>7. /\ d \in Call /\ d.input = old.input /\ d.seen = old.seen /\ d.tx \in {"none", "pending"}
      /\ \/ d.phase = "sent" /\ d.answer = "none" /\ d.deadline = now + ConfirmTimeout /\ d.signedAt = old.signedAt
         \/ d.phase = "done" /\ d.answer = "rejected"
  BY <1>4, <1>5, <1>6 DEF Call
<1>8. CallOK(d)'
  <2>1. now \in Nat /\ ConfirmTimeout \in Nat /\ Lifetime \in Nat /\ Lifetime =< ConfirmTimeout
    BY <1>2, TimeFacts
  <2>2. d.signedAt = old.signedAt
    BY <1>4, <1>5 DEF Call
  <2> QED
    BY <1>1, <1>4, <1>6, <1>7, <2>1, <2>2 DEF CallOK
<1>9. calls'[c] = d
  BY <1>2, <1>5 DEF TypeOK
<1>10. Unsettled(c)' => Unsettled(c) /\ (~raced => Holds(d))
  <2>1. Unsettled(c)' => Unsettled(c)
    BY <1>1, <1>3, <1>7, <1>9 DEF Unsettled
  <2>2. Unsettled(c) /\ ~raced => Holds(old)
    BY <1>3 DEF IInv, AloneInv
  <2> QED
    BY <1>4, <1>7, <2>1, <2>2 DEF Holds
<1>11. accounts \subseteq Setup /\ history \in Seq([closes : BOOLEAN, err : BOOLEAN, stranger : BOOLEAN])
  BY <1>2 DEF TypeOK
<1> QED
  BY <1>1, <1>5, <1>7, <1>8, <1>10, <1>11, CallGoesOn

LEMMA LandInv == ASSUME IInv, NEW c \in Calls, land(c) PROVE IInv'
<1>1. PICK old : old = calls[c]
  OBVIOUS
<1>2. PICK d : d = [old EXCEPT !.tx = IF Accepts(old) THEN "landed" ELSE "failed"]
  OBVIOUS
<1>3. PICK t : t = [closes |-> old.input.kind \in {"revoke", "close"}, err |-> ~Accepts(old), stranger |-> FALSE]
  OBVIOUS
<1>4. /\ old.tx = "pending" /\ Alive(old) /\ calls' = [calls EXCEPT ![c] = d]
      /\ attestation' = CASE Accepts(old) /\ old.input.kind \in {"revoke", "close"} -> None
                          [] Accepts(old) /\ old.input.kind = "issue" -> old.input.data
                          [] OTHER -> attestation
      /\ accounts' = IF Accepts(old) /\ old.input.kind = "setup" THEN accounts \cup old.missing ELSE accounts
      /\ history' = IF old.input.kind = "setup" THEN history ELSE <<t>> \o history
      /\ UNCHANGED <<now, paused, verifies, believed, withdrawn, raced>>
  BY <1>1, <1>2, <1>3 DEF land
<1>5. TypeOK /\ CallsInv
  BY DEF IInv
<1>6. /\ old \in Call /\ CallOK(old) /\ old.phase \in {"sent", "done"} /\ old.input \in Input /\ old.input # None
      /\ old.answer # "refused"
      /\ old.input.kind # "setup" => Unsettled(c)
  BY <1>1, <1>4, <1>5, AliveUnsettled DEF CallsInv, TypeOK
<1>7. /\ d \in Call /\ d.tx = IF Accepts(old) THEN "landed" ELSE "failed"
      /\ d.phase = old.phase /\ d.input = old.input /\ d.seen = old.seen /\ d.answer = old.answer
      /\ d.signedAt = old.signedAt /\ d.deadline = old.deadline
  BY <1>2, <1>6 DEF Call
<1>8. accounts \subseteq accounts' /\ accounts' \subseteq Setup
  BY <1>4, <1>5, <1>6 DEF TypeOK, Call
<1>9. history' \in Seq([closes : BOOLEAN, err : BOOLEAN, stranger : BOOLEAN])
  <2>1. t \in [closes : BOOLEAN, err : BOOLEAN, stranger : BOOLEAN]
    <3>1. PICK closes \in BOOLEAN : closes = (old.input.kind \in {"revoke", "close"})
      <4>1. PICK closing : closing = {"revoke", "close"}
        OBVIOUS
      <4>2. (old.input.kind \in closing) \in BOOLEAN
        OBVIOUS
      <4> QED
        BY <4>1, <4>2, Zenon
    <3>2. PICK err \in BOOLEAN : err = ~Accepts(old)
      BY Zenon
    <3>3. t = [closes |-> closes, err |-> err, stranger |-> FALSE]
      BY <1>3, <3>1, <3>2, Zenon
    <3> QED
      BY <3>3
  <2>2. history \in Seq([closes : BOOLEAN, err : BOOLEAN, stranger : BOOLEAN])
    BY <1>5 DEF TypeOK
  <2>3. <<t>> \in Seq([closes : BOOLEAN, err : BOOLEAN, stranger : BOOLEAN])
    BY <2>1
  <2>4. <<t>> \o history \in Seq([closes : BOOLEAN, err : BOOLEAN, stranger : BOOLEAN])
    BY <2>2, <2>3
  <2> QED
    BY <1>4, <2>2, <2>4
<1>10. CallOK(d)'
  <2>1. now \in Nat /\ now' = now /\ Lifetime \in Nat /\ d.tx \in {"landed", "failed"}
    BY <1>4, <1>5, <1>7, TimeFacts
  <2> QED
    BY <1>6, <1>7, <1>8, <2>1 DEF CallOK
<1>11. /\ calls' \in [Calls -> Call] /\ CallsInv' /\ calls'[c] = d
       /\ \A e \in Calls : e # c => calls'[e] = calls[e]
       /\ \A e \in Calls : e # c => (Unsettled(e)' <=> Unsettled(e))
  <2>1. now' \in Nat /\ now' >= now
    BY <1>4, <1>5, TimeFacts
  <2> QED
    BY <1>4, <1>5, <1>7, <1>8, <1>10, <2>1, OneCall
<1>12. Unsettled(c)' => Unsettled(c)
  BY <1>1, <1>7, <1>11 DEF Unsettled
<1>13. Unsettled(c) /\ ~raced => Holds(old) /\ believed = Unknown /\ \A e \in Calls : Unsettled(e) => e = c
  BY <1>1 DEF IInv, AloneInv
<1>14. CASE ~Accepts(old) \/ old.input.kind = "setup"
  <2>1. attestation' = attestation
    BY <1>4, <1>14
  <2>2. Unsettled(c) /\ ~raced => Holds(d)
    <3>1. Unsettled(c) => old.input.kind # "setup"
      BY <1>1 DEF Unsettled
    <3>2. CASE ~Accepts(old)
      BY <1>7, <1>13, <3>2 DEF Holds
    <3> QED
      BY <1>14, <3>1, <3>2
  <2> QED
    BY <1>4, <1>7, <1>8, <1>9, <1>10, <1>12, <2>1, <2>2, CallGoesOn
<1>15. CASE Accepts(old) /\ old.input.kind # "setup"
  <2>1. Unsettled(c) /\ accounts' = accounts /\ Setup \subseteq accounts
    BY <1>4, <1>6, <1>15 DEF CallOK
  <2>2. old.input.kind \in {"issue", "revoke", "close"}
    BY <1>6, <1>15 DEF Input
  <2>3. /\ old.input.kind = "issue" => attestation' = old.input.data /\ old.input.data \in Attestation
        /\ old.input.kind # "issue" => attestation' = None
    BY <1>4, <1>6, <1>15, <2>2 DEF Input
  <2>4. TypeOK'
    BY <1>4, <1>5, <1>9, <1>11, <2>1, <2>2, <2>3 DEF TypeOK
  <2>5. SetupInv'
    BY <2>1 DEF SetupInv
  <2>6. VerifyInv'
    BY <1>4, VerifyKept DEF IInv
  <2>7. AloneInv'
    <3> SUFFICES ASSUME ~raced PROVE AloneInv'
      BY <1>4 DEF AloneInv
    <3>1. Holds(old) /\ believed' = Unknown
      BY <1>4, <1>13, <2>1
    <3>2. \A e \in Calls : Unsettled(e)' => e = c
      BY <1>11, <1>13, <2>1
    <3>3. Holds(d)'
      BY <1>4, <1>7, <1>15, <2>3, <3>1 DEF Holds
    <3>4. Holds(calls[c])'
      BY <1>11, <3>3
    <3>5. \A r \in withdrawn' : attestation' = None \/ attestation'.referenceId # r
      BY <1>4, <2>3, <3>1 DEF Holds
    <3> QED
      BY <3>1, <3>2, <3>4, <3>5 DEF AloneInv
  <2> QED
    BY <1>11, <2>4, <2>5, <2>6, <2>7 DEF IInv
<1> QED
  BY <1>14, <1>15

LEMMA ConfirmInv == ASSUME IInv, NEW c \in Calls, confirm(c) PROVE IInv'
<1>1. PICK old : old = calls[c]
  OBVIOUS
<1>2. PICK told \in Told(old) :
        /\ calls' = [calls EXCEPT ![c] = Answered(old, told)]
        /\ IF told = "ok" /\ old.input.kind = "issue"
             THEN believed' = old.input.data.referenceId /\ UNCHANGED withdrawn
           ELSE IF told = "ok" /\ old.input.kind # "setup"
             THEN believed' = None /\ withdrawn' = withdrawn \cup {old.seen.referenceId}
           ELSE UNCHANGED <<believed, withdrawn>>
  BY <1>1 DEF confirm
<1>3. PICK d : d = Answered(old, told)
  OBVIOUS
<1>4. /\ old.phase = "sent" /\ calls' = [calls EXCEPT ![c] = d]
      /\ UNCHANGED <<now, accounts, paused, attestation, history, verifies, raced>>
  BY <1>1, <1>2, <1>3 DEF confirm, ledger
<1>5. TypeOK /\ CallsInv
  BY DEF IInv
<1>6. /\ old \in Call /\ CallOK(old) /\ old.input \in Input /\ old.input # None /\ old.answer = "none"
      /\ old.deadline >= old.signedAt + Lifetime
  BY <1>1, <1>4, <1>5, ValuesAssumption DEF CallsInv, TypeOK, CallOK
<1>7. /\ told \in {"ok", "failed", "timeout", "unheard"}
      /\ told = "ok" => old.tx = "landed"
      /\ told = "failed" => old.tx = "failed"
      /\ told = "timeout" => now >= old.deadline
  BY <1>2 DEF Told
<1>8. /\ d \in Call /\ d.phase = "done" /\ d.answer = told /\ d.tx = old.tx /\ d.input = old.input /\ d.seen = old.seen
      /\ d.signedAt = old.signedAt
  <2>1. 0 \in 0..(MaxTime + ConfirmTimeout)
    BY <1>5, TimeFacts
  <2> QED
    BY <1>3, <1>6, <1>7, <2>1 DEF Answered, Call
<1>9. CallOK(d)'
  <2>1. /\ now \in Nat /\ now' = now /\ Lifetime \in Nat /\ old.signedAt \in Nat /\ old.deadline \in Nat
        /\ accounts' = accounts
    BY <1>4, <1>5, <1>6, TimeFacts DEF Call
  <2>2. told = "timeout" => now >= old.signedAt + Lifetime
    BY <1>6, <1>7, <2>1
  <2> QED
    BY <1>4, <1>6, <1>7, <1>8, <2>1, <2>2 DEF CallOK
<1>10. /\ calls' \in [Calls -> Call] /\ CallsInv' /\ calls'[c] = d
       /\ \A e \in Calls : e # c => calls'[e] = calls[e]
       /\ \A e \in Calls : e # c => (Unsettled(e)' <=> Unsettled(e))
  <2>1. now' \in Nat /\ now' >= now /\ accounts \subseteq accounts'
    BY <1>4, <1>5, TimeFacts
  <2> QED
    BY <1>4, <1>5, <1>8, <1>9, <2>1, OneCall
<1>11. accounts \subseteq Setup /\ history \in Seq([closes : BOOLEAN, err : BOOLEAN, stranger : BOOLEAN])
  BY <1>5 DEF TypeOK
<1>12. old.input.kind # "setup" => Unsettled(c)
  BY <1>1, <1>4, <1>6 DEF Unsettled
<1>13. CASE told # "ok" \/ old.input.kind = "setup"
  <2>1. UNCHANGED <<believed, withdrawn>>
    BY <1>2, <1>13
  <2>2. Unsettled(c)' => old.input.kind # "setup"
    BY <1>8, <1>10 DEF Unsettled
  <2>3. Unsettled(c) /\ ~raced => Holds(old)
    BY <1>1 DEF IInv, AloneInv
  <2>4. Unsettled(c)' => Unsettled(c) /\ (~raced => Holds(d))
    BY <1>8, <1>12, <2>2, <2>3 DEF Holds
  <2> QED
    BY <1>4, <1>8, <1>9, <1>11, <2>1, <2>4, CallGoesOn
<1>14. CASE told = "ok" /\ old.input.kind # "setup"
  <2>1. Unsettled(c) /\ Setup \subseteq accounts /\ old.tx = "landed"
    BY <1>4, <1>6, <1>7, <1>12, <1>14 DEF CallOK
  <2>2. old.input.kind \in {"issue", "revoke", "close"}
    BY <1>6, <1>14 DEF Input
  <2>3. /\ old.input.kind = "issue" => /\ believed' = old.input.data.referenceId /\ withdrawn' = withdrawn
                                       /\ old.input.data.referenceId \in References
        /\ old.input.kind # "issue" => /\ believed' = None /\ withdrawn' = withdrawn \cup {old.seen.referenceId}
                                       /\ old.seen.referenceId \in References
    <3>1. old.input.kind = "issue" => old.input.data.referenceId \in References
      BY <1>6, <1>14 DEF Input, Attestation
    <3>2. old.input.kind # "issue" => old.seen.referenceId \in References
      BY <1>4, <1>6, <2>2 DEF CallOK, Attestation
    <3> QED
      BY <1>2, <1>14, <3>1, <3>2
  <2>4. withdrawn \subseteq withdrawn' /\ withdrawn' \subseteq References
    BY <1>5, <2>2, <2>3 DEF TypeOK
  <2>5. TypeOK'
    BY <1>4, <1>5, <1>10, <2>2, <2>3, <2>4 DEF TypeOK
  <2>6. SetupInv'
    BY <1>4, <2>1 DEF SetupInv
  <2>7. VerifyInv'
    BY <1>4, <2>4, VerifyKept DEF IInv
  <2>8. AloneInv'
    <3> SUFFICES ASSUME ~raced PROVE AloneInv'
      BY <1>4 DEF AloneInv
    <3>1. Holds(old) /\ \A e \in Calls : Unsettled(e) => e = c
      BY <1>1, <2>1 DEF IInv, AloneInv
    <3>2. ~Unsettled(c)'
      BY <1>8, <1>10, <1>14 DEF Unsettled
    <3>3. \A e \in Calls : ~Unsettled(e)'
      BY <1>10, <3>1, <3>2
    <3>4. /\ old.input.kind = "issue" => attestation = old.input.data
          /\ old.input.kind # "issue" => attestation = None
      BY <2>1, <3>1 DEF Holds
    <3>5. believed' # Unknown => IF attestation = None THEN believed' = None ELSE believed' = attestation.referenceId
      <4>1. CASE old.input.kind = "issue"
        <5>1. attestation \in Attestation
          BY <1>6, <3>4, <4>1 DEF Input
        <5> QED
          BY <2>3, <3>4, <4>1, <5>1, ValuesAssumption
      <4>2. CASE old.input.kind # "issue"
        BY <2>3, <3>4, <4>2
      <4> QED
        BY <4>1, <4>2
    <3>6. \A r \in withdrawn' : attestation = None \/ attestation.referenceId # r
      BY <2>3, <3>4 DEF IInv, AloneInv
    <3> QED
      BY <1>4, <3>3, <3>5, <3>6 DEF AloneInv
  <2> QED
    BY <1>10, <2>5, <2>6, <2>7, <2>8 DEF IInv
<1> QED
  BY <1>13, <1>14
------------------------------------------------------------------------------
(* verify(), and what happens around the calls.                               *)

(* A step that leaves the calls alone, and what they have settled.            *)
LEMMA CallsWait ==
  ASSUME IInv, UNCHANGED <<accounts, attestation, calls, believed, withdrawn, raced>>, now' \in Nat, now' >= now
  PROVE  CallsInv' /\ SetupInv' /\ AloneInv'
<1>1. TypeOK /\ accounts \subseteq accounts'
  BY DEF IInv
<1>2. ASSUME NEW c \in Calls PROVE CallOK(calls[c])'
  <2>1. calls[c] \in Call /\ CallOK(calls[c])
    BY <1>1 DEF TypeOK, IInv, CallsInv
  <2>2. PICK call : call = calls[c]
    OBVIOUS
  <2>3. CallOK(call)'
    BY <1>1, <2>1, <2>2, CallKept
  <2> QED
    BY <2>2, <2>3
<1>3. \A c \in Calls : (Unsettled(c)' <=> Unsettled(c)) /\ (Holds(calls[c])' <=> Holds(calls[c]))
  BY DEF Unsettled, Holds
<1>4. AloneInv'
  <2> SUFFICES ASSUME ~raced PROVE AloneInv'
    BY DEF AloneInv
  <2> QED
    BY <1>3 DEF IInv, AloneInv
<1>5. SetupInv'
  BY DEF IInv, SetupInv
<1> QED
  BY <1>2, <1>4, <1>5 DEF CallsInv

LEMMA VerifyGoesOn ==
  ASSUME IInv, NEW v \in Verifies, NEW w \in Verification, verifies' = [verifies EXCEPT ![v] = w],
         UNCHANGED <<now, accounts, paused, attestation, history, calls, believed, withdrawn, raced>>, VerifyOK(w)
  PROVE  IInv'
<1>1. TypeOK /\ VerifyInv /\ now' \in Nat /\ now' >= now
  BY TimeFacts DEF IInv
<1>2. CallsInv' /\ SetupInv' /\ AloneInv'
  BY <1>1, CallsWait
<1>3. /\ verifies' \in [Verifies -> Verification] /\ verifies'[v] = w
      /\ \A u \in Verifies : u # v => verifies'[u] = verifies[u]
  BY <1>1 DEF TypeOK
<1>4. VerifyInv'
  <2>1. ASSUME NEW u \in Verifies PROVE VerifyOK(verifies'[u])
    BY <1>1, <1>3 DEF VerifyInv
  <2> QED
    BY <2>1 DEF VerifyInv, VerifyOK
<1>5. TypeOK'
  BY <1>1, <1>3 DEF TypeOK
<1> QED
  BY <1>2, <1>4, <1>5 DEF IInv

LEMMA AskFacts ==
  ASSUME IInv, NEW v \in Verifies, NEW asked \in Question, ask(v, asked)
  PROVE  /\ UNCHANGED <<now, accounts, paused, attestation, history, calls, believed, withdrawn, raced>>
         /\ \E w \in Verification : VerifyOK(w) /\ verifies' = [verifies EXCEPT ![v] = w] /\ w.phase = "reading"
<1>1. TypeOK /\ VerifyInv
  BY DEF IInv
<1>2. PICK old : old = verifies[v]
  OBVIOUS
<1>3. /\ old.phase = "new" /\ old \in Verification /\ old.schema = None /\ old.account = Unknown
      /\ UNCHANGED <<now, accounts, paused, attestation, history, calls, believed, withdrawn, raced>>
  BY <1>1, <1>2, NewFacts DEF ask, ledger, TypeOK, VerifyInv, VerifyOK
<1>4. PICK after \in BOOLEAN : after <=> asked.referenceId \in withdrawn
  <2>1. CASE asked.referenceId \in withdrawn
    BY <2>1
  <2>2. CASE asked.referenceId \notin withdrawn
    BY <2>2
  <2> QED
    BY <2>1, <2>2
<1>5. PICK w : w = [old EXCEPT !.phase = "reading", !.asked = asked, !.now = now, !.afterClose = after]
  OBVIOUS
<1>6. /\ w \in Verification /\ w.phase = "reading" /\ w.asked = asked /\ w.schema = None /\ w.account = Unknown
      /\ w.afterClose = after
  BY <1>1, <1>3, <1>5 DEF Verification, TypeOK
<1>7. verifies' = [verifies EXCEPT ![v] = w]
  <2>1. after = (asked.referenceId \in withdrawn)
    BY <1>4, Zenon
  <2>2. verifies' = [verifies EXCEPT ![v] = [@ EXCEPT !.phase = "reading", !.asked = asked, !.now = now,
                                                      !.afterClose = asked.referenceId \in withdrawn]]
    BY DEF ask
  <2>3. verifies' = [verifies EXCEPT ![v] = [@ EXCEPT !.phase = "reading", !.asked = asked, !.now = now,
                                                      !.afterClose = after]]
    BY <2>1, <2>2, Zenon
  <2> QED
    BY <1>2, <1>5, <2>3
<1>8. VerifyOK(w)
  <2>1. asked # None /\ Unknown \notin Attestation
    BY ValuesAssumption
  <2> QED
    BY <1>4, <1>6, <2>1 DEF VerifyOK
<1> QED
  BY <1>3, <1>6, <1>7, <1>8

LEMMA AskInv == ASSUME IInv, NEW v \in Verifies, NEW asked \in Question, ask(v, asked) PROVE IInv'
BY AskFacts, VerifyGoesOn

LEMMA FetchSchemaInv == ASSUME IInv, NEW v \in Verifies, fetchSchema(v) PROVE IInv'
<1>1. TypeOK /\ VerifyInv /\ SetupInv
  BY DEF IInv
<1>2. PICK old : old = verifies[v]
  OBVIOUS
<1>3. PICK answer \in {"absent", "paused", "live"} :
        answer = IF "schema" \notin accounts THEN "absent" ELSE IF paused THEN "paused" ELSE "live"
  OBVIOUS
<1>4. PICK w : w = [old EXCEPT !.schema = answer]
  OBVIOUS
<1>5. /\ old.phase = "reading" /\ old \in Verification /\ VerifyOK(old)
      /\ verifies' = [verifies EXCEPT ![v] = w]
      /\ UNCHANGED <<now, accounts, paused, attestation, history, calls, believed, withdrawn, raced>>
  BY <1>1, <1>2, <1>3, <1>4 DEF fetchSchema, ledger, TypeOK, VerifyInv
<1>6. /\ w \in Verification /\ w.phase = "reading" /\ w.asked = old.asked /\ w.schema = answer
      /\ w.account = old.account /\ w.afterClose = old.afterClose
  BY <1>4, <1>5 DEF Verification
<1>7. w.afterClose => answer # "absent"
  <2>1. w.afterClose => withdrawn # {}
    BY <1>5, <1>6 DEF VerifyOK
  <2>2. withdrawn # {} => "schema" \in accounts
    BY <1>1 DEF SetupInv, Setup
  <2> QED
    BY <1>3, <2>1, <2>2
<1>8. VerifyOK(w)
  BY <1>5, <1>6, <1>7 DEF VerifyOK
<1> QED
  BY <1>5, <1>6, <1>8, VerifyGoesOn

LEMMA FetchAttestationInv == ASSUME IInv, NEW v \in Verifies, fetchAttestation(v) PROVE IInv'
<1>1. TypeOK /\ VerifyInv /\ AloneInv
  BY DEF IInv
<1>2. PICK old : old = verifies[v]
  OBVIOUS
<1>3. PICK w : w = [old EXCEPT !.account = attestation]
  OBVIOUS
<1>4. /\ old.phase = "reading" /\ old \in Verification /\ VerifyOK(old)
      /\ verifies' = [verifies EXCEPT ![v] = w]
      /\ UNCHANGED <<now, accounts, paused, attestation, history, calls, believed, withdrawn, raced>>
  BY <1>1, <1>2, <1>3 DEF fetchAttestation, ledger, TypeOK, VerifyInv
<1>5. /\ w \in Verification /\ w.phase = "reading" /\ w.asked = old.asked /\ w.schema = old.schema
      /\ w.account = attestation /\ w.afterClose = old.afterClose
  BY <1>1, <1>3, <1>4 DEF Verification, TypeOK
<1>6. ~raced /\ w.afterClose /\ attestation \in Attestation => attestation.referenceId # w.asked.referenceId
  BY <1>1, <1>4, <1>5, ValuesAssumption DEF AloneInv, VerifyOK
<1>7. VerifyOK(w)
  BY <1>4, <1>5, <1>6 DEF VerifyOK
<1> QED
  BY <1>4, <1>5, <1>7, VerifyGoesOn

(* What verify() keeps of a question when it has answered it.                 *)
LEMMA ConcludedFacts ==
  ASSUME NEW old \in Verification, VerifyOK(old), old.phase # "new", NEW status \in Statuses, NEW w, w = Concluded(old, status)
  PROVE  /\ w \in Verification /\ VerifyOK(w) /\ w.phase = "done" /\ w.status = status
         /\ w.afterClose = old.afterClose /\ w.account = Unknown /\ w.schema = None
         /\ w.asked.referenceId = old.asked.referenceId /\ w.asked \in Question
<1>1. old.asked \in Question
  BY DEF VerifyOK, Verification
<1>2. PICK asked : asked = [old.asked EXCEPT !.tampered = FALSE]
  OBVIOUS
<1>3. asked \in Question /\ asked.referenceId = old.asked.referenceId
  BY <1>1, <1>2 DEF Question
<1>4. w = [old EXCEPT !.phase = "done", !.status = status, !.schema = None, !.account = Unknown, !.now = 0, !.asked = asked]
  BY <1>2 DEF Concluded
<1>5. 0 \in 0..MaxTime
  BY TimesAssumption
<1>6. /\ w \in Verification /\ w.phase = "done" /\ w.status = status /\ w.afterClose = old.afterClose
      /\ w.account = Unknown /\ w.schema = None /\ w.asked = asked
  BY <1>3, <1>4, <1>5 DEF Verification
<1>7. VerifyOK(w)
  BY <1>3, <1>6, ValuesAssumption DEF VerifyOK
<1> QED
  BY <1>3, <1>6, <1>7

LEMMA JudgeInv == ASSUME IInv, NEW v \in Verifies, judge(v) PROVE IInv'
<1>1. TypeOK /\ VerifyInv
  BY DEF IInv
<1>2. PICK old : old = verifies[v]
  OBVIOUS
<1>3. PICK w : w = IF old.schema = "absent" THEN Concluded(old, "not-found")
                   ELSE IF old.account = None THEN [old EXCEPT !.phase = "searching"]
                   ELSE Concluded(old, StatusOf(old))
  OBVIOUS
<1>4. /\ old.phase = "reading" /\ old \in Verification /\ VerifyOK(old)
      /\ verifies' = [verifies EXCEPT ![v] = w]
      /\ UNCHANGED <<now, accounts, paused, attestation, history, calls, believed, withdrawn, raced>>
  BY <1>1, <1>2, <1>3 DEF judge, ledger, TypeOK, VerifyInv
<1>5. StatusOf(old) \in Statuses /\ "not-found" \in Statuses
  BY DEF StatusOf, Statuses
<1>6. w \in Verification /\ VerifyOK(w)
  <2>1. CASE old.schema # "absent" /\ old.account = None
    <3>1. w = [old EXCEPT !.phase = "searching"]
      BY <1>3, <2>1
    <3>2. /\ w \in Verification /\ w.phase = "searching" /\ w.asked = old.asked /\ w.schema = old.schema
          /\ w.account = old.account /\ w.afterClose = old.afterClose
      BY <1>4, <3>1 DEF Verification
    <3> QED
      BY <1>4, <3>2 DEF VerifyOK
  <2>2. CASE ~(old.schema # "absent" /\ old.account = None)
    <3>1. PICK status \in Statuses : w = Concluded(old, status)
      BY <1>3, <1>5, <2>2
    <3> QED
      BY <1>4, <3>1, ConcludedFacts
  <2> QED
    BY <2>1, <2>2
<1> QED
  BY <1>4, <1>6, VerifyGoesOn

LEMMA FindInv == ASSUME IInv, NEW v \in Verifies, findRevocation(v) PROVE IInv'
<1>1. TypeOK /\ VerifyInv
  BY DEF IInv
<1>2. PICK old : old = verifies[v]
  OBVIOUS
<1>3. PICK status \in Statuses, heard \in BOOLEAN :
        verifies' = [verifies EXCEPT ![v] = [Concluded(old, status) EXCEPT !.heard = heard]]
  <2>1. PICK unread \in SUBSET Candidates(history) :
          verifies' = [verifies EXCEPT ![v] =
            [Concluded(@, IF \E i \in Candidates(history) \ unread : history[i].closes THEN "revoked" ELSE "not-found")
               EXCEPT !.heard = (unread = {})]]
    BY DEF findRevocation
  <2>2. PICK status \in Statuses :
          status = IF \E i \in Candidates(history) \ unread : history[i].closes THEN "revoked" ELSE "not-found"
    BY DEF Statuses
  <2>3. PICK heard \in BOOLEAN : heard = (unread = {})
    BY Zenon
  <2>4. verifies' = [verifies EXCEPT ![v] = [Concluded(old, status) EXCEPT !.heard = heard]]
    BY <1>2, <2>1, <2>2, <2>3, Zenon
  <2> QED
    BY <2>4
<1>4. /\ old.phase = "searching" /\ old \in Verification /\ VerifyOK(old)
      /\ UNCHANGED <<now, accounts, paused, attestation, history, calls, believed, withdrawn, raced>>
  BY <1>1, <1>2 DEF findRevocation, ledger, TypeOK, VerifyInv
<1>5. PICK mid : mid = Concluded(old, status)
  OBVIOUS
<1>6. /\ mid \in Verification /\ VerifyOK(mid) /\ mid.phase = "done"
  BY <1>4, <1>5, ConcludedFacts
<1>7. PICK w : w = [mid EXCEPT !.heard = heard]
  OBVIOUS
<1>8. /\ w \in Verification /\ w.phase = mid.phase /\ w.asked = mid.asked /\ w.schema = mid.schema
      /\ w.account = mid.account /\ w.afterClose = mid.afterClose
  BY <1>6, <1>7 DEF Verification
<1>9. VerifyOK(w)
  BY <1>6, <1>8 DEF VerifyOK
<1>10. verifies' = [verifies EXCEPT ![v] = w]
  BY <1>3, <1>5, <1>7
<1> QED
  BY <1>4, <1>8, <1>9, <1>10, VerifyGoesOn

LEMMA AroundInv == ASSUME IInv, Traffic \/ ChangeSchemaStatus \/ Tick PROVE IInv'
<1>1. TypeOK /\ UNCHANGED <<accounts, attestation, calls, verifies, believed, withdrawn, raced>>
  BY DEF IInv, Traffic, ChangeSchemaStatus, Tick, ledger
<1>2. now' \in 0..MaxTime /\ now' \in Nat /\ now' >= now
  <2>1. now \in 0..MaxTime /\ MaxTime \in Nat
    BY <1>1, TimeFacts DEF TypeOK
  <2>2. now' = now \/ (now' = now + 1 /\ now < MaxTime)
    BY DEF Traffic, ChangeSchemaStatus, Tick
  <2> QED
    BY <2>1, <2>2
<1>3. CallsInv' /\ SetupInv' /\ AloneInv'
  BY <1>1, <1>2, CallsWait
<1>4. VerifyInv'
  BY <1>1, VerifyKept DEF IInv
<1>5. history' \in Seq([closes : BOOLEAN, err : BOOLEAN, stranger : BOOLEAN])
  <2>1. history \in Seq([closes : BOOLEAN, err : BOOLEAN, stranger : BOOLEAN])
    BY <1>1 DEF TypeOK
  <2>2. CASE Traffic
    <3>1. PICK err \in BOOLEAN : history' = <<[closes |-> FALSE, err |-> err, stranger |-> TRUE]>> \o history
      BY <2>2 DEF Traffic
    <3>2. [closes |-> FALSE, err |-> err, stranger |-> TRUE] \in [closes : BOOLEAN, err : BOOLEAN, stranger : BOOLEAN]
      OBVIOUS
    <3> QED
      BY <2>1, <3>1, <3>2
  <2>3. CASE ChangeSchemaStatus \/ Tick
    BY <2>1, <2>3 DEF ChangeSchemaStatus, Tick, ledger
  <2> QED
    BY <2>2, <2>3
<1>6. paused' \in BOOLEAN
  BY <1>1 DEF TypeOK, Traffic, ChangeSchemaStatus, Tick, ledger
<1>7. TypeOK'
  BY <1>1, <1>2, <1>5, <1>6 DEF TypeOK
<1> QED
  BY <1>3, <1>4, <1>7 DEF IInv

LEMMA NextInv == IInv /\ [Next]_vars => IInv'
<1> SUFFICES ASSUME IInv, [Next]_vars PROVE IInv'
  OBVIOUS
<1>1. ASSUME NEW c \in Calls, Write(c) PROVE IInv'
  BY <1>1, IssueInv, CloseInv, SetupIssuerInv, SignInv, SendInv, LandInv, ConfirmInv DEF Write
<1>2. ASSUME NEW v \in Verifies, Verify(v) PROVE IInv'
  BY <1>2, AskInv, FetchSchemaInv, FetchAttestationInv, JudgeInv, FindInv DEF Verify
<1>3. CASE UNCHANGED vars
  <2>1. UNCHANGED <<now, accounts, paused, attestation, history, calls, verifies, believed, withdrawn, raced>>
    BY <1>3 DEF vars
  <2> QED
    BY <2>1 DEF IInv, TypeOK, CallsInv, CallOK, SetupInv, AloneInv, Unsettled, Holds, VerifyInv, VerifyOK
<1> QED
  BY <1>1, <1>2, <1>3, AroundInv DEF Next
------------------------------------------------------------------------------
LEMMA Inductive == Spec => []IInv
BY InitInv, NextInv, PTL DEF Spec

(* Every reachable state of the calls, the account and the verifications is   *)
(* of its types; verify() answers with one of its statuses.                   *)
THEOREM TypeCorrect == Spec => []TypeOK
BY Inductive, PTL DEF IInv

(* While each call waits until the one before it is settled, what an operator *)
(* was told last is what the account holds: a transaction that was given up   *)
(* at the deadline does not come after all (ConfirmTimeout covers the life of *)
(* its blockhash).                                                            *)
THEOREM AnswersHold == Spec => []AnswersTellTheLedger
<1>1. IInv => AnswersTellTheLedger
  BY DEF IInv, AloneInv, AnswersTellTheLedger
<1> QED
  BY <1>1, Inductive, PTL

(* Only a transaction that lands moves to "landed".                           *)
LEMMA OnlyLandLands ==
  ASSUME IInv, Next, NEW c \in Calls, calls[c].tx = "pending", calls'[c].tx = "landed"
  PROVE  land(c)
<1>1. calls \in [Calls -> Call]
  BY DEF IInv, TypeOK
<1>2. PICK old : old = calls[c]
  OBVIOUS
<1>3. old \in Call /\ old.tx = "pending" /\ old.phase \in {"sent", "done"}
  BY <1>1, <1>2, NewFacts DEF IInv, CallsInv, CallOK, Call
<1>4. calls'[c] # calls[c]
  OBVIOUS
<1>5. ASSUME NEW b \in Calls, Write(b) PROVE land(c)
  <2>1. CASE land(b)
    <3>1. b = c
      BY <1>1, <1>4, <2>1 DEF land
    <3> QED
      BY <2>1, <3>1
  <2>2. CASE confirm(b)
    <3>1. PICK told : calls' = [calls EXCEPT ![b] = Answered(@, told)]
      BY <2>2 DEF confirm
    <3>2. calls'[c] = Answered(old, told)
      BY <1>1, <1>2, <1>4, <3>1
    <3> QED
      BY <1>3, <3>2 DEF Answered, Call
  <2>3. CASE calls[b].phase \in {"new", "built", "signed"}
             /\ \E d : calls' = [calls EXCEPT ![b] = d]
    BY <1>1, <1>2, <1>3, <1>4, <2>3
  <2>4. CASE (\E data \in Attestation : issue(b, data)) \/ setupIssuer(b) \/ sign(b) \/ send(b)
             \/ \E kind \in {"revoke", "close"}, r \in References \cup {None} :
                  closeAttestation(b, [kind |-> kind, referenceId |-> r])
    <3>1. calls[b].phase \in {"new", "built", "signed"} /\ \E d : calls' = [calls EXCEPT ![b] = d]
      BY <2>4 DEF issue, setupIssuer, sign, send, closeAttestation, build, refuse
    <3> QED
      BY <2>3, <3>1
  <2> QED
    BY <1>5, <2>1, <2>2, <2>4 DEF Write
<1>6. (\A b \in Calls : ~Write(b)) => UNCHANGED calls
  BY DEF Next, Verify, ask, fetchSchema, fetchAttestation, judge, findRevocation, Traffic, ChangeSchemaStatus, Tick, ledger
<1> QED
  BY <1>4, <1>5, <1>6

(* While no call is begun before the one before it is settled, a revoke() or  *)
(* close() that names a reference takes that reference and no other, and a    *)
(* close() takes nothing that is still live.                                  *)
THEOREM StaleIdHarmless == Spec => StaleIdClosesNothingAlone
<1>1. IInv /\ [Next]_vars => [~raced => ClosesAsAsked]_vars
  <2> SUFFICES ASSUME IInv, Next, ~raced, NEW c \in Calls, calls[c].tx = "pending", calls'[c].tx = "landed"
               PROVE  /\ calls[c].input.kind \in {"revoke", "close"} /\ calls[c].input.referenceId # None
                         => attestation.referenceId = calls[c].input.referenceId
                      /\ calls[c].input.kind = "close" => Lapsed(attestation, now)
    BY DEF ClosesAsAsked
  <2>1. land(c)
    BY OnlyLandLands
  <2>2. Alive(calls[c])
    BY <2>1 DEF land
  <2>3. calls[c].phase \in {"sent", "done"} /\ calls[c].answer # "refused" /\ (calls[c].input.kind # "setup" => Unsettled(c))
    BY <2>2, AliveUnsettled DEF IInv
  <2>4. calls[c].input.kind \in {"revoke", "close"} => attestation = calls[c].seen
    BY <2>3 DEF IInv, AloneInv, Holds
  <2>5. CallOK(calls[c])
    BY DEF IInv, CallsInv
  <2> QED
    BY <2>3, <2>4, <2>5 DEF CallOK
<1> QED
  BY <1>1, Inductive, PTL DEF Spec, StaleIdClosesNothingAlone

(* What lies within reach of verify() is among the transactions it looks at.  *)
LEMMA ReachIsCandidate ==
  ASSUME InReach
  PROVE  \E i \in Candidates(history) : history[i].closes
<1>1. PICK i \in 1..Len(history) :
        /\ history[i].closes /\ ~history[i].err /\ i =< HistoryLimit
        /\ Cardinality({j \in 1..i : ~history[j].err}) =< MaxHistoryTransactions
  BY DEF InReach
<1>2. PICK successful : successful = {j \in 1..Len(history) : j =< HistoryLimit /\ ~history[j].err}
  OBVIOUS
<1>3. {j \in successful : j =< i} = {j \in 1..i : ~history[j].err}
  <2>1. i \in Int /\ i =< Len(history) /\ HistoryLimit \in Nat /\ i =< HistoryLimit
    BY <1>1, TimesAssumption
  <2>2. ASSUME NEW j \in successful, j =< i PROVE j \in 1..i /\ ~history[j].err
    BY <1>2, <2>1, <2>2
  <2>3. ASSUME NEW j \in 1..i, ~history[j].err PROVE j \in successful /\ j =< i
    BY <1>2, <2>1, <2>3
  <2> QED
    BY <2>2, <2>3
<1>4. i \in Candidates(history)
  BY <1>1, <1>2, <1>3 DEF Candidates
<1> QED
  BY <1>1, <1>4

(* Whoever asks after a withdrawal was answered is told of it, or the node    *)
(* does not answer for its history or the close lies deeper in it than        *)
(* verify() looks, while no call is begun before the one before it is settled.*)
THEOREM WithdrawalSeen == Spec => WithdrawalIsSeen
<1>1. IInv /\ [Next]_vars => [~raced => \A v \in Verifies : ToldOfWithdrawal(v)]_vars
  <2> SUFFICES ASSUME IInv, Next, ~raced, NEW v \in Verifies,
                      verifies[v].phase # "done", verifies'[v].phase = "done", verifies[v].afterClose
               PROVE  \/ verifies'[v].status \in {"revoked", "reference-mismatch"}
                      \/ verifies'[v].status = "not-found" /\ (~verifies'[v].heard \/ ~InReach)
    BY DEF ToldOfWithdrawal
  <2>1. PICK old : old = verifies[v]
    OBVIOUS
  <2>2. verifies \in [Verifies -> Verification] /\ old \in Verification /\ VerifyOK(old)
    BY <2>1 DEF IInv, TypeOK, VerifyInv
  <2>3. old.afterClose /\ old.phase # "done"
    BY <2>1
  <2>4. CASE judge(v)
    <3>1. old.schema # None /\ old.schema # "absent" /\ old.account # Unknown /\ old.phase = "reading"
      BY <2>1, <2>2, <2>3, <2>4 DEF judge, VerifyOK
    <3>2. CASE old.account = None
      <4>1. verifies'[v] = [old EXCEPT !.phase = "searching"]
        BY <2>1, <2>2, <2>4, <3>1, <3>2 DEF judge
      <4> QED
        BY <2>2, <4>1 DEF Verification
    <3>3. CASE old.account # None
      <4>1. old.account.referenceId # old.asked.referenceId
        BY <2>2, <2>3, <3>1, <3>3 DEF VerifyOK, Verification
      <4>2. StatusOf(old) = "reference-mismatch"
        BY <4>1 DEF StatusOf
      <4>3. verifies'[v] = Concluded(old, "reference-mismatch")
        BY <2>1, <2>2, <2>4, <3>1, <3>3, <4>2 DEF judge
      <4>4. PICK w : w = verifies'[v]
        OBVIOUS
      <4>5. w.status = "reference-mismatch"
        BY <2>2, <3>1, <4>3, <4>4, ConcludedFacts DEF Statuses
      <4> QED
        BY <4>4, <4>5
    <3> QED
      BY <3>2, <3>3
  <2>5. CASE findRevocation(v)
    <3>1. PICK unread \in SUBSET Candidates(history) :
            verifies' = [verifies EXCEPT ![v] =
              [Concluded(@, IF \E i \in Candidates(history) \ unread : history[i].closes THEN "revoked" ELSE "not-found")
                 EXCEPT !.heard = (unread = {})]]
      BY <2>5 DEF findRevocation
    <3>2. PICK status \in {"revoked", "not-found"} :
            status = IF \E i \in Candidates(history) \ unread : history[i].closes THEN "revoked" ELSE "not-found"
      OBVIOUS
    <3>3. PICK heard \in BOOLEAN : heard = (unread = {})
      BY Zenon
    <3>4. PICK mid : mid = Concluded(old, status)
      OBVIOUS
    <3>5. PICK w : w = [mid EXCEPT !.heard = heard]
      OBVIOUS
    <3>6. verifies' = [verifies EXCEPT ![v] = w]
      BY <2>1, <3>1, <3>2, <3>3, <3>4, <3>5, Zenon
    <3>7. old.phase # "new"
      BY <2>1, <2>5 DEF findRevocation
    <3>8. mid \in Verification /\ mid.status = status
      BY <2>2, <3>2, <3>4, <3>7, ConcludedFacts DEF Statuses
    <3>9. w.status = status /\ w.heard = heard
      BY <3>5, <3>8 DEF Verification
    <3>10. verifies'[v] = w
      BY <2>2, <3>6
    <3>11. heard => unread = {}
      BY <3>3, Zenon
    <3>12. heard /\ InReach => status = "revoked"
      BY <3>2, <3>11, ReachIsCandidate
    <3> QED
      BY <3>2, <3>9, <3>10, <3>12
  <2>6. CASE ~judge(v) /\ ~findRevocation(v)
    <3>1. PICK w : w = verifies'[v]
      OBVIOUS
    <3>2. w.phase # "done"
      <4>1. CASE \E u \in Verifies : Verify(u)
        <5>1. PICK u \in Verifies : Verify(u)
          BY <4>1
        <5>2. CASE u # v
          <6>1. \E x : verifies' = [verifies EXCEPT ![u] = x]
            BY <5>1 DEF Verify, ask, fetchSchema, fetchAttestation, judge, findRevocation
          <6> QED
            BY <2>1, <2>2, <2>3, <3>1, <5>2, <6>1
        <5>3. CASE u = v
          <6>1. CASE \E asked \in Question : ask(v, asked)
            <7>1. PICK x : verifies' = [verifies EXCEPT ![v] = x] /\ x.phase = "reading"
              BY <6>1, AskFacts
            <7> QED
              BY <2>2, <3>1, <7>1
          <6>2. CASE fetchSchema(v)
            <7>1. PICK x : w = [old EXCEPT !.schema = x]
              BY <2>1, <2>2, <3>1, <6>2 DEF fetchSchema
            <7> QED
              BY <2>2, <2>3, <7>1 DEF Verification
          <6>3. CASE fetchAttestation(v)
            <7>1. PICK x : w = [old EXCEPT !.account = x]
              BY <2>1, <2>2, <3>1, <6>3 DEF fetchAttestation
            <7> QED
              BY <2>2, <2>3, <7>1 DEF Verification
          <6> QED
            BY <2>6, <5>1, <5>3, <6>1, <6>2, <6>3 DEF Verify
        <5> QED
          BY <5>2, <5>3
      <4>2. CASE ~\E u \in Verifies : Verify(u)
        <5>1. CASE UNCHANGED verifies
          BY <2>1, <2>3, <3>1, <5>1
        <5>2. CASE \E c \in Calls, data \in Attestation : issue(c, data)
          <6>1. w = old \/ w = [old EXCEPT !.afterClose = FALSE]
            BY <2>1, <2>2, <3>1, <5>2 DEF issue
          <6> QED
            BY <2>2, <2>3, <6>1 DEF Verification
        <5>3. (\E c \in Calls, data \in Attestation : issue(c, data)) \/ UNCHANGED verifies
          BY <4>2 DEF Next, Write, closeAttestation, setupIssuer, sign, send, land, confirm, Traffic,
             ChangeSchemaStatus, Tick
        <5> QED
          BY <5>1, <5>2, <5>3
      <4> QED
        BY <4>1, <4>2
    <3> QED
      BY <3>1, <3>2
  <2> QED
    BY <2>4, <2>5, <2>6
<1> QED
  BY <1>1, Inductive, PTL DEF Spec, WithdrawalIsSeen
==============================================================================
