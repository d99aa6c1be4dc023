-------------------------- MODULE EconomyMergeProofs --------------------------
(***************************************************************************)
(* Proofs about the merge rules for any instances, bets, slugs and times   *)
(***************************************************************************)
EXTENDS EconomyMerge, FiniteSetTheorems, TLAPS

-----------------------------------------------------------------------------
(***************************************************************************)
(* What each rule returns                                                  *)
(***************************************************************************)

\* The later of two times is one of them, and no earlier than either.
LEMMA LaterBounds ==
    ASSUME NEW x \in Nat, NEW y \in Nat
    PROVE  /\ Later(x, y) \in {x, y}
           /\ Later(x, y) >= x /\ Later(x, y) >= y
  BY DEF Later

\* The smallest of at most two numbers is one of them.
LEMMA MinOfTwo ==
    ASSUME NEW x \in Nat, NEW y \in Nat, NEW S \in SUBSET {x, y}, S # {}
    PROVE  Min(S) \in S
<1>1. \E m \in S : \A z \in S : m <= z
  <2>1. CASE S = {x}
    BY <2>1
  <2>2. CASE S = {y}
    BY <2>2
  <2>3. CASE S = {x, y}
    <3>1. x <= y \/ y <= x
      OBVIOUS
    <3> QED
      BY <2>3, <3>1
  <2> QED
    BY <2>1, <2>2, <2>3
<1> QED
  BY <1>1 DEF Min

\* A standing quarantine of a merge is one of the two sides', and after every release.
LEMMA ActiveOfMerge ==
    ASSUME NEW l \in Views, NEW r \in Views, NEW s \in Slugs
    PROVE  LET merged == MergeActive(l, r)[s]
               cutoff == MergeReleased(l, r)[s]
           IN  /\ merged \in {0, l.active[s], r.active[s]}
               /\ merged # 0 => merged > cutoff
               /\ merged = 0 => l.active[s] <= cutoff /\ r.active[s] <= cutoff
<1> DEFINE cutoff == MergeReleased(l, r)[s]
           standing == {t \in {l.active[s], r.active[s]} : t > cutoff}
<1>1. l.active[s] \in Nat /\ r.active[s] \in Nat /\ l.released[s] \in Nat /\ r.released[s] \in Nat
  BY MergeAssumption DEF Views
<1>2. cutoff \in Nat
  BY <1>1 DEF MergeReleased, Later
<1>3. MergeActive(l, r)[s] = IF standing = {} THEN 0 ELSE Min(standing)
  BY DEF MergeActive
<1>4. standing # {} => Min(standing) \in standing
  <2>1. standing \in SUBSET {l.active[s], r.active[s]}
    OBVIOUS
  <2> HIDE DEF standing
  <2> QED
    BY <1>1, <2>1, MinOfTwo
<1> HIDE DEF cutoff
<1>5. standing = {} => l.active[s] <= cutoff /\ r.active[s] <= cutoff
  BY <1>1, <1>2
<1>6. standing # {} => Min(standing) > cutoff /\ Min(standing) \in {l.active[s], r.active[s]}
  BY <1>4
<1>7. standing # {} => Min(standing) # 0
  BY <1>1, <1>2, <1>6
<1> HIDE DEF standing
<1> QED
  BY <1>3, <1>5, <1>6, <1>7 DEF cutoff

\* The breaker of a merge is one of the two sides'.
LEMMA BreakerOfMerge ==
    ASSUME NEW l, NEW r
    PROVE  MergeBreaker(l, r) \in {l, r}
  BY DEF MergeBreaker

\* The evidence of a breaker is a time.
LEMMA EvidenceType ==
    ASSUME NEW b \in Breakers
    PROVE  breakerEvidenceTs(b) \in Nat
  BY MergeAssumption DEF Breakers, breakerEvidenceTs, Later

\* A merge of two views is a view.
LEMMA MergeType ==
    ASSUME NEW l \in Views, NEW r \in Views
    PROVE  mergeEconomyEnvelopes(l, r) \in Views
<1>1. pickLedgerEntry(l, r) \in {l, r}
  BY DEF pickLedgerEntry
<1>2. betterReputation(l, r) \in {l, r}
  BY DEF betterReputation
<1>3. MergeBreaker(l.breaker, r.breaker) \in Breakers
  BY BreakerOfMerge DEF Views
<1>4. MergeActive(l, r) \in [Slugs -> 0..MaxTime]
  <2>1. \A s \in Slugs : MergeActive(l, r)[s] \in 0..MaxTime
    BY ActiveOfMerge, MergeAssumption DEF Views
  <2>2. MergeActive(l, r) = [s \in Slugs |-> MergeActive(l, r)[s]]
    BY DEF MergeActive
  <2> QED
    BY <2>1, <2>2
<1>5. MergeReleased(l, r) \in [Slugs -> 0..MaxTime]
  BY MergeAssumption DEF Views, MergeReleased, Later
<1>6. NewerEvidence(l.evidence, r.evidence) \in [MarketIds -> 0..MaxTime]
  BY MergeAssumption DEF Views, NewerEvidence, Later
<1>7. MergeCounter(l.counter, r.counter) \in 0..MaxActions
  BY MergeAssumption DEF Views, MergeCounter, Later
<1>8. MergeCreated(l.created, r.created) \in [Slugs -> Definitions \cup {None}]
  BY DEF Views, MergeCreated
<1>9. /\ MergeKeys(l.keys, r.keys) \in SUBSET BetKeys
      /\ l.judged \cup r.judged \in SUBSET MarketIds
      /\ l.bonds \cup r.bonds \in SUBSET Bonds
  BY DEF Views, MergeKeys
<1>10. /\ pickLedgerEntry(l, r).counted \in [BetKeys -> Nat]
       /\ pickLedgerEntry(l, r).settled \in Outcomes \cup {None}
  BY <1>1 DEF Views
<1>11. betterReputation(l, r).resolved \in Nat /\ betterReputation(l, r).accurate \in Nat
  BY <1>2 DEF Views
<1> QED
  BY <1>3, <1>4, <1>5, <1>6, <1>7, <1>8, <1>9, <1>10, <1>11 DEF mergeEconomyEnvelopes, Views

\* Memory after an import is a view.
LEMMA ApplyType ==
    ASSUME NEW v \in Views, NEW envelope \in Views
    PROVE  applyEconomyState(v, envelope) \in Views
<1>1. NewerEvidence(v.evidence, envelope.evidence) \in [MarketIds -> 0..MaxTime]
  BY MergeAssumption DEF Views, NewerEvidence, Later
<1> QED
  BY <1>1 DEF applyEconomyState, Views
-----------------------------------------------------------------------------
(***************************************************************************)
(* What a merge keeps of the stored side                                   *)
(***************************************************************************)

\* The facts of a merge are both sides' facts.
LEMMA FactsOfMerge ==
    ASSUME NEW l \in Views, NEW r \in Views
    PROVE  Facts(mergeEconomyEnvelopes(l, r)) = Facts(l) \cup Facts(r)
<1> DEFINE merged == mergeEconomyEnvelopes(l, r)
<1>1. /\ merged.keys = l.keys \cup r.keys
      /\ merged.judged = l.judged \cup r.judged
      /\ merged.bonds = l.bonds \cup r.bonds
  BY DEF mergeEconomyEnvelopes, MergeKeys
<1>2. \A s \in Slugs : merged.created[s] # None <=> l.created[s] # None \/ r.created[s] # None
  BY DEF mergeEconomyEnvelopes, MergeCreated
<1>3. merged.settled # None <=> l.settled # None \/ r.settled # None
  BY DEF mergeEconomyEnvelopes, pickLedgerEntry, RemoteEntryWins
<1> HIDE DEF merged
<1>4. {<<"created", s>> : s \in {t \in Slugs : merged.created[t] # None}}
        = {<<"created", s>> : s \in {t \in Slugs : l.created[t] # None}}
            \cup {<<"created", s>> : s \in {t \in Slugs : r.created[t] # None}}
  BY <1>2
<1>5. (IF merged.settled # None THEN {<<"settled">>} ELSE {})
        = (IF l.settled # None THEN {<<"settled">>} ELSE {})
            \cup (IF r.settled # None THEN {<<"settled">>} ELSE {})
  BY <1>3
<1>6. {<<"bet", b>> : b \in merged.keys}
        = {<<"bet", b>> : b \in l.keys} \cup {<<"bet", b>> : b \in r.keys}
  BY <1>1
<1>7. {<<"judged", m>> : m \in merged.judged}
        = {<<"judged", m>> : m \in l.judged} \cup {<<"judged", m>> : m \in r.judged}
  BY <1>1
<1>8. {<<"bond", p>> : p \in merged.bonds}
        = {<<"bond", p>> : p \in l.bonds} \cup {<<"bond", p>> : p \in r.bonds}
  BY <1>1
<1>9. Facts(merged) = Facts(l) \cup Facts(r)
  BY <1>4, <1>5, <1>6, <1>7, <1>8, Zenon DEF Facts
<1> QED
  BY <1>9 DEF merged

\* A stored settlement stays settled.
LEMMA MergeKeepsSettlement ==
    ASSUME NEW l, NEW r, r.settled # None
    PROVE  mergeEconomyEnvelopes(l, r).settled # None
  BY DEF mergeEconomyEnvelopes, pickLedgerEntry, RemoteEntryWins

\* A stored launch stays what it is.
LEMMA MergeKeepsLaunch ==
    ASSUME NEW l, NEW r, NEW s \in Slugs, r.created[s] # None
    PROVE  mergeEconomyEnvelopes(l, r).created[s] = r.created[s]
  BY DEF mergeEconomyEnvelopes, MergeCreated

\* A stored release stands, and a stored quarantine is lifted by releases only.
LEMMA MergeKeepsReleases ==
    ASSUME NEW l \in Views, NEW r \in Views, NEW s \in Slugs,
           NEW merged, merged = mergeEconomyEnvelopes(l, r)
    PROVE  /\ merged.released[s] >= r.released[s]
           /\ merged.active[s] # 0 => merged.active[s] > r.released[s]
           /\ r.active[s] # 0 /\ merged.active[s] = 0 => merged.released[s] >= r.active[s]
<1>1. /\ l.released[s] \in Nat /\ r.released[s] \in Nat
      /\ l.active[s] \in Nat /\ r.active[s] \in Nat
  BY MergeAssumption DEF Views
<1>2. /\ merged.active = MergeActive(l, r)
      /\ merged.released = MergeReleased(l, r)
  BY DEF mergeEconomyEnvelopes
<1>3. /\ MergeReleased(l, r)[s] \in Nat
      /\ MergeReleased(l, r)[s] >= r.released[s]
  BY <1>1 DEF MergeReleased, Later
<1>4. /\ MergeActive(l, r)[s] \in Nat
      /\ MergeActive(l, r)[s] # 0 => MergeActive(l, r)[s] > MergeReleased(l, r)[s]
      /\ MergeActive(l, r)[s] = 0 => r.active[s] <= MergeReleased(l, r)[s]
  BY <1>1, ActiveOfMerge
<1> QED
  BY <1>1, <1>2, <1>3, <1>4

\* The newest evidence decides, and of equal evidence the one with more failures.
LEMMA MergeKeepsEvidence ==
    ASSUME NEW l \in Views, NEW r \in Views,
           NEW merged, merged = mergeEconomyEnvelopes(l, r)
    PROVE  LET old == breakerEvidenceTs(r.breaker)
               new == breakerEvidenceTs(merged.breaker)
           IN  new >= old /\ (new = old => merged.breaker.failures >= r.breaker.failures)
<1>1. l.breaker \in Breakers /\ r.breaker \in Breakers
  BY DEF Views
<1>2. breakerEvidenceTs(l.breaker) \in Nat /\ breakerEvidenceTs(r.breaker) \in Nat
  BY <1>1, EvidenceType
<1>3. l.breaker.failures \in Nat /\ r.breaker.failures \in Nat
  BY <1>1, MergeAssumption DEF Breakers
<1>4. merged.breaker = MergeBreaker(l.breaker, r.breaker)
  BY DEF mergeEconomyEnvelopes
<1> QED
  BY <1>2, <1>3, <1>4 DEF MergeBreaker
-----------------------------------------------------------------------------
(***************************************************************************)
(* Nothing is counted twice: the invariant of one view                     *)
(***************************************************************************)

\* A view counts a bet or a resolution only under a remembered key.
CountedOnce(v) ==
    /\ \A b \in BetKeys : v.counted[b] <= (IF b \in v.keys THEN 1 ELSE 0)
    /\ v.resolved <= Cardinality(v.judged)

Good(v) == v \in Views /\ CountedOnce(v)

Inv ==
    /\ Good(kv) /\ \A i \in Instances : Good(mem[i])
    /\ TypeOK

\* More markets judged are not fewer.
LEMMA JudgedGrow ==
    ASSUME NEW J \in SUBSET MarketIds, NEW K \in SUBSET MarketIds
    PROVE  /\ Cardinality(J) \in Nat /\ Cardinality(J \cup K) \in Nat
           /\ Cardinality(J) <= Cardinality(J \cup K)
<1>1. J \cup K \in SUBSET MarketIds /\ J \subseteq J \cup K
  OBVIOUS
<1>2. IsFiniteSet(J \cup K) /\ IsFiniteSet(J)
  BY <1>1, FS_Subset, MergeAssumption
<1> QED
  BY <1>1, <1>2, FS_Subset, FS_CardinalityType

\* A merge counts nothing twice: counts come from one side, keys from both.
LEMMA MergeCountsOnce ==
    ASSUME NEW l, NEW r, Good(l), Good(r)
    PROVE  Good(mergeEconomyEnvelopes(l, r))
<1> DEFINE merged == mergeEconomyEnvelopes(l, r)
<1>1. merged \in Views
  BY MergeType DEF Good
<1>2. \A b \in BetKeys : merged.counted[b] <= (IF b \in merged.keys THEN 1 ELSE 0)
  <2>1. merged.keys = l.keys \cup r.keys
    BY DEF mergeEconomyEnvelopes, MergeKeys
  <2>2. merged.counted = l.counted \/ merged.counted = r.counted
    BY DEF mergeEconomyEnvelopes, pickLedgerEntry
  <2>3. \A b \in BetKeys : l.counted[b] \in Nat /\ r.counted[b] \in Nat
    BY DEF Good, Views
  <2> HIDE DEF merged
  <2> QED
    BY <2>1, <2>2, <2>3 DEF Good, CountedOnce
<1>3. merged.resolved <= Cardinality(merged.judged)
  <2>1. merged.judged = l.judged \cup r.judged
    BY DEF mergeEconomyEnvelopes
  <2>2. merged.resolved = l.resolved \/ merged.resolved = r.resolved
    BY DEF mergeEconomyEnvelopes, betterReputation
  <2>3. /\ l.judged \in SUBSET MarketIds /\ r.judged \in SUBSET MarketIds
        /\ l.resolved \in Nat /\ r.resolved \in Nat
    BY DEF Good, Views
  <2>4. /\ l.resolved <= Cardinality(l.judged)
        /\ r.resolved <= Cardinality(r.judged)
    BY DEF Good, CountedOnce
  <2>5. /\ Cardinality(l.judged) \in Nat /\ Cardinality(r.judged) \in Nat
        /\ Cardinality(l.judged \cup r.judged) \in Nat
        /\ Cardinality(l.judged) <= Cardinality(l.judged \cup r.judged)
        /\ Cardinality(r.judged) <= Cardinality(l.judged \cup r.judged)
    <3>1. l.judged \cup r.judged = r.judged \cup l.judged
      OBVIOUS
    <3> QED
      BY <2>3, <3>1, JudgedGrow
  <2> HIDE DEF merged
  <2> QED
    BY <2>1, <2>2, <2>3, <2>4, <2>5
<1> QED
  BY <1>1, <1>2, <1>3 DEF Good, CountedOnce

\* Nor does an import.
LEMMA ApplyCountsOnce ==
    ASSUME NEW v, NEW envelope, Good(v), Good(envelope)
    PROVE  Good(applyEconomyState(v, envelope))
<1> DEFINE view == applyEconomyState(v, envelope)
<1>1. view \in Views
  BY ApplyType DEF Good
<1>2. /\ view.counted = envelope.counted /\ view.keys = envelope.keys
      /\ view.resolved = envelope.resolved /\ view.judged = envelope.judged
  BY DEF applyEconomyState, Good, Views
<1> HIDE DEF view
<1>3. CountedOnce(view)
  BY <1>2 DEF Good, CountedOnce
<1> QED
  BY <1>1, <1>3 DEF Good, view

\* The empty view counts nothing.
LEMMA SeedIsGood == Good(Seed)
<1>1. Seed \in Views
  BY MergeAssumption DEF Seed, Views, Breakers
<1>2. Cardinality({}) = 0
  BY FS_EmptySet
<1> QED
  BY <1>1, <1>2 DEF Good, CountedOnce, Seed
-----------------------------------------------------------------------------
(***************************************************************************)
(* The operations keep every view good                                     *)
(***************************************************************************)

\* A mutation replaces one memory by a good view and touches no other view.
LEMMA MutateKeepsGood ==
    ASSUME Inv, NEW i \in Instances, NEW view, NEW firesHook \in BOOLEAN,
           Good(view), Mutate(i, view, firesHook)
    PROVE  /\ Good(kv') /\ \A j \in Instances : Good(mem'[j])
           /\ kv' \in Views /\ mem' \in [Instances -> Views]
           /\ dirty' \in [Instances -> BOOLEAN]
           /\ now' \in 1..MaxTime /\ focus' \in Slices
<1>1. /\ kv' = kv /\ now' = now /\ focus' = focus
      /\ mem' = [mem EXCEPT ![i] = view]
      /\ dirty' = [dirty EXCEPT ![i] = @ \/ firesHook]
  BY DEF Mutate
<1>2. /\ mem \in [Instances -> Views] /\ dirty \in [Instances -> BOOLEAN]
      /\ now \in 1..MaxTime /\ focus \in Slices /\ kv \in Views
  BY DEF Inv, TypeOK
<1>3. \A j \in Instances : mem'[j] = IF j = i THEN view ELSE mem[j]
  BY <1>1, <1>2
<1>4. \A j \in Instances : Good(mem'[j])
  BY <1>3 DEF Inv
<1>5. view \in Views
  BY DEF Good
<1>6. mem' \in [Instances -> Views]
  BY <1>1, <1>2, <1>5
<1>7. dirty' \in [Instances -> BOOLEAN]
  BY <1>1, <1>2
<1> QED
  BY <1>1, <1>2, <1>4, <1>6, <1>7 DEF Inv

\* A bet counted under its fresh key, a settlement: the view stays good.
LEMMA SettlementViews ==
    ASSUME NEW v, Good(v)
    PROVE  /\ \A b \in BetKeys : b \notin v.keys =>
                 Good([v EXCEPT !.counted[b] = @ + 1, !.keys = @ \cup {b}])
           /\ \A o \in Outcomes : Good([v EXCEPT !.settled = o])
<1>1. v \in Views /\ CountedOnce(v)
  BY DEF Good
<1>2. ASSUME NEW b \in BetKeys, b \notin v.keys
      PROVE  Good([v EXCEPT !.counted[b] = @ + 1, !.keys = @ \cup {b}])
  <2> DEFINE view == [v EXCEPT !.counted[b] = @ + 1, !.keys = @ \cup {b}]
  <2>1. /\ view.counted = [v.counted EXCEPT ![b] = @ + 1]
        /\ view.keys = v.keys \cup {b}
        /\ view.resolved = v.resolved /\ view.judged = v.judged
    BY <1>1 DEF Views
  <2>2. v.counted \in [BetKeys -> Nat]
    BY <1>1 DEF Views
  <2>3. v.counted[b] = 0
    BY <1>1, <1>2, <2>2 DEF CountedOnce
  <2>4. \A c \in BetKeys : view.counted[c] = IF c = b THEN 1 ELSE v.counted[c]
    BY <2>1, <2>2, <2>3
  <2>5. [v.counted EXCEPT ![b] = @ + 1] \in [BetKeys -> Nat]
    BY <2>2, <2>3
  <2>6. v.keys \cup {b} \in SUBSET BetKeys
    BY <1>1 DEF Views
  <2>7. view \in Views
    BY <1>1, <2>5, <2>6 DEF Views
  <2> HIDE DEF view
  <2>8. CountedOnce(view)
    BY <1>1, <2>1, <2>2, <2>4 DEF CountedOnce
  <2> QED
    BY <2>7, <2>8 DEF Good, view
<1>3. ASSUME NEW o \in Outcomes
      PROVE  Good([v EXCEPT !.settled = o])
  BY <1>1 DEF Good, CountedOnce, Views
<1> QED
  BY <1>2, <1>3

\* A resolution counted under its fresh key: the view stays good.
LEMMA OracleView ==
    ASSUME NEW v, Good(v), NEW m \in MarketIds, m \notin v.judged, NEW accurate \in BOOLEAN
    PROVE  Good([v EXCEPT !.resolved = @ + 1, !.judged = @ \cup {m},
                          !.accurate = IF accurate THEN @ + 1 ELSE @])
<1> DEFINE view == [v EXCEPT !.resolved = @ + 1, !.judged = @ \cup {m},
                             !.accurate = IF accurate THEN @ + 1 ELSE @]
<1>1. v \in Views /\ CountedOnce(v)
  BY DEF Good
<1>2. /\ view.counted = v.counted /\ view.keys = v.keys
      /\ view.resolved = v.resolved + 1 /\ view.judged = v.judged \cup {m}
  BY <1>1 DEF Views
<1>3. v.judged \in SUBSET MarketIds /\ v.resolved \in Nat
  BY <1>1 DEF Views
<1>4. IsFiniteSet(v.judged)
  BY <1>3, FS_Subset, MergeAssumption
<1>5. /\ Cardinality(v.judged \cup {m}) = Cardinality(v.judged) + 1
      /\ Cardinality(v.judged) \in Nat
  BY <1>4, FS_AddElement, FS_CardinalityType
<1>6. view \in Views
  <2>1. (IF accurate THEN v.accurate + 1 ELSE v.accurate) \in Nat
    BY <1>1 DEF Views
  <2>2. v.judged \cup {m} \in SUBSET MarketIds /\ v.resolved + 1 \in Nat
    BY <1>3
  <2> QED
    BY <1>1, <2>1, <2>2 DEF Views
<1> HIDE DEF view
<1>7. CountedOnce(view)
  BY <1>1, <1>2, <1>3, <1>5, SMTT(40) DEF CountedOnce
<1> QED
  BY <1>6, <1>7 DEF Good, view

\* The other operations touch neither counts nor keys.
LEMMA OtherViews ==
    ASSUME Inv, NEW v, Good(v)
    PROVE  /\ v.counter < MaxActions => Good([v EXCEPT !.counter = @ + 1])
           /\ \A s \in Slugs, d \in Definitions : Good([v EXCEPT !.created[s] = d])
           /\ v.breaker.failures < MaxFailures => Good([v EXCEPT !.breaker = AfterFailure(@)])
           /\ Good([v EXCEPT !.breaker = AfterPlacement])
           /\ \A s \in Slugs : Good([v EXCEPT !.active[s] = now, !.released[s] = 0])
           /\ \A s \in Slugs : Good([v EXCEPT !.active[s] = 0, !.released[s] = Later(now, @)])
           /\ \A m \in MarketIds : Good([v EXCEPT !.evidence[m] = now])
           /\ \A p \in Bonds : /\ Good([v EXCEPT !.bonds = @ \cup {p}])
                               /\ Good([v EXCEPT !.bonds = @ \ {p}])
<1>1. v \in Views /\ CountedOnce(v)
  BY DEF Good
<1>2. now \in 1..MaxTime /\ now \in 0..MaxTime
  BY DEF Inv, TypeOK
<1>3. v.counter < MaxActions => Good([v EXCEPT !.counter = @ + 1])
  BY <1>1, MergeAssumption DEF Good, CountedOnce, Views
<1>4. ASSUME NEW s \in Slugs, NEW d \in Definitions
      PROVE  Good([v EXCEPT !.created[s] = d])
  BY <1>1 DEF Good, CountedOnce, Views
<1>5. ASSUME v.breaker.failures < MaxFailures
      PROVE  Good([v EXCEPT !.breaker = AfterFailure(@)])
  <2>1. v.breaker \in Breakers
    BY <1>1 DEF Views
  <2>2. AfterFailure(v.breaker) \in Breakers
    BY <1>2, <1>5, <2>1, MergeAssumption DEF AfterFailure, Breakers
  <2> QED
    BY <1>1, <2>2 DEF Good, CountedOnce, Views
<1>6. Good([v EXCEPT !.breaker = AfterPlacement])
  <2>1. AfterPlacement \in Breakers
    BY <1>2, MergeAssumption DEF AfterPlacement, Breakers
  <2> QED
    BY <1>1, <2>1 DEF Good, CountedOnce, Views
<1>7. ASSUME NEW s \in Slugs
      PROVE  Good([v EXCEPT !.active[s] = now, !.released[s] = 0])
  <2>1. /\ [v.active EXCEPT ![s] = now] \in [Slugs -> 0..MaxTime]
        /\ [v.released EXCEPT ![s] = 0] \in [Slugs -> 0..MaxTime]
    BY <1>1, <1>2, MergeAssumption DEF Views
  <2> QED
    BY <1>1, <2>1 DEF Good, CountedOnce, Views
<1>8. ASSUME NEW s \in Slugs
      PROVE  Good([v EXCEPT !.active[s] = 0, !.released[s] = Later(now, @)])
  <2>1. Later(now, v.released[s]) \in 0..MaxTime
    BY <1>1, <1>2, MergeAssumption DEF Views, Later
  <2>2. /\ [v.active EXCEPT ![s] = 0] \in [Slugs -> 0..MaxTime]
        /\ [v.released EXCEPT ![s] = Later(now, @)] \in [Slugs -> 0..MaxTime]
    BY <1>1, <1>2, <2>1, MergeAssumption DEF Views
  <2> QED
    BY <1>1, <2>2 DEF Good, CountedOnce, Views
<1>9. ASSUME NEW m \in MarketIds
      PROVE  Good([v EXCEPT !.evidence[m] = now])
  BY <1>1, <1>2 DEF Good, CountedOnce, Views
<1>10. ASSUME NEW p \in Bonds
       PROVE  Good([v EXCEPT !.bonds = @ \cup {p}]) /\ Good([v EXCEPT !.bonds = @ \ {p}])
  BY <1>1 DEF Good, CountedOnce, Views
<1> QED
  BY <1>3, <1>4, <1>5, <1>6, <1>7, <1>8, <1>9, <1>10
-----------------------------------------------------------------------------
(***************************************************************************)
(* Every step keeps the invariant                                          *)
(***************************************************************************)

\* Publishing, refused or not, and re-reading keep every view good.
LEMMA ImportsKeepGood ==
    ASSUME Inv, NEW i \in Instances, Publish(i) \/ PublishRefused(i) \/ Hydrate(i)
    PROVE  Inv'
<1> DEFINE union == mergeEconomyEnvelopes(mem[i], kv)
<1>1. Good(mem[i]) /\ Good(kv) /\ Good(union)
  BY MergeCountsOnce DEF Inv
<1>2. Good(applyEconomyState(mem[i], union)) /\ Good(applyEconomyState(mem[i], kv))
  BY <1>1, ApplyCountsOnce
<1>3. PICK view : Good(view) /\ mem' = [mem EXCEPT ![i] = view]
  BY <1>2 DEF Publish, PublishRefused, Hydrate
<1>4. Good(kv')
  BY <1>1 DEF Publish, PublishRefused, Hydrate
<1>5. mem \in [Instances -> Views] /\ dirty \in [Instances -> BOOLEAN]
  BY DEF Inv, TypeOK
<1>6. mem' \in [Instances -> Views] /\ \A j \in Instances : Good(mem'[j])
  BY <1>3, <1>5 DEF Good, Inv
<1>7. dirty' \in [Instances -> BOOLEAN]
  BY <1>5 DEF Publish, PublishRefused, Hydrate
<1>8. UNCHANGED <<now, claims, focus, recorded>>
  BY DEF Publish, PublishRefused, Hydrate
<1> QED
  BY <1>4, <1>6, <1>7, <1>8 DEF Inv, TypeOK, Good

\* A mutation with a good view keeps the invariant.
LEMMA MutationKeepsInv ==
    ASSUME Inv, NEW i \in Instances, NEW view, NEW firesHook \in BOOLEAN,
           Good(view), Mutate(i, view, firesHook),
           claims' \in [Instances -> SUBSET Bonds], recorded' \in [Instances -> 0..MaxTime]
    PROVE  Inv'
  BY MutateKeepsGood DEF Inv, TypeOK

\* The mutations that leave creations in flight and counted failures alone.
LEMMA LedgersKeepInv ==
    ASSUME Inv, NEW i \in Instances,
           \/ \E b \in BetKeys : RecordBet(i, b)
           \/ \E o \in Outcomes : Settle(i, o)
           \/ \E m \in MarketIds, accurate \in BOOLEAN : RecordResolution(i, m, accurate)
           \/ AppendAction(i)
           \/ \E s \in Slugs, d \in Definitions : AddCreatedMarket(i, s, d)
           \/ \E s \in Slugs : QuarantineMarket(i, s) \/ ReleaseMarket(i, s)
           \/ \E m \in MarketIds : RecordResolutionEvidence(i, m)
    PROVE  Inv'
<1> DEFINE v == mem[i]
<1>1. Good(v)
  BY DEF Inv
<1>2. Keeps => /\ claims' \in [Instances -> SUBSET Bonds]
               /\ recorded' \in [Instances -> 0..MaxTime]
  BY DEF Inv, TypeOK, Keeps
<1>3. ASSUME NEW b \in BetKeys, RecordBet(i, b)
      PROVE  Inv'
  <2>1. Good([v EXCEPT !.counted[b] = @ + 1, !.keys = @ \cup {b}])
    BY <1>1, <1>3, SettlementViews DEF RecordBet
  <2> QED
    BY <1>2, <1>3, <2>1, MutationKeepsInv, ZenonT(40) DEF RecordBet
<1>4. ASSUME NEW o \in Outcomes, Settle(i, o)
      PROVE  Inv'
  <2>1. Good([v EXCEPT !.settled = o])
    BY <1>1, SettlementViews
  <2> QED
    BY <1>2, <1>4, <2>1, MutationKeepsInv DEF Settle
<1>5. ASSUME NEW m \in MarketIds, NEW accurate \in BOOLEAN, RecordResolution(i, m, accurate)
      PROVE  Inv'
  <2>1. Good([v EXCEPT !.resolved = @ + 1, !.judged = @ \cup {m},
                       !.accurate = IF accurate THEN @ + 1 ELSE @])
    BY <1>1, <1>5, OracleView DEF RecordResolution
  <2> QED
    BY <1>2, <1>5, <2>1, MutationKeepsInv, ZenonT(40) DEF RecordResolution
<1>6. ASSUME AppendAction(i)
      PROVE  Inv'
  <2>1. Good([v EXCEPT !.counter = @ + 1])
    BY <1>1, <1>6, OtherViews DEF AppendAction
  <2> QED
    BY <1>2, <1>6, <2>1, MutationKeepsInv DEF AppendAction
<1>7. ASSUME NEW s \in Slugs, NEW d \in Definitions, AddCreatedMarket(i, s, d)
      PROVE  Inv'
  <2>1. Good([v EXCEPT !.created[s] = d])
    BY <1>1, OtherViews
  <2> QED
    BY <1>2, <1>7, <2>1, MutationKeepsInv DEF AddCreatedMarket
<1>8. ASSUME NEW s \in Slugs, QuarantineMarket(i, s)
      PROVE  Inv'
  <2>1. Good([v EXCEPT !.active[s] = now, !.released[s] = 0])
    BY <1>1, OtherViews, ZenonT(40)
  <2> QED
    BY <1>2, <1>8, <2>1, MutationKeepsInv, ZenonT(40) DEF QuarantineMarket
<1>9. ASSUME NEW s \in Slugs, ReleaseMarket(i, s)
      PROVE  Inv'
  <2>1. Good([v EXCEPT !.active[s] = 0, !.released[s] = Later(now, @)])
    BY <1>1, OtherViews
  <2> QED
    BY <1>2, <1>9, <2>1, MutationKeepsInv DEF ReleaseMarket
<1>10. ASSUME NEW m \in MarketIds, RecordResolutionEvidence(i, m)
       PROVE  Inv'
  <2>1. Good([v EXCEPT !.evidence[m] = now])
    BY <1>1, OtherViews
  <2> QED
    BY <1>2, <1>10, <2>1, MutationKeepsInv DEF RecordResolutionEvidence
<1> QED
  BY <1>3, <1>4, <1>5, <1>6, <1>7, <1>8, <1>9, <1>10

\* The breaker's operations, which the history follows.
LEMMA BreakerKeepsInv ==
    ASSUME Inv, NEW i \in Instances,
           RecordPaidNotPlaced(i) \/ \E byOperator \in BOOLEAN : RecordPlacement(i, byOperator)
    PROVE  Inv'
<1>1. Good(mem[i])
  BY DEF Inv
<1>2. recorded \in [Instances -> 0..MaxTime] /\ claims \in [Instances -> SUBSET Bonds]
      /\ now \in 0..MaxTime
  BY MergeAssumption DEF Inv, TypeOK
<1>3. ASSUME RecordPaidNotPlaced(i)
      PROVE  Inv'
  <2>1. Good([mem[i] EXCEPT !.breaker = AfterFailure(@)])
    BY <1>1, <1>3, OtherViews DEF RecordPaidNotPlaced
  <2>2. claims' \in [Instances -> SUBSET Bonds] /\ recorded' \in [Instances -> 0..MaxTime]
    BY <1>2, <1>3 DEF RecordPaidNotPlaced
  <2> QED
    BY <1>3, <2>1, <2>2, MutationKeepsInv DEF RecordPaidNotPlaced
<1>4. ASSUME NEW byOperator \in BOOLEAN, RecordPlacement(i, byOperator)
      PROVE  Inv'
  <2>1. Good([mem[i] EXCEPT !.breaker = AfterPlacement])
    BY <1>1, OtherViews
  <2>2. claims' \in [Instances -> SUBSET Bonds] /\ recorded' \in [Instances -> 0..MaxTime]
    BY <1>2, <1>4, MergeAssumption DEF RecordPlacement
  <2>3. (~byOperator) \in BOOLEAN
    OBVIOUS
  <2> QED
    BY <1>4, <2>1, <2>2, <2>3, MutationKeepsInv DEF RecordPlacement
<1> QED
  BY <1>3, <1>4

\* The operations on bonds, whose claims are followed.
LEMMA BondsKeepInv ==
    ASSUME Inv, NEW i \in Instances, NEW p \in Bonds,
           ConsumeBond(i, p) \/ CreateMarketLands(i, p) \/ CreateMarketFails(i, p)
    PROVE  Inv'
<1>1. Good(mem[i])
  BY DEF Inv
<1>2. recorded \in [Instances -> 0..MaxTime] /\ claims \in [Instances -> SUBSET Bonds]
  BY DEF Inv, TypeOK
<1>3. CASE ConsumeBond(i, p)
  <2>1. Good([mem[i] EXCEPT !.bonds = @ \cup {p}])
    BY <1>1, OtherViews
  <2>2. claims' \in [Instances -> SUBSET Bonds] /\ recorded' \in [Instances -> 0..MaxTime]
    BY <1>2, <1>3 DEF ConsumeBond
  <2> QED
    BY <1>3, <2>1, <2>2, MutationKeepsInv DEF ConsumeBond
<1>4. CASE CreateMarketFails(i, p)
  <2>1. Good([mem[i] EXCEPT !.bonds = @ \ {p}])
    BY <1>1, OtherViews
  <2>2. claims' \in [Instances -> SUBSET Bonds] /\ recorded' \in [Instances -> 0..MaxTime]
    BY <1>2, <1>4 DEF CreateMarketFails
  <2> QED
    BY <1>4, <2>1, <2>2, MutationKeepsInv DEF CreateMarketFails
<1>5. CASE CreateMarketLands(i, p)
  <2>1. claims' \in [Instances -> SUBSET Bonds]
    BY <1>2, <1>5 DEF CreateMarketLands
  <2>2. UNCHANGED <<kv, mem, dirty, now, focus, recorded>>
    BY <1>5 DEF CreateMarketLands
  <2> QED
    BY <2>1, <2>2 DEF Inv, TypeOK
<1> QED
  BY <1>3, <1>4, <1>5

\* Every step keeps the invariant.
LEMMA InvStep == Inv /\ [Next]_vars => Inv'
<1> SUFFICES ASSUME Inv, [Next]_vars PROVE Inv'
  OBVIOUS
<1>1. ASSUME NEW i \in Instances, Restart(i)
      PROVE  Inv'
  <2>1. /\ mem \in [Instances -> Views] /\ dirty \in [Instances -> BOOLEAN]
        /\ claims \in [Instances -> SUBSET Bonds] /\ recorded \in [Instances -> 0..MaxTime]
    BY DEF Inv, TypeOK
  <2>2. Good(Seed) /\ Seed \in Views
    BY SeedIsGood DEF Good
  <2>3. mem' \in [Instances -> Views] /\ \A j \in Instances : Good(mem'[j])
    BY <1>1, <2>1, <2>2 DEF Restart, Inv
  <2>4. /\ dirty' \in [Instances -> BOOLEAN]
        /\ claims' \in [Instances -> SUBSET Bonds]
    BY <1>1, <2>1 DEF Restart
  <2>5. recorded' \in [Instances -> 0..MaxTime]
    BY <1>1, <2>1, MergeAssumption DEF Restart
  <2>6. UNCHANGED <<kv, now, focus>>
    BY <1>1 DEF Restart
  <2> QED
    BY <2>3, <2>4, <2>5, <2>6 DEF Inv, TypeOK
<1>2. CASE TimePasses
  <2>1. now' \in 1..MaxTime
    BY <1>2, MergeAssumption DEF TimePasses, Inv, TypeOK
  <2> QED
    BY <1>2, <2>1 DEF TimePasses, Inv, TypeOK
<1>3. CASE UNCHANGED vars
  BY <1>3 DEF vars, Inv, TypeOK
<1> QED
  BY <1>1, <1>2, <1>3, ImportsKeepGood, LedgersKeepInv, BreakerKeepsInv, BondsKeepInv DEF Next
-----------------------------------------------------------------------------
(***************************************************************************)
(* Theorems                                                                *)
(***************************************************************************)

\* The strengthening: every view is a view, and counts nothing twice.
THEOREM Invariance == Spec => []Inv
<1>1. Init => Inv
  <2> SUFFICES ASSUME Init PROVE Inv
    OBVIOUS
  <2>1. Good(Seed) /\ Seed \in Views
    BY SeedIsGood DEF Good
  <2> QED
    BY <2>1, MergeAssumption DEF Init, Inv, TypeOK
<1> QED
  BY <1>1, InvStep, PTL DEF Spec

\* Every variable keeps its type, for any instances, bets, markets and times.
THEOREM TypesAreKept == Spec => []TypeOK
<1>1. Inv => TypeOK
  BY DEF Inv
<1> QED
  BY <1>1, Invariance, PTL

\* No bet and no resolution is counted twice in any memory or in the store, whichever
\* instances observe it, merge, re-read or are recycled.
THEOREM CountedAtMostOnce == Spec => []NothingCountedTwice
<1>1. Inv => NothingCountedTwice
  BY DEF Inv, Good, CountedOnce, NothingCountedTwice
<1> QED
  BY <1>1, Invariance, PTL

\* A merge remembers as done exactly what either side does: EconomyPersistence may treat
\* envelopes as sets.
THEOREM MergeUnitesFacts == Spec => []MergeIsUnionOfFacts
<1>1. Inv => MergeIsUnionOfFacts
  BY FactsOfMerge DEF Inv, Good, MergeIsUnionOfFacts
<1> QED
  BY <1>1, Invariance, PTL

\* The store changes by a merge of some instance's memory into it, or not at all.
LEMMA StoreSteps ==
    ASSUME Inv, [Next]_vars
    PROVE  \/ kv' = kv
           \/ \E i \in Instances : /\ mem[i] \in Views /\ kv \in Views
                                   /\ kv' = mergeEconomyEnvelopes(mem[i], kv)
<1>1. kv \in Views /\ \A i \in Instances : mem[i] \in Views
  BY DEF Inv, Good
<1>2. ASSUME NEW i \in Instances, Publish(i)
      PROVE  kv' = mergeEconomyEnvelopes(mem[i], kv)
  BY <1>2 DEF Publish
<1>3. ASSUME NEW i \in Instances, PublishRefused(i) \/ Hydrate(i) \/ Restart(i)
      PROVE  kv' = kv
  BY <1>3 DEF PublishRefused, Hydrate, Restart
<1>4. ASSUME NEW i \in Instances, NEW p, ConsumeBond(i, p) \/ CreateMarketLands(i, p)
                                         \/ CreateMarketFails(i, p)
      PROVE  kv' = kv
  BY <1>4 DEF ConsumeBond, CreateMarketLands, CreateMarketFails, Mutate
<1>5. ASSUME NEW i \in Instances, NEW byOperator,
             RecordPaidNotPlaced(i) \/ RecordPlacement(i, byOperator) \/ AppendAction(i)
      PROVE  kv' = kv
  BY <1>5 DEF RecordPaidNotPlaced, RecordPlacement, AppendAction, Mutate
<1>6. ASSUME NEW i \in Instances, NEW x, NEW y,
             \/ RecordBet(i, x) \/ Settle(i, x) \/ RecordResolution(i, x, y)
             \/ AddCreatedMarket(i, x, y) \/ QuarantineMarket(i, x) \/ ReleaseMarket(i, x)
             \/ RecordResolutionEvidence(i, x)
      PROVE  kv' = kv
  BY <1>6 DEF RecordBet, Settle, RecordResolution, AddCreatedMarket, QuarantineMarket,
              ReleaseMarket, RecordResolutionEvidence, Mutate
<1>7. TimePasses \/ UNCHANGED vars => kv' = kv
  BY DEF TimePasses, vars
<1> QED
  BY <1>1, <1>2, <1>3, <1>4, <1>5, <1>6, <1>7 DEF Next

\* A market the store shows settled is never shown open again.
THEOREM SettlementsStand == Spec => ResolutionStands
<1>1. Inv /\ [Next]_vars => [kv.settled # None => kv'.settled # None]_vars
  BY StoreSteps, MergeKeepsSettlement
<1> QED
  BY <1>1, Invariance, PTL DEF Spec, ResolutionStands

\* The definition the store holds under a slug is never replaced.
THEOREM LaunchesStand == Spec => FirstLaunchStands
<1>1. Inv /\ [Next]_vars =>
        [\A s \in Slugs : kv.created[s] # None => kv'.created[s] = kv.created[s]]_vars
  BY StoreSteps, MergeKeepsLaunch
<1> QED
  BY <1>1, Invariance, PTL DEF Spec, FirstLaunchStands

\* A quarantine in the store is newer than the newest release of its market.
StoredQuarantinesStand ==
    \A s \in Slugs : kv.active[s] # 0 => kv.active[s] > kv.released[s]

\* A merge leaves standing only what no release on either side has lifted.
LEMMA QuarantinesStand == Spec => []StoredQuarantinesStand
<1>1. Init => StoredQuarantinesStand
  BY DEF Init, Seed, StoredQuarantinesStand
<1>2. Inv /\ StoredQuarantinesStand /\ [Next]_vars => StoredQuarantinesStand'
  <2> SUFFICES ASSUME Inv, StoredQuarantinesStand, [Next]_vars
               PROVE  StoredQuarantinesStand'
    OBVIOUS
  <2>1. CASE kv' = kv
    BY <2>1 DEF StoredQuarantinesStand
  <2>2. ASSUME NEW i \in Instances, mem[i] \in Views, kv \in Views,
               kv' = mergeEconomyEnvelopes(mem[i], kv)
        PROVE  StoredQuarantinesStand'
    <3>1. /\ kv'.active = MergeActive(mem[i], kv)
          /\ kv'.released = MergeReleased(mem[i], kv)
      BY <2>2 DEF mergeEconomyEnvelopes
    <3> QED
      BY <2>2, <3>1, ActiveOfMerge DEF StoredQuarantinesStand
  <2> QED
    BY <2>1, <2>2, StoreSteps
<1> QED
  BY <1>1, <1>2, Invariance, PTL DEF Spec

\* An operator's release is not undone by an instance that still holds what it lifted, and
\* nothing but a release lifts a quarantine.
THEOREM ReleasesStand == Spec => ReleasesLand
<1>1. Inv /\ StoredQuarantinesStand /\ [Next]_vars =>
        [\A s \in Slugs :
            /\ kv'.released[s] >= kv.released[s]
            /\ kv'.active[s] # 0 => kv'.active[s] > kv.released[s]
            /\ kv.active[s] # 0 /\ kv'.active[s] = 0 => kv'.released[s] >= kv.active[s]]_vars
  <2> SUFFICES ASSUME Inv, StoredQuarantinesStand, [Next]_vars, NEW s \in Slugs
               PROVE  /\ kv'.released[s] >= kv.released[s]
                      /\ kv'.active[s] # 0 => kv'.active[s] > kv.released[s]
                      /\ kv.active[s] # 0 /\ kv'.active[s] = 0
                           => kv'.released[s] >= kv.active[s]
    OBVIOUS
  <2>1. CASE kv' = kv
    <3>1. kv.released[s] \in Nat
      BY MergeAssumption DEF Inv, Good, Views
    <3> QED
      BY <2>1, <3>1 DEF StoredQuarantinesStand
  <2>2. CASE \E i \in Instances : /\ mem[i] \in Views /\ kv \in Views
                                  /\ kv' = mergeEconomyEnvelopes(mem[i], kv)
    BY <2>2, MergeKeepsReleases
  <2> QED
    BY <2>1, <2>2, StoreSteps
<1> QED
  BY <1>1, Invariance, QuarantinesStand, PTL DEF Spec, ReleasesLand

\* The stored breaker shows the newest evidence any publisher had, and the failures on a tie.
THEOREM NewestEvidenceWins == Spec => NewestEvidenceDecides
<1> DEFINE P ==
      LET old == breakerEvidenceTs(kv.breaker)
          new == breakerEvidenceTs(kv'.breaker)
      IN  new >= old /\ (new = old => kv'.breaker.failures >= kv.breaker.failures)
<1>1. Inv /\ [Next]_vars => [P]_vars
  <2> SUFFICES ASSUME Inv, [Next]_vars PROVE P
    OBVIOUS
  <2>1. CASE kv' = kv
    <3>1. kv.breaker \in Breakers
      BY DEF Inv, Good, Views
    <3>2. kv.breaker.failures \in Nat /\ breakerEvidenceTs(kv.breaker) \in Nat
      BY <3>1, EvidenceType, MergeAssumption DEF Breakers
    <3> QED
      BY <2>1, <3>2
  <2>2. CASE \E i \in Instances : /\ mem[i] \in Views /\ kv \in Views
                                  /\ kv' = mergeEconomyEnvelopes(mem[i], kv)
    BY <2>2, MergeKeepsEvidence
  <2> QED
    BY <2>1, <2>2, StoreSteps
<1> QED
  BY <1>1, Invariance, PTL DEF Spec, NewestEvidenceDecides
-----------------------------------------------------------------------------
(***************************************************************************)
(* Spent bonds and linked evidence                                         *)
(***************************************************************************)

\* What a step leaves of a memory's evidence and bonds, unless the instance is recycled.
Imports(j) ==
    \E envelope \in {kv, mergeEconomyEnvelopes(mem[j], kv)} :
        mem'[j] = applyEconomyState(mem[j], envelope)

LinksEvidence(j) ==
    \E m \in MarketIds : mem'[j] = [mem[j] EXCEPT !.evidence[m] = now]

KeepsBonds(j) ==
    /\ mem'[j].evidence = mem[j].evidence
    /\ mem[j].bonds \ mem'[j].bonds \subseteq claims[j] \ claims'[j]

\* A mutation of another slice keeps a memory's evidence and bonds.
LEMMA OtherSlicesKeepBonds ==
    ASSUME Inv, NEW i \in Instances, NEW view, NEW firesHook, NEW j \in Instances,
           Mutate(i, view, firesHook), view.evidence = mem[i].evidence,
           mem[i].bonds \ view.bonds \subseteq claims[i] \ claims'[i]
    PROVE  KeepsBonds(j)
<1>1. mem' = [mem EXCEPT ![i] = view] /\ mem \in [Instances -> Views]
  BY DEF Mutate, Inv, TypeOK
<1>2. mem'[j] = IF j = i THEN view ELSE mem[j]
  BY <1>1
<1> QED
  BY <1>2 DEF KeepsBonds

\* Every step does one of four things to a memory.
LEMMA MemorySteps ==
    ASSUME Inv, [Next]_vars, NEW j \in Instances
    PROVE  mem'[j] = Seed \/ Imports(j) \/ LinksEvidence(j) \/ KeepsBonds(j)
<1>1. mem \in [Instances -> Views] /\ \A i \in Instances : mem[i] \in Views
  BY DEF Inv, Good, TypeOK
<1>2. mem'[j] = mem[j] => KeepsBonds(j)
  BY DEF KeepsBonds
<1>3. ASSUME NEW i \in Instances, Publish(i) \/ PublishRefused(i) \/ Hydrate(i)
      PROVE  Imports(j) \/ mem'[j] = mem[j]
  BY <1>1, <1>3 DEF Publish, PublishRefused, Hydrate, Imports
<1>4. ASSUME NEW i \in Instances, Restart(i)
      PROVE  mem'[j] = Seed \/ mem'[j] = mem[j]
  BY <1>1, <1>4 DEF Restart
<1>5. ASSUME NEW i \in Instances, NEW m \in MarketIds, RecordResolutionEvidence(i, m)
      PROVE  LinksEvidence(j) \/ mem'[j] = mem[j]
  BY <1>1, <1>5 DEF RecordResolutionEvidence, Mutate, LinksEvidence
<1>6. ASSUME NEW i \in Instances, NEW p \in Bonds, ConsumeBond(i, p)
      PROVE  KeepsBonds(j)
  <2> DEFINE view == [mem[i] EXCEPT !.bonds = @ \cup {p}]
  <2>1. view.evidence = mem[i].evidence /\ view.bonds = mem[i].bonds \cup {p}
    BY <1>1 DEF Views
  <2>2. Mutate(i, view, FALSE)
    BY <1>6 DEF ConsumeBond
  <2>3. mem[i].bonds \ view.bonds \subseteq claims[i] \ claims'[i]
    BY <2>1
  <2> HIDE DEF view
  <2> QED
    BY <2>1, <2>2, <2>3, OtherSlicesKeepBonds
<1>7. ASSUME NEW i \in Instances, NEW p \in Bonds, CreateMarketFails(i, p)
      PROVE  KeepsBonds(j)
  <2> DEFINE view == [mem[i] EXCEPT !.bonds = @ \ {p}]
  <2>1. view.evidence = mem[i].evidence /\ view.bonds = mem[i].bonds \ {p}
    BY <1>1 DEF Views
  <2>2. Mutate(i, view, FALSE)
    BY <1>7 DEF CreateMarketFails
  <2>3. p \in claims[i] /\ claims'[i] = claims[i] \ {p}
    BY <1>7 DEF CreateMarketFails, Inv, TypeOK
  <2>4. mem[i].bonds \ view.bonds \subseteq claims[i] \ claims'[i]
    BY <2>1, <2>3
  <2> HIDE DEF view
  <2> QED
    BY <2>1, <2>2, <2>4, OtherSlicesKeepBonds
<1>8. ASSUME NEW i \in Instances, NEW view, NEW firesHook, Mutate(i, view, firesHook),
             view.evidence = mem[i].evidence, view.bonds = mem[i].bonds
      PROVE  KeepsBonds(j)
  BY <1>8, OtherSlicesKeepBonds
<1>9. ASSUME NEW i \in Instances, NEW x \in BetKeys, RecordBet(i, x)
      PROVE  KeepsBonds(j)
  BY <1>1, <1>8, <1>9, ZenonT(40) DEF RecordBet, Views
<1>10. ASSUME NEW i \in Instances, NEW o \in Outcomes, Settle(i, o)
       PROVE  KeepsBonds(j)
  BY <1>1, <1>8, <1>10, ZenonT(40) DEF Settle, Views
<1>11. ASSUME NEW i \in Instances, NEW m \in MarketIds, NEW accurate \in BOOLEAN,
              RecordResolution(i, m, accurate)
       PROVE  KeepsBonds(j)
  BY <1>1, <1>8, <1>11, ZenonT(40) DEF RecordResolution, Views
<1>12. ASSUME NEW i \in Instances, AppendAction(i)
       PROVE  KeepsBonds(j)
  BY <1>1, <1>8, <1>12, ZenonT(40) DEF AppendAction, Views
<1>13. ASSUME NEW i \in Instances, NEW s \in Slugs, NEW d \in Definitions,
              AddCreatedMarket(i, s, d)
       PROVE  KeepsBonds(j)
  BY <1>1, <1>8, <1>13, ZenonT(40) DEF AddCreatedMarket, Views
<1>14. ASSUME NEW i \in Instances, RecordPaidNotPlaced(i)
       PROVE  KeepsBonds(j)
  BY <1>1, <1>8, <1>14, ZenonT(40) DEF RecordPaidNotPlaced, Views
<1>15. ASSUME NEW i \in Instances, NEW byOperator \in BOOLEAN, RecordPlacement(i, byOperator)
       PROVE  KeepsBonds(j)
  BY <1>1, <1>8, <1>15, ZenonT(40) DEF RecordPlacement, Views
<1>16. ASSUME NEW i \in Instances, NEW s \in Slugs, QuarantineMarket(i, s)
       PROVE  KeepsBonds(j)
  BY <1>1, <1>8, <1>16, ZenonT(40) DEF QuarantineMarket, Views
<1>17. ASSUME NEW i \in Instances, NEW s \in Slugs, ReleaseMarket(i, s)
       PROVE  KeepsBonds(j)
  BY <1>1, <1>8, <1>17, ZenonT(40) DEF ReleaseMarket, Views
<1>18. ASSUME NEW i \in Instances, NEW p \in Bonds, CreateMarketLands(i, p)
       PROVE  mem'[j] = mem[j]
  BY <1>18 DEF CreateMarketLands
<1>19. TimePasses \/ UNCHANGED vars => mem'[j] = mem[j] /\ claims'[j] = claims[j]
  BY DEF TimePasses, vars
<1> QED
  BY <1>2, <1>3, <1>4, <1>5, <1>6, <1>7, <1>9, <1>10, <1>11, <1>12, <1>13, <1>14, <1>15,
     <1>16, <1>17, <1>18, <1>19 DEF Next

\* No view links evidence from the future.
Past(v) == \A m \in MarketIds : v.evidence[m] <= now

EvidenceIsPast == Past(kv) /\ \A i \in Instances : Past(mem[i])

\* The clock does not go back.
LEMMA ClockSteps ==
    ASSUME Inv, [Next]_vars
    PROVE  now' >= now /\ now \in Nat /\ now' \in Nat
<1>1. now \in Nat
  BY DEF Inv, TypeOK
<1>2. now' = now \/ now' = now + 1
  BY ZenonT(40) DEF Next, vars, RecordBet, Settle, RecordResolution, AppendAction, AddCreatedMarket,
         RecordPaidNotPlaced, RecordPlacement, QuarantineMarket, ReleaseMarket,
         RecordResolutionEvidence, ConsumeBond, CreateMarketLands, CreateMarketFails, Mutate,
         Publish, PublishRefused, Hydrate, Restart, TimePasses
<1> QED
  BY <1>1, <1>2

\* The newer of two past links is past, and no older than either.
LEMMA NewerOfPast ==
    ASSUME Inv, NEW l \in Views, NEW r \in Views, Past(l), Past(r), NEW m \in MarketIds
    PROVE  LET newer == NewerEvidence(l.evidence, r.evidence)[m]
           IN  newer <= now /\ newer >= l.evidence[m] /\ newer >= r.evidence[m]
<1>1. l.evidence[m] \in Nat /\ r.evidence[m] \in Nat /\ now \in Nat
  BY MergeAssumption DEF Views, Inv, TypeOK
<1> QED
  BY <1>1 DEF NewerEvidence, Later, Past

\* What an import leaves of evidence and bonds: the newest and all.
LEMMA ImportKeeps ==
    ASSUME Inv, EvidenceIsPast, NEW j \in Instances, Imports(j)
    PROVE  /\ mem[j].bonds \subseteq mem'[j].bonds
           /\ \A m \in MarketIds : /\ mem'[j].evidence[m] >= mem[j].evidence[m]
                                   /\ mem'[j].evidence[m] <= now
<1>1. mem[j] \in Views /\ kv \in Views /\ Past(mem[j]) /\ Past(kv)
  BY DEF Inv, Good, EvidenceIsPast
<1>2. PICK envelope \in {kv, mergeEconomyEnvelopes(mem[j], kv)} :
        mem'[j] = applyEconomyState(mem[j], envelope)
  BY DEF Imports
<1>3. envelope \in Views
  BY <1>1, MergeType
<1>4. Past(mergeEconomyEnvelopes(mem[j], kv))
  <2>1. mergeEconomyEnvelopes(mem[j], kv).evidence = NewerEvidence(mem[j].evidence, kv.evidence)
    BY DEF mergeEconomyEnvelopes
  <2> QED
    BY <1>1, <2>1, NewerOfPast DEF Past
<1>5. Past(envelope)
  BY <1>1, <1>4
<1>6. /\ mem'[j].evidence = NewerEvidence(mem[j].evidence, envelope.evidence)
      /\ mem'[j].bonds = mem[j].bonds \cup envelope.bonds
  BY <1>2, <1>3 DEF applyEconomyState, Views
<1>7. \A m \in MarketIds : /\ NewerEvidence(mem[j].evidence, envelope.evidence)[m] <= now
                           /\ NewerEvidence(mem[j].evidence, envelope.evidence)[m]
                                >= mem[j].evidence[m]
  BY <1>1, <1>3, <1>5, NewerOfPast
<1> QED
  BY <1>6, <1>7

\* Evidence is linked at the present, and imports make nothing newer than it is.
LEMMA EvidenceInvariance == Spec => []EvidenceIsPast
<1>1. Init => EvidenceIsPast
  BY DEF Init, Seed, EvidenceIsPast, Past
<1>2. Inv /\ EvidenceIsPast /\ [Next]_vars => EvidenceIsPast'
  <2> SUFFICES ASSUME Inv, EvidenceIsPast, [Next]_vars
               PROVE  EvidenceIsPast'
    OBVIOUS
  <2>1. now' >= now /\ now \in Nat /\ now' \in Nat
    BY ClockSteps
  <2>2. /\ kv \in Views /\ \A i \in Instances : mem[i] \in Views
        /\ \A v \in Views, m \in MarketIds : v.evidence[m] \in Nat
    BY MergeAssumption DEF Inv, Good, Views
  <2>3. ASSUME NEW v \in Views, Past(v)
        PROVE  \A m \in MarketIds : v.evidence[m] <= now'
    BY <2>1, <2>2, <2>3 DEF Past
  <2>4. \A m \in MarketIds : kv'.evidence[m] <= now'
    <3>1. CASE kv' = kv
      BY <2>2, <2>3, <3>1 DEF EvidenceIsPast
    <3>2. ASSUME NEW i \in Instances, kv' = mergeEconomyEnvelopes(mem[i], kv)
          PROVE  \A m \in MarketIds : kv'.evidence[m] <= now'
      <4>1. kv'.evidence = NewerEvidence(mem[i].evidence, kv.evidence)
        BY <3>2 DEF mergeEconomyEnvelopes
      <4>2. \A m \in MarketIds : NewerEvidence(mem[i].evidence, kv.evidence)[m] <= now
        BY <2>2, NewerOfPast DEF EvidenceIsPast
      <4>3. \A m \in MarketIds : NewerEvidence(mem[i].evidence, kv.evidence)[m] \in Nat
        BY <2>2 DEF NewerEvidence, Later
      <4> QED
        BY <2>1, <4>1, <4>2, <4>3
    <3> QED
      BY <3>1, <3>2, StoreSteps
  <2>5. ASSUME NEW j \in Instances
        PROVE  \A m \in MarketIds : mem'[j].evidence[m] <= now'
    <3>1. mem'[j] \in Views
      BY InvStep DEF Inv, Good
    <3>2. CASE mem'[j] = Seed
      BY <2>1, <3>2 DEF Seed
    <3>3. CASE Imports(j)
      BY <2>1, <2>2, <3>1, <3>3, ImportKeeps
    <3>4. CASE LinksEvidence(j)
      <4>1. PICK n \in MarketIds : mem'[j] = [mem[j] EXCEPT !.evidence[n] = now]
        BY <3>4 DEF LinksEvidence
      <4>2. \A m \in MarketIds : mem'[j].evidence[m] = IF m = n THEN now ELSE mem[j].evidence[m]
        BY <2>2, <4>1 DEF Views
      <4> QED
        BY <2>1, <2>2, <2>3, <4>2 DEF EvidenceIsPast
    <3>5. CASE KeepsBonds(j)
      BY <2>2, <2>3, <3>5 DEF KeepsBonds, EvidenceIsPast
    <3> QED
      BY <3>2, <3>3, <3>4, <3>5, MemorySteps
  <2> QED
    BY <2>4, <2>5 DEF EvidenceIsPast, Past
<1> QED
  BY <1>1, <1>2, Invariance, PTL DEF Spec

\* A bond an instance knows to be spent stays spent there, but for the creation that claimed
\* it, and its evidence only gets newer, whatever it re-reads or merges.
THEOREM SpentIsSpent == Spec => SpentStaysSpent
<1>1. Inv /\ EvidenceIsPast /\ [Next]_vars =>
        [\A i \in Instances :
            \/ mem'[i] = Seed
            \/ /\ mem[i].bonds \ mem'[i].bonds \subseteq claims[i] \ claims'[i]
               /\ \A m \in MarketIds : mem'[i].evidence[m] >= mem[i].evidence[m]]_vars
  <2> SUFFICES ASSUME Inv, EvidenceIsPast, [Next]_vars, NEW i \in Instances
               PROVE  \/ mem'[i] = Seed
                      \/ /\ mem[i].bonds \ mem'[i].bonds \subseteq claims[i] \ claims'[i]
                         /\ \A m \in MarketIds : mem'[i].evidence[m] >= mem[i].evidence[m]
    OBVIOUS
  <2>1. /\ mem[i] \in Views
        /\ \A m \in MarketIds : mem[i].evidence[m] \in Nat /\ mem[i].evidence[m] <= now
        /\ now \in Nat
    BY MergeAssumption DEF Inv, Good, Views, TypeOK, EvidenceIsPast, Past
  <2>2. CASE Imports(i)
    BY <2>2, ImportKeeps
  <2>3. CASE LinksEvidence(i)
    <3>1. PICK n \in MarketIds : mem'[i] = [mem[i] EXCEPT !.evidence[n] = now]
      BY <2>3 DEF LinksEvidence
    <3>2. /\ mem'[i].bonds = mem[i].bonds
          /\ \A m \in MarketIds : mem'[i].evidence[m] = IF m = n THEN now ELSE mem[i].evidence[m]
      BY <2>1, <3>1 DEF Views
    <3> QED
      BY <2>1, <3>2
  <2>4. CASE KeepsBonds(i)
    BY <2>1, <2>4 DEF KeepsBonds
  <2> QED
    BY <2>2, <2>3, <2>4, MemorySteps
<1> QED
  BY <1>1, Invariance, EvidenceInvariance, PTL DEF Spec, SpentStaysSpent
=============================================================================
