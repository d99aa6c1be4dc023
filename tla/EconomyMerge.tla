----------------------------- MODULE EconomyMerge -----------------------------
(***************************************************************************)
(* What two instances' views of the economy become when one is merged into *)
(* the other: the merge rules of src/adapters/persist/economy-state.ts and *)
(* the ledgers they merge.  Module EconomyPersistence says when views are   *)
(* read, merged and written; here a write is one step, as the compare-and- *)
(* set makes it, and an envelope has the slices the code gives it.          *)
(*                                                                         *)
(* A slice is merged without looking at another, so a behaviour exercises  *)
(* one slice (`focus`).  Left out: display data (the feed's actions, copy,  *)
(* narration, bundle bodies) and more than one open market or oracle, which *)
(* are merged one by one.  0 is the absent time.                            *)
(***************************************************************************)
EXTENDS Integers, FiniteSets, FiniteSetsExt

CONSTANTS
    Instances,
    BetKeys,        \* at-most-once keys of bets on one market
    LargeBets,      \* those of two motes; the others stake one
    Outcomes, None,
    MarketIds,      \* markets the oracle resolves
    Slugs,          \* markets launched at run time, or quarantined
    Definitions,    \* what may be launched under a slug
    Bonds,          \* bond payments
    Slices,         \* the slices exercised
    \* Bounds on appended actions, breaker failures and time.
    MaxActions, MaxFailures, MaxTime

AllSlices == {"settlement", "oracle", "activity", "created", "breaker", "quarantine",
              "evidence", "bonds"}

ASSUME MergeAssumption ==
    /\ LargeBets \subseteq BetKeys /\ IsFiniteSet(BetKeys) /\ IsFiniteSet(MarketIds)
    /\ None \notin Outcomes \cup Definitions
    /\ Slices \subseteq AllSlices
    /\ MaxActions \in Nat /\ MaxFailures \in Nat /\ MaxTime \in Nat \ {0}

VARIABLES
    kv,         \* the stored envelope
    mem,        \* mem[i]: the view in the instance's memory
    dirty,      \* dirty[i]: a mutation that fired the persist hook is not published
    now,        \* Date.now()
    claims,     \* claims[i]: bonds claimed on i whose market creation is in flight
    focus,      \* the slice this behaviour exercises
    recorded    \* history: recorded[i], time of the last failure i counted and has not cleared

vars == <<kv, mem, dirty, now, claims, focus, recorded>>

Breakers == [failures : 0..MaxFailures, lastFailure : 0..MaxTime, trippedAt : 0..MaxTime,
             clearedAt : 0..MaxTime]

Views ==
    [counted : [BetKeys -> Nat], settled : Outcomes \cup {None}, keys : SUBSET BetKeys,
     resolved : Nat, accurate : Nat, judged : SUBSET MarketIds,
     counter : 0..MaxActions,
     created : [Slugs -> Definitions \cup {None}],
     breaker : Breakers,
     active : [Slugs -> 0..MaxTime], released : [Slugs -> 0..MaxTime],
     evidence : [MarketIds -> 0..MaxTime],
     bonds : SUBSET Bonds]

\* A view before anything happened, also the memory of a cold instance.
Seed ==
    [counted |-> [b \in BetKeys |-> 0], settled |-> None, keys |-> {},
     resolved |-> 0, accurate |-> 0, judged |-> {},
     counter |-> 0,
     created |-> [s \in Slugs |-> None],
     breaker |-> [failures |-> 0, lastFailure |-> 0, trippedAt |-> 0, clearedAt |-> 0],
     active |-> [s \in Slugs |-> 0], released |-> [s \in Slugs |-> 0],
     evidence |-> [m \in MarketIds |-> 0],
     bonds |-> {}]

BREAKER_TRIP_THRESHOLD == 3

Init ==
    /\ kv = Seed
    /\ mem = [i \in Instances |-> Seed]
    /\ dirty = [i \in Instances |-> FALSE]
    /\ now = 1
    /\ claims = [i \in Instances |-> {}]
    /\ focus \in Slices
    /\ recorded = [i \in Instances |-> 0]

Later(x, y) == IF x > y THEN x ELSE y
-----------------------------------------------------------------------------
(***************************************************************************)
(* The merge of a local and a remote view, slice by slice                  *)
(***************************************************************************)

totalStakedMotes(v) ==
    MapThenSumSet(LAMBDA b : v.counted[b] * (IF b \in LargeBets THEN 2 ELSE 1), BetKeys)

\* Settled beats unsettled, then the bigger pool wins, then the local side.
FaultyRemoteEntryWins(l, r) == totalStakedMotes(r) > totalStakedMotes(l)
RemoteEntryWins(l, r) ==
    IF (l.settled = None) # (r.settled = None)
    THEN r.settled # None
    ELSE totalStakedMotes(r) > totalStakedMotes(l)

pickLedgerEntry(l, r) == IF RemoteEntryWins(l, r) THEN r ELSE l

FaultyMergeKeys(l, r) == l
MergeKeys(l, r) == l \cup r

\* The larger track record wins whole.
betterReputation(l, r) ==
    IF \/ r.resolved > l.resolved
       \/ r.resolved = l.resolved /\ r.accurate > l.accurate
    THEN r ELSE l

FaultyMergeCounter(l, r) == l + r
MergeCounter(l, r) == Later(l, r)

FaultyMergeCreated(l, r) == [s \in Slugs |-> IF l[s] # None THEN l[s] ELSE r[s]]
MergeCreated(l, r) == [s \in Slugs |-> IF r[s] # None THEN r[s] ELSE l[s]]

breakerEvidenceTs(b) == Later(b.trippedAt, Later(b.lastFailure, b.clearedAt))

\* Newest evidence wins; on a tie the side that holds more failures, then the local one.
FaultyMergeBreaker(l, r) == IF r.failures > l.failures THEN r ELSE l
MergeBreaker(l, r) ==
    IF breakerEvidenceTs(l) # breakerEvidenceTs(r)
    THEN IF breakerEvidenceTs(l) > breakerEvidenceTs(r) THEN l ELSE r
    ELSE IF r.failures > l.failures THEN r ELSE l

MergeReleased(l, r) == [s \in Slugs |-> Later(l.released[s], r.released[s])]

\* The first quarantine after the last release.
FaultyMergeActive(l, r) ==
    [s \in Slugs |->
        LET standing == {t \in {l.active[s], r.active[s]} : t > l.released[s]}
        IN  IF standing = {} THEN 0 ELSE Min(standing)]
MergeActive(l, r) ==
    [s \in Slugs |->
        LET standing == {t \in {l.active[s], r.active[s]} : t > MergeReleased(l, r)[s]}
        IN  IF standing = {} THEN 0 ELSE Min(standing)]

NewerEvidence(l, r) == [m \in MarketIds |-> Later(l[m], r[m])]

mergeEconomyEnvelopes(l, r) ==
    LET entry == pickLedgerEntry(l, r)
        reputation == betterReputation(l, r)
    IN  [counted |-> entry.counted, settled |-> entry.settled,
         keys |-> MergeKeys(l.keys, r.keys),
         resolved |-> reputation.resolved, accurate |-> reputation.accurate,
         judged |-> l.judged \cup r.judged,
         counter |-> MergeCounter(l.counter, r.counter),
         created |-> MergeCreated(l.created, r.created),
         breaker |-> MergeBreaker(l.breaker, r.breaker),
         active |-> MergeActive(l, r), released |-> MergeReleased(l, r),
         evidence |-> NewerEvidence(l.evidence, r.evidence),
         bonds |-> l.bonds \cup r.bonds]

\* Memory after an envelope was imported: REPLACED, but for evidence and spent bonds.
FaultyApply(v, envelope) == envelope
applyEconomyState(v, envelope) ==
    [envelope EXCEPT !.evidence = NewerEvidence(v.evidence, @), !.bonds = v.bonds \cup @]
-----------------------------------------------------------------------------
(***************************************************************************)
(* The ledgers' operations                                                 *)
(***************************************************************************)

\* Memory changes; whether the mutation fires the persist hook decides `dirty`.
Mutate(i, view, firesHook) ==
    /\ mem' = [mem EXCEPT ![i] = view]
    /\ dirty' = [dirty EXCEPT ![i] = @ \/ firesHook]
    /\ UNCHANGED <<kv, now, focus>>

Keeps == UNCHANGED <<claims, recorded>>

RecordBet(i, b) ==
    /\ focus = "settlement" /\ b \notin mem[i].keys /\ mem[i].settled = None
    /\ Mutate(i, [mem[i] EXCEPT !.counted[b] = @ + 1, !.keys = @ \cup {b}], TRUE)
    /\ Keeps

Settle(i, o) ==
    /\ focus = "settlement" /\ mem[i].settled = None
    /\ Mutate(i, [mem[i] EXCEPT !.settled = o], TRUE)
    /\ Keeps

RecordResolution(i, m, accurate) ==
    /\ focus = "oracle" /\ m \notin mem[i].judged
    /\ Mutate(i, [mem[i] EXCEPT !.resolved = @ + 1, !.judged = @ \cup {m},
                                !.accurate = IF accurate THEN @ + 1 ELSE @], TRUE)
    /\ Keeps

AppendAction(i) ==
    /\ focus = "activity" /\ mem[i].counter < MaxActions
    /\ Mutate(i, [mem[i] EXCEPT !.counter = @ + 1], TRUE)
    /\ Keeps

AddCreatedMarket(i, s, d) ==
    /\ focus = "created" /\ mem[i].created[s] = None
    /\ Mutate(i, [mem[i] EXCEPT !.created[s] = d], TRUE)
    /\ Keeps

\* The breaker and the quarantine do not fire the hook: they ride along.
AfterFailure(b) ==
    [failures |-> b.failures + 1, lastFailure |-> now, clearedAt |-> b.clearedAt,
     trippedAt |-> IF b.failures + 1 >= BREAKER_TRIP_THRESHOLD /\ b.trippedAt = 0
                   THEN now ELSE b.trippedAt]

AfterPlacement == [failures |-> 0, lastFailure |-> 0, trippedAt |-> 0, clearedAt |-> now]

RecordPaidNotPlaced(i) ==
    /\ focus = "breaker" /\ mem[i].breaker.failures < MaxFailures
    /\ Mutate(i, [mem[i] EXCEPT !.breaker = AfterFailure(@)], FALSE)
    /\ recorded' = [recorded EXCEPT ![i] = now]
    /\ UNCHANGED claims

\* A landed bet appends to the feed in the same step, an operator's reset does not.
RecordPlacement(i, byOperator) ==
    /\ focus = "breaker"
    /\ Mutate(i, [mem[i] EXCEPT !.breaker = AfterPlacement], ~byOperator)
    /\ recorded' = [recorded EXCEPT ![i] = 0]
    /\ UNCHANGED claims

QuarantineMarket(i, s) ==
    /\ focus = "quarantine" /\ mem[i].active[s] = 0
    /\ Mutate(i, [mem[i] EXCEPT !.active[s] = now, !.released[s] = 0], FALSE)
    /\ Keeps

ReleaseMarket(i, s) ==
    /\ focus = "quarantine" /\ mem[i].active[s] # 0
    /\ Mutate(i, [mem[i] EXCEPT !.active[s] = 0, !.released[s] = Later(now, @)], FALSE)
    /\ Keeps

RecordResolutionEvidence(i, m) ==
    /\ focus = "evidence"
    /\ Mutate(i, [mem[i] EXCEPT !.evidence[m] = now], FALSE)
    /\ Keeps

ConsumeBond(i, p) ==
    /\ focus = "bonds" /\ p \notin mem[i].bonds
    /\ Mutate(i, [mem[i] EXCEPT !.bonds = @ \cup {p}], FALSE)
    /\ claims' = [claims EXCEPT ![i] = @ \cup {p}]
    /\ UNCHANGED recorded

\* The awaited create_market returned, or threw: then the claim is released.
CreateMarketLands(i, p) ==
    /\ p \in claims[i]
    /\ claims' = [claims EXCEPT ![i] = @ \ {p}]
    /\ UNCHANGED <<kv, mem, dirty, now, focus, recorded>>

CreateMarketFails(i, p) ==
    /\ p \in claims[i]
    /\ Mutate(i, [mem[i] EXCEPT !.bonds = @ \ {p}], FALSE)
    /\ claims' = [claims EXCEPT ![i] = @ \ {p}]
    /\ UNCHANGED recorded
-----------------------------------------------------------------------------
Publish(i) ==
    LET union == mergeEconomyEnvelopes(mem[i], kv)
    IN  /\ kv' = union
        /\ mem' = [mem EXCEPT ![i] = applyEconomyState(@, union)]
        /\ dirty' = [dirty EXCEPT ![i] = FALSE]
        /\ UNCHANGED <<now, claims, focus, recorded>>

\* Every attempt of a write was refused: memory has adopted the unions all the same.
PublishRefused(i) ==
    /\ mem' = [mem EXCEPT ![i] = applyEconomyState(@, mergeEconomyEnvelopes(@, kv))]
    /\ dirty' = [dirty EXCEPT ![i] = TRUE]
    /\ UNCHANGED <<kv, now, claims, focus, recorded>>

Hydrate(i) ==
    /\ ~dirty[i]
    /\ mem' = [mem EXCEPT ![i] = applyEconomyState(@, kv)]
    /\ UNCHANGED <<kv, dirty, now, claims, focus, recorded>>

Restart(i) ==
    /\ mem' = [mem EXCEPT ![i] = Seed]
    /\ dirty' = [dirty EXCEPT ![i] = FALSE]
    /\ claims' = [claims EXCEPT ![i] = {}]
    /\ recorded' = [recorded EXCEPT ![i] = 0]
    /\ UNCHANGED <<kv, now, focus>>

TimePasses ==
    /\ focus \in {"breaker", "quarantine", "evidence"} /\ now < MaxTime
    /\ now' = now + 1
    /\ UNCHANGED <<kv, mem, dirty, claims, focus, recorded>>

Next ==
    \/ \E i \in Instances :
          \/ \E b \in BetKeys : RecordBet(i, b)
          \/ \E o \in Outcomes : Settle(i, o)
          \/ \E m \in MarketIds, accurate \in BOOLEAN : RecordResolution(i, m, accurate)
          \/ AppendAction(i)
          \/ \E s \in Slugs, d \in Definitions : AddCreatedMarket(i, s, d)
          \/ RecordPaidNotPlaced(i)
          \/ \E byOperator \in BOOLEAN : RecordPlacement(i, byOperator)
          \/ \E s \in Slugs : QuarantineMarket(i, s) \/ ReleaseMarket(i, s)
          \/ \E m \in MarketIds : RecordResolutionEvidence(i, m)
          \/ \E p \in Bonds : ConsumeBond(i, p) \/ CreateMarketLands(i, p) \/ CreateMarketFails(i, p)
          \/ Publish(i) \/ PublishRefused(i) \/ Hydrate(i) \/ Restart(i)
    \/ TimePasses

Spec == Init /\ [][Next]_vars
-----------------------------------------------------------------------------
(***************************************************************************)
(* Properties                                                              *)
(***************************************************************************)

\* Every variable keeps its type: the round counter is a maximum, never a sum.
TypeOK ==
    /\ kv \in Views
    /\ mem \in [Instances -> Views]
    /\ dirty \in [Instances -> BOOLEAN]
    /\ now \in 1..MaxTime
    /\ claims \in [Instances -> SUBSET Bonds]
    /\ focus \in Slices
    /\ recorded \in [Instances -> 0..MaxTime]

\* "A bet's at-most-once key must outlive the instance that first saw it": no bet and no
\* resolution is counted twice, whichever instances observe it and whoever merges last.
NothingCountedTwice ==
    \A v \in {kv} \cup {mem[i] : i \in Instances} :
        /\ \A b \in BetKeys : v.counted[b] <= (IF b \in v.keys THEN 1 ELSE 0)
        /\ v.resolved <= Cardinality(v.judged)

\* The facts of a view, as module EconomyPersistence counts them: what is remembered as
\* done.  (Not what came of it: see RecordedBetsAreCounted.)
Facts(v) ==
    {<<"bet", b>> : b \in v.keys} \cup {<<"judged", m>> : m \in v.judged}
        \cup {<<"bond", p>> : p \in v.bonds}
        \cup {<<"created", s>> : s \in {t \in Slugs : v.created[t] # None}}
        \cup (IF v.settled # None THEN {<<"settled">>} ELSE {})

\* The abstraction of EconomyPersistence is exact: the facts of a merge are the union of
\* both sides' facts, whatever views instances have come to hold.
MergeIsUnionOfFacts ==
    \A i \in Instances :
        Facts(mergeEconomyEnvelopes(mem[i], kv)) = Facts(mem[i]) \cup Facts(kv)

\* "A resolution is never un-resolved": once the store shows a market settled, no stale
\* instance with a bigger pool reopens it.
ResolutionStands == [][kv.settled # None => kv'.settled # None]_vars

\* The first launch of a slug that is published keeps it: an instance that launched
\* another market under the same slug does not replace it under those who bet on it.
FirstLaunchStands ==
    [][\A s \in Slugs : kv.created[s] # None => kv'.created[s] = kv.created[s]]_vars

\* An operator's release lands: what it lifted is not brought back by an instance that
\* still holds the quarantine, while a quarantine is lifted by nothing but a release.
ReleasesLand ==
    [][\A s \in Slugs :
          /\ kv'.released[s] >= kv.released[s]
          /\ kv'.active[s] # 0 => kv'.active[s] > kv.released[s]
          /\ kv.active[s] # 0 /\ kv'.active[s] = 0 => kv'.released[s] >= kv.active[s]]_vars

\* The newest evidence about the money path decides the stored breaker: a clear survives
\* stale trips and a trip survives stale clears; equal evidence keeps the failures.
NewestEvidenceDecides ==
    [][LET old == breakerEvidenceTs(kv.breaker)
           new == breakerEvidenceTs(kv'.breaker)
       IN  new >= old /\ (new = old => kv'.breaker.failures >= kv.breaker.failures)]_vars

\* A bond an instance knows to be spent, and the newest evidence it has linked, survive
\* every re-read and merge until it is recycled: only the creation that claimed a bond
\* gives it back.
SpentStaysSpent ==
    [][\A i \in Instances :
          \/ mem'[i] = Seed
          \/ /\ mem[i].bonds \ mem'[i].bonds \subseteq claims[i] \ claims'[i]
             /\ \A m \in MarketIds : mem'[i].evidence[m] >= mem[i].evidence[m]]_vars

\* "One that loses neither writer's work": a bet whose key is remembered as recorded is
\* counted in the pool of its market.
RecordedBetsAreCounted == \A b \in kv.keys : kv.counted[b] = 1

\* The breaker counts what happened on this instance: a failure it recorded and has not
\* cleared is not newer than the newest evidence its memory shows.
BreakerRemembers == \A i \in Instances : breakerEvidenceTs(mem[i].breaker) >= recorded[i]
=============================================================================
