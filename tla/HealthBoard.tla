----------------------------- MODULE HealthBoard -----------------------------
(***************************************************************************)
(* What /api/health says of a deployment (core/health.ts, gathered by      *)
(* lib/health.ts): one verdict per check from the environment, the purses, *)
(* the breaker and the quarantine of FleetBets, the addresses ChainAdapter *)
(* routes by, and the activity feed, a ring of the newest actions          *)
(* (adapters/mock/activity-log.ts).  Time is counted in hours.             *)
(***************************************************************************)
EXTENDS FleetBets, ChainAdapter, TLC

CONSTANTS
    Deployments,        \* the environments an operator may have set
    FeedCap,            \* ACTIVITY_CAP
    StaleAfter, Grace,  \* TICK_STALE_MS, RESOLUTION_GRACE_MS
    SampleFloor,        \* ROTATION_SAMPLE_FLOOR
    MaxHours            \* bound on hour

VARIABLES
    deployment,     \* a wiring of ChainAdapter, with what else the environment sets
    feed,           \* logged actions, newest first: [kind, agent, market, at]
    hour,
    firstBet, lastSettled   \* history: hours of the first bet and of the newest resolution; -1: none

healthVars == <<deployment, feed, hour, firstBet, lastSettled>>

HealthInit ==
    /\ deployment \in Deployments
    /\ feed = << >> /\ hour = 0 /\ firstBet = -1 /\ lastSettled = -1

\* Whoever bets, creates or resolves logs it; the ring forgets the oldest.
appendAction(kind, agent, market) ==
    LET longer == <<[kind |-> kind, agent |-> agent, market |-> market, at |-> hour]>> \o feed IN
    /\ feed' = SubSeq(longer, 1, Min({Len(longer), FeedCap}))
    /\ firstBet' = IF kind = "bet" /\ firstBet = -1 THEN hour ELSE firstBet
    /\ lastSettled' = IF kind = "resolved" THEN hour ELSE lastSettled
    /\ UNCHANGED <<deployment, hour>>

PlacesAndLogs(p) == Places(p) /\ appendAction("bet", p, CHOOSE m \in turn.target : TRUE)

\* Anybody else's bet, and a resolution.
Logs(kind, agent, market) ==
    /\ turn = noTurn
    /\ appendAction(kind, agent, market)
    /\ counter' = counter + 1 /\ unflushed' = TRUE
    /\ UNCHANGED <<chainSide, failures, tripped, quarantined, storedBreaker, turn, ticks, losses, lapses>>

HourPasses ==
    /\ hour < MaxHours /\ hour' = hour + 1
    /\ UNCHANGED <<deployment, feed, firstBet, lastSettled, fleetVars>>

-----------------------------------------------------------------------------
\* The report: a verdict for each check.
env == deployment
verdict(good, otherwise) == IF good THEN "ok" ELSE otherwise

contractChecks ==
    "contracts.routing" :> verdict(env.addrs # {} \/ env.vaultV2 \/ env.fallback, "fail")
    @@ "contracts.vaultV2" :> verdict(env.vaultV2, "warn")
    @@ "contracts.oracleRegistry" :> verdict(env.oracles, "warn")
    @@ "contracts.marketFactory" :> verdict(env.factory, "warn")
    @@ "contracts.fieldMarket" :> verdict(env.field \/ FieldSlugs = {}, "fail")
    @@ "contracts.agentRegistry" :> verdict(env.registry, "warn")
    @@ "contracts.resolutionHook" :> verdict(env.hook, "warn")

persistenceCheck == CASE env.kv = "none" -> IF env.real THEN "warn" ELSE "skip" [] env.kv = "down" -> "fail" [] OTHER -> "ok"
x402Check == verdict(env.payTo, "warn")
creationCheck == verdict(env.bondPayable /\ env.oracleAccount, "fail")
signerChecks == "signer.bettor" :> verdict(env.bettorKey, "fail") @@ "signer.oracle" :> verdict(env.oracleKey, "warn")

cronCheck == verdict(env.cron, "fail")
signalsCheck == verdict(env.cloud, "warn")

\* Only the wallet service's own word that the id does not exist is a rejection.
csprClickAppIdCheck == CASE env.appId \in {"good", "none"} -> "accepted" [] env.appId = "wrong" -> "rejected" [] OTHER -> "unreachable"
walletCheck ==
    CASE env.appId = "none" -> "warn"
      [] env.appId # "none" /\ csprClickAppIdCheck = "rejected" -> "fail"
      [] OTHER -> "ok"

economyCheck == verdict(feed # << >> /\ hour - feed[1].at <= StaleAfter, "warn")

\* A balance that cannot be read is reported, and planned on, as nothing.
FaultyBalanceRead(x) == x
balanceRead(x) == IF env.rpc THEN x ELSE 0

FaultyFleetCheck == verdict(\A p \in Names : balanceRead(purse[p]) >= 1, "warn")
fleetCheck ==
    LET unfunded == {p \in Names : balanceRead(purse[p]) < 1} IN
    CASE unfunded = {} -> "ok" [] unfunded = Names -> "fail" [] OTHER -> "warn"

FaultyTreasuryCheck == verdict(balanceRead(treasury) >= BettingFloor, "fail")
treasuryCheck ==
    LET rounds == balanceRead(treasury) \div PerTick IN
    CASE rounds < BettingFloor -> "fail" [] rounds >= SeedingFloor -> "ok" [] OTHER -> "warn"

breakerCheck == CASE tripped -> "fail" [] ~tripped /\ failures > 0 -> "warn" [] OTHER -> "ok"
quarantineCheck == verdict(quarantined = {}, "warn")

\* loopLiveness and loopChecks: bets are looked for in the ring, and so are resolutions.
Bets == SelectSeq(feed, LAMBDA a : a.kind = "bet")
Resolutions == SelectSeq(feed, LAMBDA a : a.kind = "resolved")
FaultyLoopResolution == verdict(Bets = << >> \/ hour - Bets[Len(Bets)].at < Grace, "fail")
loopResolution == verdict(Bets = << >> \/ hour - Bets[Len(Bets)].at < Grace \/ Resolutions # << >>, "fail")
loopRotation ==
    LET distinct(of(_)) == Cardinality({of(Bets[i]) : i \in DOMAIN Bets}) IN
    verdict(Len(Bets) < SampleFloor
            \/ (distinct(LAMBDA a : a.agent) > 1 /\ distinct(LAMBDA a : a.market) > 1), "fail")
chainEventCount == IF env.indexer = "blind" THEN 0 ELSE 1
loopBoards == IF env.indexer = "down" THEN "skip" ELSE verdict(Bets = << >> \/ chainEventCount > 0, "fail")

\* In mock mode what only a chain needs is skipped.
buildHealthReport ==
    LET wired == contractChecks @@ signerChecks @@ "x402" :> x402Check
                 @@ "creation" :> creationCheck @@ "cron" :> cronCheck
                 @@ "treasury" :> treasuryCheck @@ "loop.boards" :> loopBoards
        seen == "persistence" :> persistenceCheck @@ "signals" :> signalsCheck @@ "wallet" :> walletCheck @@ "fleet" :> fleetCheck
                @@ "bets" :> breakerCheck @@ "markets" :> quarantineCheck @@ "economy" :> economyCheck
                @@ "loop.resolution" :> loopResolution @@ "loop.rotation" :> loopRotation
    IN  seen @@ [c \in DOMAIN wired |-> IF env.real THEN wired[c] ELSE "skip"]

-----------------------------------------------------------------------------
\* What does not work, from the code that does it.
NoWayToBet == \A s \in Listings \ FieldSlugs : resolveMarketTarget(s, env) = nowhere
FleetIdle == bettingHalted \/ ~env.rpc \/ ~planCadence.bets
NothingCreated == ~env.oracleAccount \/ ~env.bondPayable \/ ~env.rpc \/ ~planCadence.creation \/ ~env.vaultV2

\* An operator who watches the report learns of everything that stopped: nothing to sign with, no
\* contract to bet in, a tick nobody may fire, a fleet halted or throttled, creation off, memory
\* that dies with its server, boards that see nothing, a wallet that cannot sign.  A halt, a purse
\* or a treasury that stops the fleet pages, with one exception in the code: while the richest
\* purse holds a turn and not the runway betting needs, the fleet is idle and the report a warning
\* at most - nothing at all, when no purse is empty.  Markets in quarantine, be it all of them,
\* and a payment rail with nobody to pay are warnings only.
OutagesAreReported == env.real =>
    LET r == buildHealthReport
        failed == {c \in DOMAIN r : r[c] = "fail"}
        warned == {c \in DOMAIN r : r[c] = "warn"} \ {"economy"}
        short == Max(Range(purse)) \in 1 .. BettingFloor - 1
    IN  /\ NoWayToBet \/ ~configured(env) \/ ~env.cron => failed # {}
        /\ FleetIdle => failed # {} \/ short
        /\ FleetIdle => failed \cup warned # {} \/ (short /\ \A p \in Names : purse[p] > 0)
        /\ (\E s \in FieldSlugs : resolveMarketTarget(s, env) = nowhere) => "contracts.fieldMarket" \in failed
        /\ NothingCreated => failed \cup warned # {}
        /\ env.kv # "up" => "persistence" \in failed \cup warned
        /\ failures > 0 => "bets" \in failed \cup warned
        /\ quarantined # {} => "markets" \in warned
        /\ ~env.payTo => "x402" \in warned
        /\ (~env.registry \/ ~env.hook) => warned # {}

\* And the report raises no alarm for nothing: when it pages, bets, creations, settlements or
\* signatures have stopped, or cannot be shown to be going on.
AlarmsAreTrue ==
    LET r == buildHealthReport  fails(c) == c \in DOMAIN r /\ r[c] = "fail" IN
    /\ fails("contracts.routing") => NoWayToBet
    /\ fails("fleet") \/ fails("bets") => FleetIdle
    /\ fails("treasury") => ~env.rpc \/ (~planCadence.creation /\ ~planCadence.seeding)
    /\ fails("creation") => NothingCreated
    /\ fails("wallet") => env.appId = "wrong"
    /\ fails("loop.boards") => env.indexer = "blind" /\ firstBet # -1

\* The treasury is green exactly when the planner throttles nothing it pays for.
TreasuryMatchesPlan == env.real /\ env.rpc => (buildHealthReport["treasury"] = "ok" <=> planCadence.seeding)

\* A loop that bets for Grace hours and has never settled a market is reported, unless the ring
\* has forgotten the first bet; and it is reported only if nothing was settled since a bet that is
\* that old.
LoopOutagesShow ==
    LET closed == buildHealthReport["loop.resolution"] = "ok" IN
    /\ firstBet # -1 /\ hour - firstBet >= Grace /\ lastSettled = -1 /\ counter <= FeedCap => ~closed
    /\ ~closed => firstBet # -1 /\ \E i \in DOMAIN Bets : hour - Bets[i].at >= Grace /\ lastSettled <= Bets[i].at
=============================================================================
