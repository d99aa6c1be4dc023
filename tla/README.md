# A TLA+ verification of hunch-casper

hunch-casper is a prediction-market economy: contracts in Rust (Odra, Casper) hold the
stakes, a Next.js application of many short-lived instances runs the agents that create,
bet on and resolve the markets, and a single key of a KV store carries the application's
own record of all that. This directory models the parts whose correctness depends on
the order in which things happen, checks them with TLC on small instances, and proves
the most important facts with TLAPS for every instance.

    tlc -workers 2 -config VaultSettlement.cfg MCHunchVault     # any row of "Runs"
    tlc -workers 2 -config Platform.cfg MCPlatform
    tlapm HunchVaultProofs.tla                                  # any module ...Proofs

## 1. Inventory

Paths are relative to the repository root: contracts are `contracts/src/*.rs`, the
application is `src/`.

| Component | State it keeps | Operations | Hard behaviour | What makes it correct |
|---|---|---|---|---|
| **HunchVault** `hunch_vault.rs` | per market: config, status, pools, stakes, claimed, snapshots of the result, hashes; per creator: open-market counter; one purse | create, bet, resolve, void, claim, refund, policy calls, hash commitments | one purse for all markets; payouts computed one claim at a time with floors; a cap that can be lowered; every order of calls | purse = sum of what markets hold; a market pays its own debts only; a settlement is final; the counter is exact |
| ParimutuelMarket `parimutuel_market.rs`, FieldMarket `field_market.rs` | one market each; the field market registers candidates in batches, then freezes | init/register/freeze, bet, resolve, void, claim | guards that depend on the frozen field; the same arithmetic, written again off chain | every claim is covered and what the manifest says; nothing is bet before the freeze |
| DisputePanel `dispute_panel.rs`, off chain `core/dispute-*.ts` | per dispute: proposal and bonds, votes by stake, outcome | propose, challenge, vote, finalize | bonds, fees, vote stakes and dust leave by several transfers | what comes out is what went in; the bigger stake decides |
| AgentRegistry `agent_registry.rs` | agents: bond, active, cooldown | register, update, deactivate, withdraw, slash, policy | slash against cooldown and withdrawal | purse = sum of bonds; a bond leaves once; a record is not laundered |
| ResolutionHook, EscrowConsumer `resolution_hook.rs`, `hook_consumer.rs` | consumers of a market, dispatched outcome; an escrow per market | register, dispatch; fund, settle | registration after dispatch, dispatch before funding | an escrow pays once, to the side the outcome names |
| OracleRegistry, MarketFactory, CopyBetting, LmsrMarket | directories; a fee split; an LMSR book | register/record; split; trade | once per key; rounding; fixed-point exp and ln | counts are exact; no mote is created |
| **Economy persistence** `src/adapters/persist/economy-state.ts` | per instance: ledgers in memory, `hydrated`, `hydrating`, `dirty`, `writer`, `casUnsupported`; shared: one KV envelope with `rev` | hydrate, rehydrate, refresh, persist | two awaits per write; instances race, are recycled, lose answers; the store fails | no accepted mutation is lost, nothing published is overwritten |
| Economy merge (same file, `merge*`) | the slices of the envelope | a rule per slice: union, newest wins, bigger total wins | rules of different slices disagree about which side won | what a bet or resolution left in two slices survives in both or neither |
| Bet placement `src/lib/agent-bet.ts`, `bet-ticket.ts`, `src/app/api/chain/bet/*` | per instance: consumed payments, a copy of the settlement ledger; the stored ledger | verify payment, place on chain, record, flush, re-read | check before an await, burn after it; a chain call that fails late; an instance that has not heard of another's bet | no stake without an escrow, none twice; what the boards miss is known to be missing; an instance takes a payment once, and never one it has read of |
| Market creation `src/lib/market-create.ts`, `creation-ticket.ts` | consumed bonds, created markets | claim bond, create on chain, mirror | a create that times out but executes | one bond, one market |
| Arbiter `src/agent/arbiter.ts` | resolution evidence, reputation | sweep: decide, resolve on chain, settle the mirror, dispatch hooks | stops between any two steps; retries decide anew | chain and mirror show one outcome; what can be decided is settled, unless as many hopeless rounds stand before it as a sweep has time for |
| Tick `src/agent/economy.ts`, `prophet.ts`, `genesis.ts`, `round-rollover.ts`, `bet-breaker.ts`, `market-quarantine.ts` | round counter, breaker, quarantine, purses | one sweep of every agent | half-done ticks; an agent that pays and is not placed | losses are bounded by the breaker, the quarantine and the planner, anew for each time an instance forgets |
| Composition and evidence `core/market-composer.ts`, `resolution-recipe.ts`, `resolution-replay.ts` | definitions, evidence bundles, anchored hashes | compose, decide, publish, anchor, replay | the anchors are separate calls, any of which may fail | an audit passes if and only if the record is the one that paid |
| Payout engine `core/market-payout.ts` | none | payouts and odds from pools | rounding | the contract's numbers |
| Chain adapters `src/adapters/casper/*` | addresses and keys of the environment | build, sign, submit, confirm | a redeploy while transactions are in flight; pending is not failed | a market has one home; nobody is told more than the chain says |
| Boards `core/indexer.ts`, `agent-record.ts`, `calibration.ts`, `seasons.ts` | none: folds over deploys | list pages, decode, fold | pages shift or fail while they are read; blocks have no inner order | boards show what the vault did |
| Metered reads `src/lib/query-meter.ts`, `adapters/casper/real-payment.ts` | meter and spent payments per server | ask, verify, burn | a verification awaits; servers die | one transfer, one read |
| Bots `src/lib/bot-*.ts`, `core/bot-command.ts` | message ids seen, per server | deliver, parse, bet, reply | redelivery to any server, also one that has not read the store lately; a reply or a flush that fails | one message, one bet wherever the server had heard of the first; replies are true |
| Visitor's pages `wallet-connector.ts`, `bet-panel.tsx`, `create/page.tsx` | wallet session, the pages' own progress | sign in, bet, create | the SDK loads late, other tabs, reloads, polls that drop, boards that close meanwhile | a stake is the visitor's, followed to its verdict or to the answer that the boards could not take it |
| Health `core/health.ts` | none | one verdict per check | inputs are missing, capped or old | an outage shows; an alarm is true |
| Deployment CLI `contracts/bin/catalogue.rs` | none: the purse and the chain | deploy, create, seed, fund, field commands | any transaction may revert or execute unheard; then the operator runs it again | a rerun completes, and makes no twin |
| SDK, agent template, examples, scripts | | | | clients of the above |

How they interact: agents' routes await a *hydration*, mutate the ledgers in memory, and a
hook fires the *persistence* writer; a bet or a creation calls the *vault* through a *chain
adapter* and then records a mirror of it in the *settlement ledger*; the *arbiter* resolves the
vault's market, settles the mirror, publishes *evidence* and dispatches the *hook*; bettors claim
from the vault directly; the *boards* are folded from the chain. The chain is the record of
money, the envelope the record of everything else. `PROJECT.json` lists the hazards, line by line.

## 2. Modules

| Module | Models | |
|---|---|---|
| `HunchVault` | every entrypoint of `hunch_vault.rs` that changes state | state machine, invariants, action properties |
| `MarketEscrow` | what the vault promises, one purse per market | abstract specification |
| `MCHunchVault` | TLC instances; `Promise == INSTANCE MarketEscrow WITH ...` | refinement mapping |
| `EconomyPersistence`, `MCEconomyPersistence` | `economy-state.ts` from hydration to the write | state machine, invariants, liveness |
| `EconomyMerge`, `MCEconomyMerge` | the merge rule of every slice, and the ledger operations that feed it | state machine, invariants, action properties |
| `Motes` | the accounts, amounts and block time the contracts share | |
| `DisputePanel` | the contract, with `dispute-math.ts` and `dispute-window.ts` | state machine, invariants |
| `AgentRegistry` | the contract | state machine, invariants, action property |
| `ResolutionHooks` | the hook and the escrow that reads it, composed | state machine, invariants, action property |
| `ParimutuelMarket`, `FieldMarket` | the v1 market with the off-chain manifest; the field market extends it | state machines, invariants, action property |
| `Registries`, `LmsrMarket` | oracle registry, factory, copy fee; the LMSR book in fixed point | state machines, invariants |
| `BetPlacement` | x402, fleet, operator and ticketed bets, over instances with a ledger each and one store | state machine, invariants |
| `MarketCreation` | bonded and self-custodial creation | state machine, invariants |
| `Arbiter`, `EconomyTick` (extends it), `MCSettlement` | sweep, operator's route, rollover, flush | state machine, invariant, liveness |
| `FleetBets` | planner, breaker, quarantine, the fleet's turns | state machine, invariant |
| `ResolutionRecords` | composer, recipe, decision, evidence, anchors, replay | state machine, invariants |
| `ChainAdapter` | routing, keys and confirmation | state machine, invariants |
| `HealthBoard` (extends `FleetBets`, `ChainAdapter`) | every verdict of `/api/health` | operators, invariants |
| `ChainBoards` | deploy listing, decoding, folding | operators, state machine, invariants |
| `PaidQueries` | meter, verification, spent payments | state machine, invariants |
| `BotCommands`, `BotMentions` (extends it) | the parser; webhook, claim, bet, reply | operators; state machine, invariants |
| `WalletSession`, `VisitorPages` (extends it) | wallet store and connector; bet panel and creation page | state machines, invariants |
| `WalletConnector` (extends `WalletSession`), `QrCode` | one connection attempt over the CSPR.click SDK; the pairing symbol and its reading back | state machines, invariants |
| `TransactionDoors` | the four routes that hand a wallet a transaction, and the contracts' guards behind them | state machine, invariants |
| `CatalogueDriver`, `FieldDriver` (extends `FieldMarket`) | the commands of `catalogue.rs` | state machines, invariants |
| `MCPlatform` | TLC instance of all of the rows from `DisputePanel` on, but `Arbiter` | composition |
| `SumTheorems`, `HunchVaultProofs`, `EconomyMergeProofs`, `EconomyProofs`, `ContractProofs`, `FlowProofs`, `ServiceProofs`, `PlatformProofs` | theorems | TLAPS |

In every module an operator named `Faulty...` is not part of the model: it is the definition after
it with one plausible mistake, with which `PROJECT.json` shows that a property notices it.

### HunchVault

A contract call runs to its end before the next one and a revert undoes all of it, so an
entrypoint is one action and a call whose guards fail is no step. Variables carry the names of
the contract's mappings; `balance` is the purse the host keeps, `now` the block time, and
`bet_under` a history variable: the recipe hashes under which stakes were placed. `init` is the
initial state. `resolve` is two actions, `Resolve` and `ResolveWithoutWinners`, because the
code voids a market whose announced outcome nobody backed. `refund_bond`, which both
settlements call, is `ReleaseBond`; the fee transfer of the same call is its argument, so the
purse must cover both or the call reverts.

Abstracted: strings are model values; the bounds on their lengths are taken to hold; outcome
lists are sets (the code refuses duplicates); events are left out. U512 arithmetic does not wrap
in the code (it reverts) and `TokenSupply` bounds the motes that exist, so sums are integers;
`saturating_sub` is modelled as such. A read-only entrypoint is no action.

`MarketEscrow` is the same service with the things a reader of the contract must reconstruct made
explicit: each market has a purse of its own, and what everybody is owed is decided at once
when it settles. In the vault neither exists: there is one purse, and `claim` computes a floored
share when it is called. `ImplementsEscrow` shows the vault behaves like that nevertheless; the
mapping reads a market's purse as `Holds(m) - bond_of[m]`, what is due as `Owed`.

### EconomyPersistence

An instance is one JavaScript thread, so the code between two awaits is one action and
anything may happen in other requests at an await. The envelope is abstracted to a set of
facts (a recorded bet, a created market, a resolution, a spent bond) and its `rev`, and a merge
of two envelopes to the union: the rules of the individual slices are the matter of a module of
their own, `EconomyMerge`. A GET is served the moment it is sent, since a later moment only returns newer facts.

| Code | Action |
|---|---|
| `hydrateEconomyState`, to its GET | `Hydrate` (guard `MayReread`: not while one is in flight, nor with an unflushed write unless never hydrated, nor before the TTL) |
| its continuation | `HydrateLands` (memory is replaced), `HydrateFails` |
| `rehydrateEconomyState`, `refreshEconomyState` | `Rehydrate` (no guard), `Refresh` |
| a ledger mutation with the persist hook | `Mutate` |
| `persistEconomyState` by a route | `Flush` |
| the writer: GET, merge, import | `ReadAndMerge`, `ReadUnavailable` |
| `casSet` | `CasWritten`, `CasConflict`, `CasError` (the answer is lost, the write may have happened), `CasRejected` |
| `plainSet` | `PlainSet`, `PlainSetFails` (a SET that the store carries out after its timeout is not modelled, in any run) |
| the platform recycles the instance | `Restart` |

The `dirty`/`writer` handshake is `StartPersist` and `EndCycle`; a writer that ends unwritten is
`GiveUp`. History variables: `accepted[i]` (what instance i took in since it started), `published`
(what any write stored) and `forgone` (what died unpublished with a recycled instance).

### EconomyMerge

The same two instances and store, with a write in one step (`Publish`; `PublishRefused` when every
attempt lost its race) and an envelope that has the code's slices. No rule looks at two slices, so a
behaviour exercises one (`focus`, chosen initially) and the state spaces add up instead of multiplying.

| Slice | Operations (action) | Fires the persist hook | Merge rule |
|---|---|---|---|
| settlement | `RecordBet`, `Settle` | yes | entry: settled, then bigger total, whole; keys of recorded bets: union |
| oracle | `RecordResolution` | yes | counts: larger record, whole; keys: union |
| activity | `AppendAction` | yes | the round counter: maximum |
| created | `AddCreatedMarket` | yes | per slug: the stored definition |
| breaker | `RecordPaidNotPlaced`, `RecordPlacement` (by a landed bet, which appends to the feed, or the operator) | only a landed bet | newest evidence, then more failures |
| quarantine | `QuarantineMarket`, `ReleaseMarket` | no | release tombstones: newest; quarantines: first after the last release |
| evidence | `RecordResolutionEvidence` | no | newest |
| bonds | `ConsumeBond`, `CreateMarketLands`, `CreateMarketFails` | no | union |

Importing an envelope replaces memory (`applyEconomyState`), but for the evidence and the bonds, which
are united. A mutation that fires no hook leaves `dirty` alone: that is what `BreakerForgets` is about.
`MergeIsUnionOfFacts` ties the module to `EconomyPersistence`: what is remembered as done merges as a union
of sets, which is how that module treats an envelope. Left out: the feed's entries and bundle bodies, the
caps on lists (60 actions, 200 tombstones), seeding, and more than one open market or oracle at a time.
A creation whose claim is in flight is `claims`; the history variable `recorded[i]` is the time of the last
failure instance i counted and has not cleared.

### The smaller contracts

As in the vault, an entrypoint is one action and a reverted call is no step.

`DisputePanel` keeps several disputes over one purse: `Propose`, `Challenge`, `Vote`, then
`FinalizeUnchallenged` or `FinalizeChallenged`, which pays bonds, fee, vote stakes and dust in one call.
The two TypeScript modules that promise the same arithmetic and phases off chain stand beside it as
operators, and `OffChainDisputeAgrees` compares them on every dispute that occurs.

`AgentRegistry` has `Register`, `Deactivate`, `WithdrawBond`, `Slash` and the admin's two settings; `left`
records the cooldown in force when an agent stopped. `ResolutionHooks` composes the hook with the escrow consumer, whose
`SettleEscrow` reads the hook across contracts. `ParimutuelMarket` is the v1 contract with the application's
payout manifest (`market-payout.ts`) as an operator over the same stakes; `FieldMarket` adds the batched registration, the
freeze and the hash commitments, and reuses `Bet`, `Resolve`, `Void` and `Claim`. `Registries` are the three small
directories. `LmsrMarket` computes exp and ln by the contract's range-reduced series with the contract's truncations, at a scale `WAD`
of 1000 instead of 1e9.

### Bets, creation, settlement

`BetPlacement`: a request is handed to the node (`Submit`), the network executes or reverts it whenever it likes (`Execute`), and
the caller hears of it (`Placed`), gives up (`PlaceFailed`), polls a ticket (`PollChain`, then in a later step
`PollIndex`), or dies with its instance (`Restart`). The check of a payment is in `Submit`, its burning in `Placed`: the await lies
between them. Chain and boards close independently. Every instance has its own `ledger` of the market, and all it knows of another
instance's bets is what it last read of `storedLedger`: `ReadStore` sends the GET and `Hydrate`, a later step, replaces memory by its answer, whatever was recorded
meanwhile; `Flush` merges the stored entry into memory (`MayOutweigh`: one of the two whole, the keys of both) and puts it back, or is refused
and leaves memory merged and dirty; `Restart` empties ledger and spent payments. The callers that wait for a flush are answered whatever came of
it (`Answer`). The 30 s of `hydrateEconomyState` are a read that may start at any time or not at all, so every staleness is there. A flush is one step here and several in
`EconomyPersistence`; its faults that fall open to a blind SET are left to that module. The history variables name what explains a miss: `raced` (let in while the payment was in flight at that instance),
`unheard` (the caller learned nothing), `forgotten` (the instance was recycled), `unsaved` (told indexed although the flush failed), `overruled` (left out by a
merge), `replaced` (taken by a re-read from the only memory that had it).

`MarketCreation` has the same shape: `ClaimBond` before the awaited create, `Created`/`CreateFailed` after it, `ExecuteCreate`
at the network's leisure; the self-custodial path signs (`WalletSubmits`) and polls `Finalize`. A slug carries the number of created markets, which
the economy's own creations keep moving. `Snapshot` and `HostRestarts` are the persistence layer as far as bonds are concerned.

`Arbiter` with `EconomyTick`: a sweep walks the list of locked markets inside its budget; a worker (the cron's sweep, or the operator's
route) goes from `decided` to `resolved`, `settled` and back to idle, and each call between may fail, execute later
(`late`), or be told AlreadySettled. What the sweep settled is stored only at the end of the tick (`rollMaturedRounds`), so `Killed` takes
the mirror back to `stored`. A void sends nothing to the chain. A round that was current while no create of it went through is registered later by the backfill, on the boards only: a resolve of it fails in every sweep and takes its
share of the budget (`Hopeless`).

`FleetBets` counts money in turns (what one escrow costs). A tick plans from the purses, gives each agent its turn on the round's
market, and feeds the breaker and the quarantine. Those two are memory: a placed bet starts a flush (`unflushed`, `FlushLands`), a failure or a
quarantine does not, and until something is stored the next look at the markets may re-read the store and put `storedBreaker` in their place, in mid-tick too (`Rereads`; `prophet.ts:147`). The
flush that ends the tick may be refused (`EndTick`); the instance may die between two turns, or in one with the stake paid and nothing recorded (`InstanceDies`,
`DiesInTurn`). `lapses` counts how often memory was replaced by a store that knew less or other. One instance runs the ticks, one after the other; an answer of the store that comes late, and an
instance that cannot read it, are `EconomyPersistence`'s and `EconomyOverlap`'s; a POST's copy of the round number is read with the tick. What is counted is what ticks strand: an agent run by
hand (`/api/agent/prophets/run`) and the fleet's first bet on a market it just created (`market-create.ts:285`) consult no breaker.

`ResolutionRecords` follows one market from `Compose` (the composer's checks) over the decision (announcement, internal board, or a datum
read) to `SettlesAndPublishes`, `AnchorsRecipe`, `AnchorsBundle` and the replay `AuditsAreExact` compares with. A hash is what is hashed.

### The edges

`ChainAdapter` models where each kind of call goes under the configured addresses, whose key signs, and what confirmation tells the
submitter; `Rewire` is the operator's redeploy. `HealthBoard` reads `FleetBets` and `ChainAdapter`'s wiring and the
activity ring. `ChainBoards` keeps `escrowed`, the vault's own account of the calls, beside the deploys listed page by page, and holds
every board folded from the second against the first. `PaidQueries` has one server's meter and spent set per server life.
`BotMentions` delivers a message as often and to whichever server the platform likes; a server knows of another's bets what it last read of the store (`BotReads`, `BotHears`: before a delivery, or not, as the 30 s have passed or not), and its
flush may fail (`SendReply`, `BotFlushes`). `BotCommands` is the parser over token sequences.
`WalletSession` is one tab: the SDK, the stored session, another tab. `VisitorPages` adds the bet panel and the creation page, whose
network calls each answer, get lost, or never come; the market closes to the boards before the page shows it, and a confirmation then answers `indexed: false`. `WalletConnector` is the attempt that `WalletSession` takes as one step: which wallet is in
reach, which route it takes, and how an account that is announced after `connect()` has returned is heard; the SDK does what `wallet-connector.ts` says of
it (the comments of `CsprClickLike`, and the strings it looks for). `QrCode` draws the pairing symbol, and `ReadsBack` reads a drawn symbol the way a scanner does: format bits,
mask, zigzag, blocks (the tables of levels and masks are shared); a codeword is the set of its bits, the Reed-Solomon remainder is computed in the field, and the penalty that chooses a mask is left open (any of the eight).
`TransactionDoors` puts the four routes that build a transaction (creation, its bond, a registration, a bet) before the contracts that execute it:
a text is its length in characters and in bytes, the chain may change once and days pass between the answer and the block. `CatalogueDriver` and `FieldDriver` send one transaction after
the other from one purse; each may be refused, revert or execute unheard, each of which ends the process, and the operator starts it again.

Abstractions worth knowing: gas and balances are small integers with the code's order between them; the demo-proof path of
creation, a direct-key wallet account and a divisor of 0 (no seeding) are left out; `vault-deploy` runs only while
no vault is configured; a lost transaction of the driver has executed. In `BotMentions` all messages come from one sender, a read of the store unites no stakes (only whether a
bet is known; how stakes merge is `BetPlacement`'s), and parse errors, help, markets and odds are one "info" reply. In `ChainBoards` probabilities are in thousandths, the newest-first page order is
the listing service's, and the refund alias, incremental indexing and burst timing are left out. In `ResolutionRecords` the evidence store does not
fail (it is in memory). In `HealthBoard` the real mode has its fleet seed (section 5).

## 3. Runs

`CHECK_DEADLOCK FALSE` where the system may stop: a vault whose markets are settled and claimed at the last block time, a
component of `Platform` whose calls are used up, a `Settlement` with everything settled.

| Run | Instance | Shows |
|---|---|---|
| `VaultSettlement` | 1 market, 3 bettors, stakes 1 and 4, fees 0 and 30%, 9 motes, 1 hash | `MarketCoversItsOwnDebts`, `DustBelowWinners`, `RecipeBettorsSaw`, `SettlementIsFinal` |
| `VaultIsolation` | 2 markets in one purse, 2 bettors on both, stakes 2 and 3, fee 40%, 7 motes | `TypeOK`, `PurseIsSumOfMarkets`, `EveryClaimCovered`, `ImplementsEscrow` |
| `VaultPublicCreation` | admin and one public creator (who is also an oracle), 2 markets, caps 0 and 1, fees at and above the public limit, bonds 0 and 1 | `SlotsMatchOpenMarkets`, `PublicCapHolds` |
| `EconomyWriters` | 2 instances, 3 facts, failing GETs, recycling | `TypeOK`, `UnflushedSurvives`, `MemoryIsBacked`, `PublishedStaysPublished`, `OwedFlushIsRemembered` |
| `EconomySoleInstance` | 1 instance, overlapping requests, the tick, every fault | `PublishedStaysPublished` |
| `EconomyProgress` | 2 instances, 3 facts, no faults, `FairSpec` | `EveryFactIsPublished` |
| `EconomyOverlap` | 1 instance, overlapping requests, no faults | `UnflushedSurvives` is **violated** |
| `EconomySlices` | 2 instances, all eight slices: 3 bets of which one outweighs the others, 2 outcomes, 2 markets, 1 slug with 2 definitions, 2 bonds, 3 failures, 2 instants | `TypeOK`, `NothingCountedTwice`, `MergeIsUnionOfFacts`, `ResolutionStands`, `FirstLaunchStands`, `ReleasesLand`, `NewestEvidenceDecides`, `SpentStaysSpent` |
| `EconomyLostBet` | 2 instances, 2 bets on one market | `RecordedBetsAreCounted` is **violated** |
| `BreakerForgets` | 1 instance alone with the store | `BreakerRemembers` is **violated** |
| `Settlement` | `catalogue`: 2 listed markets, one never decidable, an operator, moving answers, kills; `rounds`: 4 rounds, opened or only listed, behind a catalogue that cannot be decided | `OneAnswerOneSettlement`, `EveryMaturedMarketSettles` |
| `Platform` | each behaviour runs one component (`which`), the others stay at their start, so the state spaces add up | the ten invariants below and the action properties `NoLaunder`, `VerdictIsFinal`, `BettorsRulesHold` |

`Platform`, property by property (each names the components' own invariants, which are stated and
explained in their modules):

| Property | of | says |
|---|---|---|
| `DisputesPayRight` | `DisputePanel` | what a dispute pays is what it took; whoever was right gets back at least what they put in; the off-chain arithmetic and phases agree |
| `BooksAddUp` | `AgentRegistry`, `Registries`, `ResolutionHooks` | purse = bonds; directories and the fee split are exact; an escrow follows the hook |
| `ClaimsArePaid` | `ParimutuelMarket`, `FieldMarket` | the pot covers all claims in any order, and pays what the manifest said |
| `BoardsAreHonest` | `BetPlacement` | no ledger shows a stake without an escrow or one twice; an escrow the store misses is on its way, was reported so, or was lost in a way that has a name; an instance takes a payment once, and never one it has read of |
| `CreationIsHonest` | `MarketCreation` | one bond, one market; a market on the boards is on chain |
| `LossesAreBounded` | `FleetBets` | what a tick's agents pay and do not place is bounded by the breaker's threshold and by the quarantine, and as much again for each time the instance forgot |
| `VisitorsAreServed` | `WalletSession`, `VisitorPages`, `WalletConnector`, `TransactionDoors` | a dialog ends; a stake is signed by the visitor's key, followed to its verdict or to the answer that it is not indexed; one bond per preview; the route taken can work, demo is the last resort, an answer is heard and the account shown is one the SDK can sign with; what a contract refuses of a signed transaction could not be seen when the door answered, and who signs is who owns the money |
| `DeploymentIsWhole` | `CatalogueDriver`, `FieldDriver` | no twin markets, no seed twice; a half-made market is known; a run the budget covers finishes; a frozen field is the published one, a settled one is explained |
| `ServicesAreHonest` | `PaidQueries`, `BotMentions`, `ChainAdapter` | one transfer one read, honest payers are read and the free tier is bounded; one message one bet on a server and none where the first was heard of, true replies, and stored bets but for a failed flush; one home per market, signers are themselves and nobody is overtold |
| `ReportsAreTrue` | `ChainBoards`, `LmsrMarket`, `BotCommands`, `HealthBoard`, `ResolutionRecords`, `QrCode` | totals, records, seasons and evidence are the vault's, or the board says it is short; the LMSR book is sound; a command means one thing; outages are reported and alarms true; audits are exact and anchors hold; a pairing symbol reads back |

Where the code has a window it cannot close, the property names it instead of leaving it out: `OnePaymentOneBet` excepts requests `raced`, `unheard` or
`forgotten` on one instance, and promises of two instances only what the stored keys give (section 5); `LossesAreBounded` grows with the `lapses`, `CreatedMarketsAreOnChain` what nobody could know, `OutagesAreReported` purses between one turn and the planner's floor.

**Bounds of the vault and the envelope.** `TokenSupply` bounds the motes in circulation and thereby stakes and pools: the values are
chosen so that the losing pool, the fee and several winners' shares all leave remainders (for
example, stakes 1 and 4 against 4 at 30%), which is where the floors bite. Three bettors give two
winners and a loser in every combination of claims; two markets are enough for one to be paid
from the other. `MaxTime` 1 or 2 gives times before, at and after a deadline and beyond the public horizon.
`MaxRev` bounds explicit flushes only; mutations are bounded by the facts, each accepted at most once. Three facts let one be published,
one be in flight and one be new. Two instances suffice for a stale payload, a lost race and a cold
writer; `CAS_MAX_ATTEMPTS` is the code's 3, and `EconomyProgress` has one fact fewer of rivals than a writer
has attempts, so that no writer exhausts them: the code promises nothing after exhaustion (section 5).
In `EconomySlices`, `MaxFailures` is the code's threshold of 3, so the breaker trips; two instants order any two
events, and let a quarantine, its release and a stale writer's copy have equal or different times; `MaxActions` 3 lets
both instances append beyond what the store holds.

**Bounds of the settlement.** A budget of 2 resolutions makes sweeps end early; `BackfillRounds` is the code's 2. Rounds 0 to 3 (`MaxRound` 3) let two rounds be hopeless, which is the budget, and a third stand
behind them: the property holds for that third one with one hopeless round before it, and without its premise TLC finds the starvation (rounds 0 and 1 on the boards only, round 2 in the vault and never tried). The undecidable
market stands first in the list, which is the other way a market could stand before the others. Two kills or operator's calls where the catalogue is settled; none while rounds roll.

**Bounds of the platform.** `bound` counts the calls that are limited. Two accounts, amounts 1 and 2, windows of 1, three candidates, a 50% fee.
*Disputes*: one in full, a second one proposed while the first awaits its challenge. *Agents*: the second posts one unit. *Hooks*: one market in full, a
second with one consumer. *Bets*: two x402 requests with one payment, on one instance or on two, or a fleet bet and an operator's, or a ticket that both instances poll; in each, two of a closing, a settlement, a re-read of the store and a restart, and any number of flushes.
*Creation*: two attempts with one bond on one host and a self-custodial one on another. *Fleet*: three agents, one of them self-signed, two markets, one possibly misrouted and one
near its deadline in the second tick; two agents per tick, a threshold of 2, three ticks, two lapses or other disturbances. *Pages*: two presses, two quotes, one or two disturbances. *Deployment*: three commands, two markets, purses that
cover nothing, some and all of it; fields of two or three candidates in batches of 2, a plan republished. *Boards*: five calls, two blocks (= two seasons), one odd row,
pages of 3, and at most one of the tables short or one row shifted. *Queries*: with a free tier, one caller asking four times; without, three requests with good and bad proofs on two servers and a death. *Mentions*: three deliveries, or two and a death, a closing or a read of the store. *Adapters*:
one market's transactions, up to three, one redeploy to or from the full wiring. *Health*: one fault at a time with full purses, or any funding of a healthy deployment; three logged actions
in a feed of two. *Connecting*: every combination of device, browser, extension and site configuration, a phone sharing up to three
entries, two attempts to settle an account. *Symbols*: the layout of all 40 versions with a payload that fills them at level M, and of one full version each at L, Q and H; of these 1-L is drawn and read back with every mask, 5-Q and 10-H with three, and a short payload, which is padded, with one. *Signing*: one request at a time, every
field good or just beyond its limit, thirteen deployments, six faces of the chain, a horizon of two days and two days that pass. *Evidence*: every rule once, and three of them with a second resolver or one fault. A larger value of any of these repeats
a case already there with another name; what the small values must allow is two of everything that can be confused, and one failure between any two steps.

**Symmetry** is used where the constants of a run are interchangeable, never in the liveness runs.

**Fairness.** `FairSpec` of `EconomyPersistence`: weak fairness of a running writer's step and of a hydration's end. Both are
promises the event loop settles: every request to the store is answered or aborted by `withTimeout` after
`TIMEOUT_MS`, and the code after the await then runs. No fairness is assumed of mutations, re-reads, flushes, or time.
`SettlementSpec`: weak fairness of a step of the sweep, the cron's worker or the rollover, because the platform fires a tick
for ever and every awaited call of it returns; and strong fairness, per market, of a resolve being answered, since a
resolve that is retried for ever and fails for ever settles nothing. Nothing is assumed of the operator, time, answers or late transactions, and kills are bounded.

**Serial requests.** `EconomyWriters` and `EconomyProgress` set `SerialRequests`: a handler does not
mutate while a re-read is in flight. Instances do serve overlapping requests; what happens then is
the finding of `EconomyOverlap`, and `EconomySoleInstance` shows what survives it.

Each property of a passing run has a mutant in `PROJECT.json`: a plausible mistake in the code with which TLC finds that property violated.

## 4. Proofs

`HunchVaultProofs` proves, for any sets of accounts, finite set of markets, stakes, fees, caps and times
that satisfy `VaultAssumption` (and that `None` is not a market configuration):

| Theorem | Statement |
|---|---|
| `TypeCorrect` | `Spec => []TypeOK` |
| `TypeInvariance` | `Spec => []TypeInv` |
| `SlotsAreExact` | `Spec => []SlotsMatchOpenMarkets` |
| `PublicCap` | `Spec => PublicCapHolds` |
| `RecipeIsFixedByBets` | `Spec => []RecipeBettorsSaw` |
| `SettlementFinal` | `Spec => SettlementIsFinal` |
| `LedgerInvariance` | `Spec => []LedgerInv` |
| `PurseConserved` | `Spec => []PurseIsSumOfMarkets` |
| `MarketsAreIsolated` | `Spec => []MarketCoversItsOwnDebts` |
| `ClaimsAreCovered` | `Spec => []EveryClaimCovered` |
| `DustIsBounded` | `Spec => []DustBelowWinners` |
| `VaultImplementsEscrow` | `Spec => ImplementsEscrow` |

*Types.* `TypeOK` says the subtractions of `resolve` and `claim` never go below zero, which it
cannot say alone. `TypeInv` adds that no pool exceeds its market's total (so the losing pool is a natural
number and the fee, below 100%, fits in it: lemma `FeeWithinAmount`), that a resolved market has a positive
winning pool (so `claim` divides by something), and that a market that was never created has no stakes
(`create_market` resets the total but not the pools, so the first conjunct needs it). One lemma per action carries it.

*Slots.* `StepKinds` reduces the next-state relation to three kinds of step: one creates a market,
one closes an open market and frees its creator's slot, all others leave both alone. `CreateOpens` and
`CloseFrees` give the effect on the set `OpenMarkets(a)`, and the finite-set theorems its cardinality.
`PublicCap` follows from the guard and the invariant: the counter tested *is* the number of open markets.

*Recipe.* `commit_recipe` tests the total pool, not whether anyone has bet. `EmptyPoolMeansNoBets` says the
two are the same; with it `RecipeBettorsSaw` is inductive. A market's total pool is reset by creation only,
and by `BlankUntilCreated` nobody has bet then.

*Finality.* `SettledIsUntouched`: no step changes anything `claim` reads of a settled market.

*Money.* `LedgerInv` is the bookkeeping no single entrypoint shows: an outcome's pool is the sum of the stakes on it, a
market's total the sum of its pools and of its bettors' totals, and what it has paid the sum over those who claimed or were refunded. The
purse is then a sum over markets of which each step moves one term. `FloorsOfShares` is the arithmetic of `claim`: the
floors of shares of a whole sum to at most the whole, and to more than the whole less one mote per winner; from it follow `MarketCoversItsOwnDebts` (for
any set of claims still due), `EveryClaimCovered` and `DustBelowWinners`. *Refinement.* `VaultImplementsEscrow` maps
every step to one of `MarketEscrow`, or a stutter; the invariants above supply what that module's guards ask.

**Sums.** `SumTheorems` proves the facts about `SumFunctionOnSet` all of this needs (a term taken out or changed, two sums compared, a sum of sums in
either order). The operator is a fold; the library's induction theorems take an operator as a parameter, which no
installed prover instantiates, so the induction is over a *set of subsets* of a finite set (`SubsetInduction`, by well-foundedness of strict inclusion).
It costs one assumption: that accounts, markets, disputes, keys and addresses are finite sets, of which every reachable state of a chain uses finitely many.

`EconomyMergeProofs` proves, for any instances, finite sets of bets and markets, slugs, definitions, bonds
and bounds that satisfy `MergeAssumption`:

| Theorem | Statement |
|---|---|
| `TypesAreKept` | `Spec => []TypeOK` |
| `CountedAtMostOnce` | `Spec => []NothingCountedTwice` |
| `MergeUnitesFacts` | `Spec => []MergeIsUnionOfFacts` |
| `SettlementsStand` | `Spec => ResolutionStands` |
| `LaunchesStand` | `Spec => FirstLaunchStands` |
| `ReleasesStand` | `Spec => ReleasesLand` |
| `NewestEvidenceWins` | `Spec => NewestEvidenceDecides` |
| `SpentIsSpent` | `Spec => SpentStaysSpent` |

*Views.* The invariant `Inv` says that every view, stored or in memory, is well typed and `CountedOnce`: a bet or resolution is
counted only under a remembered key. `MergeCountsOnce` is the heart: the counts of a merge come from one side and the keys from
both, and the union of two finite sets of keys has at least as many elements as either (`JudgedGrow`). One lemma per group of
operations says that the view it makes is good; `MutationKeepsInv` and `ImportsKeepGood` place it in memory.

*The store.* `StoreSteps`: the store changes by a merge of one memory into it, or not at all. Each action property of the store is
then a lemma about one merge (`MergeKeepsSettlement`, `MergeKeepsLaunch`, `MergeKeepsReleases`, `MergeKeepsEvidence`).
`ReleasesLand` needs more than that: that what stands in the store is newer than its tombstone (`QuarantinesStand`).

*Memories.* `MemorySteps`: a step recycles a memory, imports an envelope into it, links evidence, or keeps its evidence and gives
back at most bonds whose creation was in flight. `SpentStaysSpent` follows once no evidence is from the future
(`EvidenceInvariance`), so that linking new evidence replaces older evidence.

`EconomyProofs` proves of `EconomyPersistence`, for any instances and facts that satisfy the module's assumptions, each theorem under the
deployment it names; the runs show the same boundaries from the other side (`EconomyOverlap` violates `UnflushedSurvives` without serial requests).

| Theorem | Statement | Deployment |
|---|---|---|
| `PersistenceTypes` | `Spec => []TypeOK` | any |
| `CasLosesNothing` | `Spec => []PublishedStaysPublished` | `CasOnly`: EVAL is supported and answers; requests may overlap, GETs and SETs fail, instances die |
| `CasMemoryIsBacked` | `Spec => []MemoryIsBacked` | `CasOnly` |
| `UnflushedStays` | `Spec => []UnflushedSurvives` | `Orderly`: one request at a time, no tick, SETs succeed; EVAL may be missing or fail |
| `OwedFlushStaysOwed` | `Spec => []OwedFlushIsRemembered` | `Orderly` |
| `SoleLosesNothing` | `Spec => []PublishedStaysPublished` | `Sole`: one instance; overlapping requests, the tick, every fault |

*The store.* `CasInv`: a writer whose revision still fits the store carries all the store holds. A GET establishes it, another's write breaks the
fit (revisions only grow), so the compare-and-set that succeeds loses nothing. *What is owed.* `OwingInv`: while a re-read is in
flight the instance owes nothing, and a running writer carries what is owed unless a mutation has marked the instance dirty since. The
guard of the re-read gives the first half only when no mutation may come in between: hence `Orderly`.

`EconomyProofs` proves of `EconomyTick`, for any catalogue, rounds, outcomes and budget, and any number of kills and operator's calls (`TickSpec`, of which the run's
specification takes a part): `OneAnswerEverywhere` (`TickSpec => []OneAnswerOneSettlement`). The invariant has two halves. `AnswersWereTaken`: whatever holds an answer to
a market - vault, mirror, stored mirror, hook, a late transaction, a worker - holds one that was taken for it; so when only one was taken they agree.
`VaultCameFirst`: a worker is past its resolve with an outcome only once the vault has resolved the market, and so is a mirror, in memory and stored.

`ContractProofs` holds the smaller contracts, for any accounts, amounts, markets and times that satisfy the modules' assumptions:

| Theorem | Statement |
|---|---|
| `RegistryTypeCorrect`, `BondsAreConserved`, `BondsAreBacked` | bonds are naturals; posted = bond + slashed + returned, agent by agent; the purse is the sum of the bonds |
| `RecordsCannotBeLaundered` | `RegistrySpec => NoLaunder` |
| `EscrowsPayTheDecided`, `FundsFollowTheHook` | an escrow pays once, all of it, to the side the outcome names; the consumer holds what the unsettled ones are owed |
| `VerdictsAreFinal` | `HookSpec => VerdictIsFinal` |
| `DirectoriesStayExact` | tallies, lists and copy fees are exact |
| `RulesStand` | `FieldSpec => BettorsRulesHold` |
| `ClaimsCovered`, `ManifestIsTheClaims` | the v1 market's pot covers every claim; the manifest is what `claim` pays |
| `FieldClaimsCovered`, `FieldManifestIsTheClaims` | the same of a field market |
| `DisputesConserve`, `HonestSideIsWhole`, `OffChainAgrees` | a dispute pays what it took; the upheld side is whole; the TypeScript arithmetic and phases agree |

*Agents.* `RecordsAgree` ties a status to the bond and to the cooldown in force when the agent stopped. *Markets.* As in the vault, but stakes are a two-dimensional ledger
(bettor, outcome), so `MarketInv` (in it `MoneyAddsUp`) needs a double sum in both orders (`SumExchange`). The market's definitions are shared by both contracts, and so are the lemmas: the field market adds only that nothing is
staked before the freeze (`FrozenBeforeStakes`) and that the frozen field is the recorded one. *Disputes.* `PanelInv` accounts for each dispute by itself (`DisputeFits`), and the purse as their sum. The stake of each side is the sum of the votes for it; the penalty
pool splits into shares by floors, so the dust is what `FloorsOfShares` leaves.

`FlowProofs`, for any requests, payments, instances, pollers, attempts, bonds, fleets, boards, thresholds, plans, prices, visitors and devices:

| Theorem | Statement |
|---|---|
| `EscrowsBackTheBoards`, `MissedEscrows`, `OnePayment` | the three parts of `BoardsAreHonest` |
| `OneBondOneMarket`, `CreatedMarketsAreReal` | the two parts of `CreationIsHonest` |
| `FleetLossesAreBounded` | `FleetSpec => []LossesAreBounded` |

*Bets.* Two invariants carry the rest. `LedgersAreTrue`: any entry, in the store, in a memory or in a GET's answer on its way, shows executed escrows only, together with their keys, and at most one of those that are one bet (so
a merge, which takes one side's stakes and both sides' keys, can count none twice); and what an instance holds that owes no flush, the store has, but for what a merge left out. `KeysAreBets`: a burnt key stands for a bet that
is in that ledger or was taken from it in a way the history names (`Shown`, `BetHeld`), which `RecordingKeepsLedgers` shows of a recording, `FlushKeepsInv` and `HydrateKeepsInv` of the merge and the re-read. `StandingIsTrue` then says request by
request what its standing proves of its stake, which gives `MissedEscrows`. `PaymentsAreGuarded` is about one instance: its second request for a payment is let in only while the first is in flight (then it `raced`), or after the first was given up on, reverted or `forgotten`. Of two instances
`OnePayment` proves no more than the code gives: the key of a bet told indexed is in the store but for a named loss, and `lastRead` stays within the memory's keys and the store's, so whoever has read it refuses.
*Creation.* `CreationInv`: an attempt that is creating or has created holds its bond alone (`BondsAreClaimed`: it is spent in the memory of its instance, stored once the market is open, and no other attempt of the instance holds it); a
bond spent in memory only belongs to an attempt in flight (`ClaimsAreInFlight`), so a restart loses no bond but one whose create nobody heard of.
*Fleet.* `FleetInv`: what was stranded since the breaker was last cleared is in the count in memory, but for what each lapse cost, and within what a closed breaker lets pass and the turns of the tick under way (`RunIsCounted`); a market
at large stranded nothing but before a lapse, a quarantined one at most a tick's worth more (`MarketsAreQuarantined`); a breaker that is closed, in memory or in the store, is below its threshold (`ClosedIsBelow`). A re-read that replaces memory may undo all three for as much as
one lapse is worth (`ForgettingKeepsInv`), and for no more. The bounds follow.

*Deployment commands.* `DriverInv` relates what a run intends to what the chain holds: a market is made once because its slug is looked up first and every transaction of the run is
either answered or ends it; seeds and funds left to send are counted down from the plan. That a run the purse covers finishes (`BudgetedRunsFinish`) needs the gas still to be spent, as a sum
over the jobs left. For a field (`ContractProofs`, `FieldDriverInv`), chunks registered are a part of the plan until the freeze compares the two, and a result is preceded by its evidence.
*Visitors.* `SessionInv` types the session, so that no attempt is left waiting behind a closed dialog. `BetPanelInv` says, press by press, what its standing proves of wallet, escrow and verdict
(`PressIsTrue`); the steps of one press leave the others (`OnePressMoves`), and a reload only turns a press that was under way into one that was left. `FormInv` counts what each quote was paid: nothing of it
is paid while the form still asks, unless the wallet was mute about an earlier payment. The boards may close under a press that is still polled (`BettingCloses`): its escrow is then in `unindexed`, and the answer says so. `ConnectorInv` ties an attempt's leg, transport and answer to the tab's (`LoginIsTrue`); `TransportIsTheFirst` inverts the detection of wallets.
`DoorsInv` carries what a door saw to the block that executes the transaction: the request never changes, so what the contract then finds wrong with it (`RefusalsFollow`) is what only the chain knows, or a length a door counts in other units.

`ServiceProofs`, for any servers, callers, transfers, tiers, windows, bots, messages, listings and wirings, holds the inductive invariants behind `ServicesAreHonest`:

*Paid reads.* `QueriesInv`: what a server has burnt is what a read of its present life took, and two reads of one life never took the same transfer (`BurntIsTaken`), although each verifies before an await and
burns after it: the burn itself decides. A read that is verified or answered for a transfer stands for one that executed and paid the treasury, and one refused for it for one that did not (`ReadStands`). The free tier is a counting
argument: a window starts with a free read and counts those since (`MeterCounts`), and of the reads before it that lie less than a window back there are fewer than a tier, so any stretch as long as a window,
wherever it starts, holds fewer than two tiers (`TierIsKept`) - the bound the code's fixed windows give, and no better one is true.
*Mentions.* `MentionsInv`: a delivery at work holds its message's claim in the ledger of its server's life, and no other delivery of the message to that life does (`ClaimIsHeld`, `OneHasClaim`); one that staked never gives the claim
back; the first answer is the one every later delivery hears (`AnswerStands`, `OneAnswer`). Between servers only the bookings count: what a server heard at its last read it keeps, since flushes unite and the store only grows, so it never stakes that again; a server that
had not read, or was recycled, may. A booked bet is in the store, or in the memory of its server, or a read took it from there (`Lasting`), until the flush its answer waits for lands.
*The adapter.* `AdapterInv`: every transaction remembers the wiring it was planned under and goes where that puts its market (`GoesHome`), is signed accordingly (`SignedFor`), is told of as it ended (`ToldTruly`), and an anchor or a
dispatch follows an executed resolution (`FollowsSettlement`). `TargetsAgree` then says which rewirings can split a market between two contracts, which is what `MarketsHaveOneHome` excepts.

`PlatformProofs` carries these results to the specification the run `Platform` checks, `PlatformSpec`: `PlatformDisputesPayRight`, `PlatformBooksAddUp`,
`PlatformClaimsArePaid`, `PlatformBoardsAreHonest`, `PlatformCreationIsHonest`, `PlatformDeploysWhole`, `PlatformServesVisitors`, `PlatformServesHonestly`, `PlatformBoundsLosses`. `PlatformInv` is the conjunction of the components' inductive invariants; `OneComponentRuns` says that a
step of the platform is a step of the chosen component with the others' variables unchanged, and each component's invariant survives its own step and a stutter.

**Assumptions.** Every `ASSUME` is named in the module that declares the constant and evaluated by TLC in a run. Besides finiteness they say that amounts are positive or natural,
fees below 100%, names distinct from the marker `Unset`, lists are lists, and (`TheBatches`, `TheFirstDispute`, `TheVisitorsKeys`, `TheServicesCalled`) that the platform's instance draws its bounded calls from the components' sets. Of the pages they say that accounts are apart from the markers
`Nobody` and `Demo` and from the operator, that a wallet's own browser carries its extension (`VisitsArePossible`), that a text has no fewer bytes than UTF-16 units and the platform's oracle is configured by an account
(`ErrandsAreRequests`); of the deployment commands, that a transaction uses no more gas than it may (`GasIsLimited`), that plans are finite (`PlanAssumption`) and that an evidence hash is not the empty one (`EvidenceIsAHash`);
of the services, that a native transfer moves what it names (`NativeWiresMove`: the chain executes a native transfer as it is written), that an agent's name is no account's and no key of the operator's (`NamesAreApart`), and that a vault is configured or not (`WiringsAreSets`).

**Only model-checked.** `ReportsAreTrue`. The boards are folds over listings of any length, and the induction over a sequence is out of the prover's reach; the LMSR's series, the symbol's error correction and the
grammar of commands are recursive or read tokens one by one; the health report is one long case over
finite data, which TLC enumerates. The parts about evidence (`AnchorsHold`, `AnswersHaveAuthority`, `AuditsAreExact`) could be proved and are not yet.
`BreakerRemembers`, `RecordedBetsAreCounted` and `UnflushedSurvives` without serial requests are false (section 5). Liveness (`EveryFactIsPublished`,
`EveryMaturedMarketSettles`) is outside the prover's reach.

## 5. Where code and comments disagree

Shown by violation runs:

- **A re-read can land on an unflushed mutation** (`EconomyOverlap`). `economy-state.ts:474` says a re-read
  "must never land on top of an unflushed mutation". The guard at 477 looks when the GET is *sent*; a request that overlaps
  it may mutate before the answer is applied at 498, and memory is replaced. The writer's snapshot,
  taken after its own GET, then lacks the mutation. `rehydrateEconomyState` (530) does not look at all: its
  comment relies on the tick having mutated nothing itself, but another request of the instance may have.
- **A recorded bet is counted nowhere** (`EconomyLostBet`). `mergeEconomyEnvelopes` promises an envelope "that loses neither
  writer's work" (392). `pickLedgerEntry` keeps the entry with the bigger total whole (290), reasoning that stakes only grow
  (285): of two instances that recorded different bets one loses its bet, while the union of keys (304) remembers both, so the
  lost one can not be recorded again either. A market settled by an instance that had not seen a bet drops it in the same way (289).
- **The bet breaker forgets** (`BreakerForgets`). `bet-breaker.ts:19-22` lets the counter ride the envelope so that it reaches its
  threshold. `recordPaidNotPlaced` fires no persist hook, `dirty` stays false, and the next re-read replaces it by the stored
  breaker. A failing bet waits for the chain about as long as the TTL of 30 s, so the next agent of the same tick may already
  re-read: consecutive failures need not add up. (A landed bet appends to the feed, which fires the hook.) Quarantines, releases,
  evidence and spent bonds are recorded without the hook as well; the last two survive because their import is a union.

Noticed while modelling, without a run:

- After an EVAL without an answer, `plainSet` swallows its own failure and the caller sets `written = true` (776); `dirty` stays
  false, although the header (33-35) says every guard degrades "never to a lost flush". With `"eval"` and `"set"` in `Faults`,
  `EconomyPersistence` violates `OwedFlushIsRemembered` in this way; the runs that check that property leave these faults out.
- Merging is not commutative: ties keep the local side (entries, breaker), and the remote definition of a slug wins. The comment at
  256 says merging makes writes commutative; what holds is that facts are united (`MergeIsUnionOfFacts`).
- Resolution counts merge by maximum and their keys by union (319-331): a resolution the smaller record counted is never counted again.
- The breaker's newest evidence wins whole: a lone failure of an instance that had not seen a trip is newer than it and un-trips it.
- A bond released after a failed creation (`market-create.ts:369`) comes back as spent if the claim was published while the
  creation was in flight, although lines 350-351 say it can be retried with the same bond.
- The comment at 727-731 says exhausted conflicts and unreadable stores end in a plain SET; the code (778-797) leaves the
  write undone with `dirty` set. The code's behaviour is the deliberate one, and the one modelled.
- The comment at 662 says only a server's refusal of EVAL disables compare-and-set for the instance; any status other than 2xx does (680).

*Boards.*

- When a market resolves to an outcome nobody backed, `agent-record.ts` (`payoutFor`, 243-271, whose comment says "the two agree to the mote") pays 0 and
  scores the samples, while the vault (`hunch_vault.rs`, `resolve`) voids and refunds and `computeMarketPayouts` refunds; the boards show such a market "resolved".
- Rows of the v1 package carry no `market_id` (`parimutuel_market.rs:159`), so `decodeDeployEvent` drops every v1 bet, although `deploy-events.ts:15-17` and
  `container.ts:244-251` say all are folded.
- `agentPnl` (`agent-leaderboard.ts:41,72`) ranks ids with the prefix "agent:", and chain rows carry public keys: from the chain it is always empty.
- `eventsInSeason` (`seasons.ts:83-101`) drops bets placed in an earlier season and resolutions of another. Deploys carry no index within a block, so ties, and forecasts
  within a block, follow the hash. `fetch` keeps the *oldest* `limit` events. A failed page inflates the pool-domination shares.

*Evidence.*

- A bundle's snapshot is synthesised from the winner (`snapshotForOutcome`) and is never the datum that was read, so the replay can not detect a wrong
  winner; `arbiter.ts:176-180` calls it "the datum that justifies the outcome" and `resolution-replay.ts:85-87` says real mode supplies the actual datum
  (`container.ts:278` always uses the in-memory store). The replay of a synthesised snapshot differs from its outcome for voided thresholds, third outcomes, targets
  that are no numbers, and targets so large that 1 is absorbed.
- The arbiter commits a recipe only at resolution, when the vault refuses it once any stake has landed (`hunch_vault.rs:618-621`): a market with bets is never
  anchored, although `arbiter.ts:200-203` says a resolution is replayable from the chain alone. A void leaves the chain's market open, so its bundle can not be committed either.
- For a winner nobody backed the mirror and the vault void, while bundle, label, feed and hook name the winner. Of two resolvers with different answers the mirror keeps the
  first and the evidence links the last's (`arbiter.ts:174,181`). A definition replaced by a merge makes an honest resolution look wrong to `recipeHashMatches`.
- `resolution-recipe.ts:57` says the description is hashed; `canonicalizeRecipe` (161) leaves it out on purpose. The duplicate check runs only at prepare
  (`market-create.ts:230-234`): two people may prepare one claim and both open it.

*Payments, bots.*

- `x402/index.ts:28-37` says each payment settles exactly once; the meter's, the bets' and the creations' spent sets are separate, per instance. The bet's check
  (`agent-bet.ts:208`) is before an await and its burn (219) after it. `agent-bet.ts:45-49` calls the ledger's keys the "durable, cross-instance record" without which one proof buys a bet per instance: they are looked up in the
  instance's own copy, which a flush publishes and the next read, at most every 30 s and not while that instance is dirty (`economy-state.ts:463,477-478`), brings to the others. Until then a second instance escrows the same
  proof again, after any faults or none; what holds is `OnePaymentOneBet`. The boards count the two once if their ledgers meet; the second escrow is then in the vault only.
- A bot's server learns of another's bet in the same way (`bot-webhook.ts:69`): a mention redelivered to a warm server within the 30 s is staked again (`OneMessageOneBet` of `BotMentions`). The "rolling window" of `query-pricing.ts:8` is fixed by its first call.
- `market-create.ts:365-368` releases a bond after a failed create; a union merge (`economy-state.ts:416`) brings it back as spent. A create that times out may still execute.
- `chain/bet/route.ts:126-127` says a failure means no value moved; a confirmation that times out (`real-chain.ts:350-368`) is reported the same way.
- "Always sends exactly one reply" and "returns 200 unconditionally" (`bot-handler.ts:54-57`) do not hold for a duplicate that is still pending or a send that failed;
  `bot-handler.ts:89-93` says a dispatch finalizes its own success, which it does not; a bet whose reply failed is not flushed by that webhook (`bot-webhook.ts:72-73`, although 66-68). The X webhook reads only
  the first event of a delivery. The mock payment is a function of market, outcome, amount and payer, so a chat user can not place the same bet twice. The
  documented grammar accepts `bet 5 cspr on slug`; the parser takes `cspr` for the unit and refuses.

*Fleet and settlement.*

- The round number (`prophet.ts:400`) counts logged actions, not ticks: the rotation `prophet.ts:340-353` describes fails when the stride shares a factor with the fleet or
  the board, or when a tick logs nothing.
- `round-rollover.ts:122-125` says the quarantine isolates resolves that fail; the arbiter neither quarantines nor consults it. So "either way the cost is bounded" does not hold for a round that is on the boards only: every sweep spends a
  resolution on it, and as many of them as a sweep has time for starve every market listed after them for good, since a sweep starts from the first locked market and consults nothing that tells it which ones
  fail (`arbiter.ts:341-353`). `EveryMaturedMarketSettles` therefore supposes that fewer than `SweepBudget` such rounds stand before the market (`Hopeless`); without that premise TLC shows rounds 0 and 1 registered without a vault market, a
  budget of 2, and round 2, opened and decided, never tried. "The loss is one turn" holds for one agent per tick
  and for a revert that names the market, while the instance remembers (`LossesAreBounded`). Rounds more than two intervals old are never backfilled. A void sends nothing to the chain; the steps after a settlement are not retried; the operator's
  route answers 502 to AlreadySettled and leaves the mirror unsettled. Genesis registers the mirror even if the chain's create failed. The `resolved` flag of the LMSR book is never set.

*Health, adapters.*

- With a feed of 60 actions the oldest logged bet is hours old, so `loop.resolution`, which needs one of 24 h, can not fail; one resolution still in the ring keeps it ok. A purse between one turn and
  the planner's floor reads funded while the planner throttles (`lib/health.ts:114-119`). Without `CASPER_FLEET_SEED` real mode keeps the mock wallet (`container.ts:269-270`) and
  the checks read imaginary balances. A board of which every market is quarantined, so that nobody bets, and an x402 rail that
  is closed (no treasury to pay to) are only warnings (`core/health.ts:566-574,320-345`): `OutagesAreReported` is about the checks that fail, and does not call these outages. `contracts.routing` is ok when only some slugs are mapped and nothing else is. The "no-bundle" posture can not occur.
- The refusal of `buildCreateMarketPlan` (564-571) can not trigger: a slug listed in the addresses would be created in the vault while its bets go to the v1 package. Adding a vault
  later moves markets that lived on the fallback.

*Pages, deployment.*

- `agents/register/route.ts` says it mirrors the contract's limits so that a doomed transaction is refused there (25-26), and counts characters (74-79), while the contract counts bytes
  (`agent_registry.rs:362-367`): a name or URI beyond ASCII can pass the door and revert after gas is paid (`RefusalsAreNews` names this case). Creation is safe: its composer counts bytes.
- A "disconnected" event of any provider clears the page's session: the provider of the event is not compared with the session's.
- Another tab's disconnect leaves this tab connected, as `memoryAccount` is set on every persist (the comment at 73-74 says only when a write failed). A cancelled extension connect approved later signs the visitor in. The
  bet panel's note that a confirmed bet was not indexed (`bet-panel.tsx:202`) is rendered only while the page shows the market open (469), and a market that has closed is the reason for it: the visitor may never read it.
  After a dropped finalize poll, signing the same prepared creation again is refused, so the page never registers it. A reverted
  bond is presented again; a wallet error after submission makes a retry pay a second one.
- `RECOMMENDED_BALANCE` of `plan_cost` omits the seed stakes (`catalogue.rs:815`, comment 654-659). A rerun of `catalogue-v2` skips a market created but not registered or seeded; a rerun of v1 `catalogue` deploys a second
  package before it reverts. `field-resolve` without evidence says to run it again with one (1587), but that reverts before it reaches `commit_bundle`.

## 6. Not modelled, and what is left

- SDK, agent template, examples, scripts: clients of the interfaces above. Generated code, assets and pages that only show.
- Transaction bytes and the RPC transport, the signature schemes of the chat platforms, the MCP server (it passes calls to the routes), the per-address rate limiter, embeds: encoding and plumbing.
- What a strategy bets, how genesis and the generators word a market, the odds on pages: no property depends on them.
- The commands of `catalogue.rs` that send one transaction or only print.
- Opening a dispute from a page; the arbiter's own reputation score (its merge is in `EconomyMerge`).

Worth doing next: theorems for the parts of `ReportsAreTrue` that need no fold (the anchors and the authority of answers in `ResolutionRecords`, the alarms); `BetPlacement`'s flush in the
steps and with the faults of `EconomyPersistence`'s writer; the MCP server's payment rail; two resolvers and two
faults at once in `ResolutionRecords`.
