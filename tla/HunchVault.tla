------------------------------ MODULE HunchVault ------------------------------
(***************************************************************************)
(* The singleton escrow and settlement vault, contracts/src/hunch_vault.rs. *)
(*                                                                         *)
(* Every market is a set of entries in the vault's mappings; all of them   *)
(* share ONE purse of CSPR (`balance`, kept by the host).  An entrypoint   *)
(* call is one action: Casper runs a call to its end before the next one   *)
(* and a revert undoes all of it, so a call whose guards fail is no step.  *)
(*                                                                         *)
(* Abstracted: strings are model values, the bounds on their lengths hold  *)
(* of every value, a duplicated outcome key cannot occur in a set, events  *)
(* are left out.  `exists` is set with `config` and read as "has a config".*)
(***************************************************************************)
EXTENDS Integers, FiniteSets, Sequences, Functions

CONSTANTS
    Addresses,      \* every account that may call the vault
    admin,          \* the account that ran `init`
    Markets,        \* market ids
    Outcomes,       \* outcome keys
    Hashes,         \* recipe and bundle hashes
    None,           \* an absent config, outcome or hash
    CREATION_BOND,  \* `creation_bond`, fixed by `init`
    MAX_PUBLIC_DEADLINE_HORIZON_MS,
    \* The inputs tried: who creates, resolves and bets, and with what.
    Creators, Oracles, Bettors, CategoryChoices, FeeChoices, BondChoices,
    StakeChoices, CapChoices,
    \* Bounds: the block times seen and the motes in circulation.
    MaxTime, TokenSupply

ASSUME VaultAssumption ==
    /\ admin \in Addresses
    /\ Creators \cup Oracles \cup Bettors \subseteq Addresses
    /\ IsFiniteSet(Markets) /\ IsFiniteSet(Addresses)
    /\ None \notin Outcomes \cup Hashes
    /\ CREATION_BOND \in Nat /\ MAX_PUBLIC_DEADLINE_HORIZON_MS \in Nat
    /\ FeeChoices \cup BondChoices \cup StakeChoices \cup CapChoices \subseteq Nat
    /\ MaxTime \in Nat /\ TokenSupply \in Nat

VARIABLES
    open_creation, approved_oracles, open_markets_of,
    max_open_markets_per_creator, ids, config, status, bond_of, pool,
    total_pool, stake_on, bettor_total, claimed, winning_outcome,
    winning_pool, distributable_losing, recipe_hash, bundle_hash,
    balance,        \* host: motes in the vault's purse
    now,            \* host: block time
    bet_under       \* history: the recipe hashes some bet was placed under

policy     == <<open_creation, approved_oracles, max_open_markets_per_creator>>
registry   == <<ids, config>>
escrow     == <<pool, total_pool, stake_on, bettor_total>>
settlement == <<winning_outcome, winning_pool, distributable_losing>>
hashes     == <<recipe_hash, bundle_hash>>
vars == <<policy, registry, open_markets_of, status, bond_of, escrow, claimed,
          settlement, hashes, balance, now, bet_under>>

STATUS_OPEN     == 0
STATUS_RESOLVED == 1
STATUS_VOIDED   == 2
BPS_DENOMINATOR == 10000
MAX_PUBLIC_FEE_BPS == 500
MAX_OUTCOMES    == 8
DEFAULT_MAX_OPEN_MARKETS_PER_CREATOR == 5

\* The outcome lists `create_market` accepts: 2 to MAX_OUTCOMES distinct keys.
OutcomeLists == {S \in SUBSET Outcomes : Cardinality(S) \in 2..MAX_OUTCOMES}

MarketConfig ==
    [creator : Addresses, oracle : Addresses, category : CategoryChoices,
     fee_bps : 0..(BPS_DENOMINATOR - 1), deadline : 0..MaxTime,
     outcomes : SUBSET Outcomes]

ASSUME NoneIsNoConfig == None \notin MarketConfig

Exists(m) == config[m] # None
IsOpen(m) == Exists(m) /\ status[m] = STATUS_OPEN
Settled(m) == Exists(m) /\ status[m] # STATUS_OPEN
-----------------------------------------------------------------------------
Init ==
    /\ open_creation = FALSE
    /\ approved_oracles = {}
    /\ max_open_markets_per_creator = DEFAULT_MAX_OPEN_MARKETS_PER_CREATOR
    /\ open_markets_of = [a \in Addresses |-> 0]
    /\ ids = << >>
    /\ config = [m \in Markets |-> None]
    /\ status = [m \in Markets |-> STATUS_OPEN]
    /\ bond_of = [m \in Markets |-> 0]
    /\ pool = [m \in Markets |-> [o \in Outcomes |-> 0]]
    /\ total_pool = [m \in Markets |-> 0]
    /\ stake_on = [m \in Markets |-> [a \in Addresses |-> [o \in Outcomes |-> 0]]]
    /\ bettor_total = [m \in Markets |-> [a \in Addresses |-> 0]]
    /\ claimed = [m \in Markets |-> {}]
    /\ winning_outcome = [m \in Markets |-> None]
    /\ winning_pool = [m \in Markets |-> 0]
    /\ distributable_losing = [m \in Markets |-> 0]
    /\ recipe_hash = [m \in Markets |-> None]
    /\ bundle_hash = [m \in Markets |-> None]
    /\ balance = 0
    /\ now = 0
    /\ bet_under = [m \in Markets |-> {}]

\* Operators named Faulty... are not part of the model: each is the definition after
\* it with one plausible mistake, and shows that some property below notices it.
FaultyHasOpenSlot(a) == open_markets_of[a] <= max_open_markets_per_creator
HasOpenSlot(a) == open_markets_of[a] < max_open_markets_per_creator

\* The guardrails on a creator who is not the admin.
PublicCreationAllowed(caller, c) ==
    /\ c.category # "meta"
    /\ c.oracle # caller
    /\ c.oracle \in approved_oracles
    /\ c.fee_bps <= MAX_PUBLIC_FEE_BPS
    /\ c.deadline - now <= MAX_PUBLIC_DEADLINE_HORIZON_MS
    /\ HasOpenSlot(caller)

\* `attached` motes arrive in the purse with the call.
Receive(attached) ==
    /\ balance + attached <= TokenSupply
    /\ balance' = balance + attached

CreateMarket(caller, m, c, attached) ==
    /\ caller # admin => open_creation
    /\ ~Exists(m)
    /\ c.creator = caller
    /\ c.deadline > now
    /\ caller # admin => PublicCreationAllowed(caller, c)
    /\ attached >= CREATION_BOND
    /\ Receive(attached)
    /\ open_markets_of' = [open_markets_of EXCEPT ![caller] = @ + 1]
    /\ ids' = Append(ids, m)
    /\ config' = [config EXCEPT ![m] = c]
    /\ status' = [status EXCEPT ![m] = STATUS_OPEN]
    /\ bond_of' = [bond_of EXCEPT ![m] = attached]
    /\ total_pool' = [total_pool EXCEPT ![m] = 0]
    /\ UNCHANGED <<policy, pool, stake_on, bettor_total, claimed, settlement,
                   hashes, now, bet_under>>

FaultyBettingOpen(m) == Exists(m) /\ now < config[m].deadline
BettingOpen(m) == IsOpen(m) /\ now < config[m].deadline

Bet(bettor, m, o, amount) ==
    /\ BettingOpen(m)
    /\ o \in config[m].outcomes
    /\ amount > 0
    /\ Receive(amount)
    /\ pool' = [pool EXCEPT ![m][o] = @ + amount]
    /\ total_pool' = [total_pool EXCEPT ![m] = @ + amount]
    /\ stake_on' = [stake_on EXCEPT ![m][bettor][o] = @ + amount]
    /\ bettor_total' = [bettor_total EXCEPT ![m][bettor] = @ + amount]
    /\ bet_under' = [bet_under EXCEPT ![m] = @ \cup {recipe_hash[m]}]
    /\ UNCHANGED <<policy, registry, open_markets_of, status, bond_of, claimed,
                   settlement, hashes, now>>

\* The counter after `saturating_sub` on the creator's entry.
FaultyFreeSlot(m) ==
    [open_markets_of EXCEPT ![config[m].creator] = IF bond_of[m] > 0 THEN @ - 1 ELSE @]
FreeSlot(m) ==
    [open_markets_of EXCEPT ![config[m].creator] = IF @ > 0 THEN @ - 1 ELSE 0]

FaultyClearBond(m) == bond_of
ClearBond(m) == [bond_of EXCEPT ![m] = 0]

\* `refund_bond`, with `fee` the motes the same call sends to the treasury.
\* A transfer the purse cannot cover reverts the call.
ReleaseBond(m, fee) ==
    /\ open_markets_of' = FreeSlot(m)
    /\ bond_of' = ClearBond(m)
    /\ bond_of[m] + fee <= balance
    /\ balance' = balance - (bond_of[m] + fee)

\* `assert_oracle` and `assert_open`.
FaultyMaySettle(caller, m) == Exists(m) /\ caller = config[m].oracle
MaySettle(caller, m) == IsOpen(m) /\ caller = config[m].oracle

FaultyLosingFee(m, o) == (total_pool[m] * config[m].fee_bps) \div BPS_DENOMINATOR
LosingFee(m, o) ==
    ((total_pool[m] - pool[m][o]) * config[m].fee_bps) \div BPS_DENOMINATOR

FaultyDistributable(m, o) == total_pool[m] - pool[m][o]
Distributable(m, o) == (total_pool[m] - pool[m][o]) - LosingFee(m, o)

Resolve(caller, m, o) ==
    /\ MaySettle(caller, m)
    /\ o \in config[m].outcomes
    /\ pool[m][o] > 0
    /\ winning_outcome' = [winning_outcome EXCEPT ![m] = o]
    /\ winning_pool' = [winning_pool EXCEPT ![m] = pool[m][o]]
    /\ distributable_losing' = [distributable_losing EXCEPT ![m] = Distributable(m, o)]
    /\ status' = [status EXCEPT ![m] = STATUS_RESOLVED]
    /\ ReleaseBond(m, LosingFee(m, o))
    /\ UNCHANGED <<policy, registry, escrow, claimed, hashes, now, bet_under>>

VoidMarket(m) ==
    /\ status' = [status EXCEPT ![m] = STATUS_VOIDED]
    /\ ReleaseBond(m, 0)
    /\ UNCHANGED <<policy, registry, escrow, claimed, settlement, hashes, now,
                   bet_under>>

\* `resolve` to an outcome nobody staked voids the market instead.
ResolveWithoutWinners(caller, m, o) ==
    /\ MaySettle(caller, m)
    /\ o \in config[m].outcomes
    /\ pool[m][o] = 0
    /\ VoidMarket(m)

Void(caller, m) ==
    /\ MaySettle(caller, m)
    /\ VoidMarket(m)

FaultyShareRoundedUp(m, stake) ==
    (stake * distributable_losing[m] + winning_pool[m] - 1) \div winning_pool[m]
FaultyShareDividedFirst(m, stake) == stake * (distributable_losing[m] \div winning_pool[m])
Share(m, stake) == (stake * distributable_losing[m]) \div winning_pool[m]

WinnerPayout(m, b) ==
    LET stake == stake_on[m][b][winning_outcome[m]]
    IN  IF distributable_losing[m] = 0 THEN stake ELSE stake + Share(m, stake)

\* What `claim` computes for b on a settled market.
Payout(m, b) ==
    IF status[m] = STATUS_VOIDED THEN bettor_total[m][b] ELSE WinnerPayout(m, b)

Claim(caller, m) ==
    /\ Settled(m)
    /\ caller \notin claimed[m]
    /\ Payout(m, caller) > 0
    /\ claimed' = [claimed EXCEPT ![m] = @ \cup {caller}]
    /\ Payout(m, caller) <= balance
    /\ balance' = balance - Payout(m, caller)
    /\ UNCHANGED <<policy, registry, open_markets_of, status, bond_of, escrow,
                   settlement, hashes, now, bet_under>>

Refund(caller, m) ==
    /\ Exists(m)
    /\ status[m] = STATUS_VOIDED
    /\ Claim(caller, m)
-----------------------------------------------------------------------------
SetOpenCreation(open) ==
    /\ open_creation' = open
    /\ UNCHANGED <<approved_oracles, max_open_markets_per_creator>>

ApproveOracle(oracle, approved) ==
    /\ approved_oracles' = IF approved THEN approved_oracles \cup {oracle}
                                       ELSE approved_oracles \ {oracle}
    /\ UNCHANGED <<open_creation, max_open_markets_per_creator>>

SetMaxOpenMarketsPerCreator(max) ==
    /\ max_open_markets_per_creator' = max
    /\ UNCHANGED <<open_creation, approved_oracles>>

\* The entrypoints behind `assert_admin`.
Administer(caller) ==
    /\ caller = admin
    /\ \/ \E open \in BOOLEAN : SetOpenCreation(open)
       \/ \E oracle \in Oracles, approved \in BOOLEAN : ApproveOracle(oracle, approved)
       \/ \E max \in CapChoices : SetMaxOpenMarketsPerCreator(max)
    /\ UNCHANGED <<registry, open_markets_of, status, bond_of, escrow, claimed,
                   settlement, hashes, balance, now, bet_under>>

FaultyRecipeOpen(m) == IsOpen(m)
RecipeOpen(m) == total_pool[m] = 0

CommitRecipe(caller, m, h) ==
    /\ Exists(m)
    /\ caller \in {config[m].creator, admin}
    /\ RecipeOpen(m)
    /\ recipe_hash' = [recipe_hash EXCEPT ![m] = h]
    /\ UNCHANGED <<policy, registry, open_markets_of, status, bond_of, escrow,
                   claimed, settlement, bundle_hash, balance, now, bet_under>>

CommitBundle(caller, m, h) ==
    /\ Settled(m)
    /\ caller = config[m].oracle
    /\ bundle_hash' = [bundle_hash EXCEPT ![m] = h]
    /\ UNCHANGED <<policy, registry, open_markets_of, status, bond_of, escrow,
                   claimed, settlement, recipe_hash, balance, now, bet_under>>

AdvanceBlockTime ==
    /\ now < MaxTime
    /\ now' = now + 1
    /\ UNCHANGED <<policy, registry, open_markets_of, status, bond_of, escrow,
                   claimed, settlement, hashes, balance, bet_under>>

CreationInputs(caller) ==
    [creator : {caller}, oracle : Oracles, category : CategoryChoices,
     fee_bps : {f \in FeeChoices : f < BPS_DENOMINATOR}, deadline : 0..MaxTime,
     outcomes : OutcomeLists]

Next ==
    \/ \E a \in Creators, m \in Markets, bond \in BondChoices :
          \E c \in CreationInputs(a) : CreateMarket(a, m, c, bond)
    \/ \E b \in Bettors, m \in Markets, o \in Outcomes, s \in StakeChoices : Bet(b, m, o, s)
    \/ \E a \in Oracles, m \in Markets, o \in Outcomes : Resolve(a, m, o)
    \/ \E a \in Oracles, m \in Markets, o \in Outcomes : ResolveWithoutWinners(a, m, o)
    \/ \E a \in Oracles, m \in Markets : Void(a, m)
    \/ \E b \in Bettors, m \in Markets : Claim(b, m)
    \/ \E b \in Bettors, m \in Markets : Refund(b, m)
    \/ \E a \in Addresses : Administer(a)
    \/ \E a \in Creators \cup {admin}, m \in Markets, h \in Hashes : CommitRecipe(a, m, h)
    \/ \E a \in Oracles, m \in Markets, h \in Hashes : CommitBundle(a, m, h)
    \/ AdvanceBlockTime

Spec == Init /\ [][Next]_vars
-----------------------------------------------------------------------------
(***************************************************************************)
(* Properties                                                              *)
(***************************************************************************)

\* Every variable keeps its type; stakes, bonds and the purse never go negative.
TypeOK ==
    /\ open_creation \in BOOLEAN
    /\ approved_oracles \in SUBSET Addresses
    /\ max_open_markets_per_creator \in Nat
    /\ open_markets_of \in [Addresses -> Nat]
    /\ ids \in Seq(Markets)
    /\ config \in [Markets -> MarketConfig \cup {None}]
    /\ status \in [Markets -> {STATUS_OPEN, STATUS_RESOLVED, STATUS_VOIDED}]
    /\ bond_of \in [Markets -> Nat]
    /\ pool \in [Markets -> [Outcomes -> Nat]]
    /\ total_pool \in [Markets -> Nat]
    /\ stake_on \in [Markets -> [Addresses -> [Outcomes -> Nat]]]
    /\ bettor_total \in [Markets -> [Addresses -> Nat]]
    /\ claimed \in [Markets -> SUBSET Addresses]
    /\ winning_outcome \in [Markets -> Outcomes \cup {None}]
    /\ winning_pool \in [Markets -> Nat]
    /\ distributable_losing \in [Markets -> Nat]
    /\ recipe_hash \in [Markets -> Hashes \cup {None}]
    /\ bundle_hash \in [Markets -> Hashes \cup {None}]
    /\ balance \in Nat
    /\ now \in 0..MaxTime
    /\ bet_under \in [Markets -> SUBSET (Hashes \cup {None})]

SumOver(S, f) == SumFunctionOnSet(f, S)

\* What is still owed to b on m: nothing before settlement or after a claim.
Owed(m, b) == IF Settled(m) /\ b \notin claimed[m] THEN Payout(m, b) ELSE 0

PaidOut(m) == SumOver(claimed[m], [b \in claimed[m] |-> Payout(m, b)])

\* The motes of the shared purse that belong to market m.
Holds(m) ==
    bond_of[m] + (IF status[m] = STATUS_RESOLVED
                  THEN winning_pool[m] + distributable_losing[m]
                  ELSE total_pool[m]) - PaidOut(m)

\* Conservation: the one shared purse is, to the mote, the sum of what each market
\* holds; no path through bet, settle, claim or refund creates or loses money.
PurseIsSumOfMarkets == balance = SumOver(Markets, [m \in Markets |-> Holds(m)])

\* Isolation ("bets on market A can never pay market B"): what a market still owes
\* its bettors, and its bond, never exceed what that market itself holds.
MarketCoversItsOwnDebts ==
    \A m \in Markets :
        bond_of[m] + SumOver(Addresses, [b \in Addresses |-> Owed(m, b)]) <= Holds(m)

\* Every claim can be paid: whatever was claimed before, and on whatever market, the
\* purse covers the payout `claim` computes, so its transfer never reverts the call.
EveryClaimCovered == \A m \in Markets, b \in Addresses : Owed(m, b) <= balance

\* "Integer division dust stays in the contract": on a resolved market the floor in
\* `claim` withholds less than one mote per winner in total.
DustBelowWinners ==
    \A m \in Markets : status[m] = STATUS_RESOLVED =>
        LET winners == {b \in Addresses : WinnerPayout(m, b) > 0}
            due     == SumOver(winners, [b \in winners |-> WinnerPayout(m, b)])
            dust    == winning_pool[m] + distributable_losing[m] - due
        IN  0 <= dust /\ dust < Cardinality(winners)

\* "The counter frees on settlement": the per-creator counter the cap is tested
\* against is the number of that creator's open markets, so no slot leaks or is
\* freed twice and `saturating_sub` never saturates.
OpenMarkets(a) == {m \in Markets : IsOpen(m) /\ config[m].creator = a}
SlotsMatchOpenMarkets == \A a \in Addresses : open_markets_of[a] = Cardinality(OpenMarkets(a))

\* "Bettors can trust that the rule they bet under is the rule that settles": every
\* stake in a market was placed under the recipe hash the market shows now.
RecipeBettorsSaw == \A m \in Markets : bet_under[m] \subseteq {recipe_hash[m]}

\* A settlement is final: the result and the snapshots claims are computed from, and
\* the stakes behind them, never change once a market has left STATUS_OPEN.
SettlementIsFinal ==
    [][\A m \in Markets : Settled(m) =>
          /\ status'[m] = status[m]
          /\ winning_outcome'[m] = winning_outcome[m]
          /\ \A b \in Addresses : Payout(m, b)' = Payout(m, b)]_vars

\* "Bounds spam by open markets": a creator who is not the admin comes to hold one
\* more open market only while holding fewer than the cap, also after it was lowered.
PublicCapHolds ==
    [][\A a \in Addresses \ {admin} :
          Cardinality(OpenMarkets(a)') > Cardinality(OpenMarkets(a))
              => Cardinality(OpenMarkets(a)') <= max_open_markets_per_creator]_vars
-----------------------------------------------------------------------------
(***************************************************************************)
(* The promise of module MarketEscrow, read off the vault's state          *)
(***************************************************************************)
phases == [m \in Markets |-> IF ~Exists(m) THEN "absent"
                             ELSE IF IsOpen(m) THEN "open" ELSE "settled"]

\* A market's own purse is its share of the vault's.
purses == [m \in Markets |-> Holds(m) - bond_of[m]]

\* What is due is what `claim` would compute.
dues == [m \in Markets |-> [b \in Addresses |-> Owed(m, b)]]

Promise == INSTANCE MarketEscrow WITH
    phase <- phases, deposit <- bettor_total, purse <- purses, due <- dues

\* The vault, with one purse and lazily computed claims, implements one escrow per
\* market with everything it will pay decided at settlement.
ImplementsEscrow == Promise!Spec
=============================================================================
