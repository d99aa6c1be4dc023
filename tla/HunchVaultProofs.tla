--------------------------- MODULE HunchVaultProofs ---------------------------
(***************************************************************************)
(* Proofs about the vault for any accounts, markets, stakes, fees and times *)
(***************************************************************************)
EXTENDS HunchVault, SumTheorems

\* What a market that does not exist yet looks like: nothing was ever written for it.
Blank(m) ==
    /\ total_pool[m] = 0
    /\ \A o \in Outcomes : pool[m][o] = 0
    /\ bet_under[m] = {}

\* Pools never exceed the total: the losing side `resolve` computes is not negative.
PoolsWithinTotal == \A m \in Markets, o \in Outcomes : pool[m][o] <= total_pool[m]

\* The snapshot of a resolved market is one a claim can divide by.
SnapshotTaken ==
    \A m \in Markets : status[m] = STATUS_RESOLVED =>
        winning_outcome[m] \in Outcomes /\ winning_pool[m] > 0

BlankUntilCreated == \A m \in Markets : ~Exists(m) => Blank(m)

TypeInv == TypeOK /\ PoolsWithinTotal /\ SnapshotTaken /\ BlankUntilCreated
-----------------------------------------------------------------------------
(***************************************************************************)
(* Arithmetic of fees and shares                                           *)
(***************************************************************************)

\* A fee below 100% of an amount is at most that amount.
LEMMA FeeWithinAmount ==
    ASSUME NEW x \in Nat, NEW f \in 0..(BPS_DENOMINATOR - 1)
    PROVE  (x * f) \div BPS_DENOMINATOR \in 0..x
<1> DEFINE p == x * f
<1>1. p \in Nat
  OBVIOUS
<1>2. p <= x * 10000
  BY DEF BPS_DENOMINATOR
<1> HIDE DEF p
<1>3. p \div 10000 \in 0..x
  BY <1>1, <1>2
<1> QED
  BY <1>3 DEF p, BPS_DENOMINATOR

\* Floor division of naturals by a positive number is a natural number.
LEMMA QuotientIsNat ==
    ASSUME NEW n \in Nat, NEW d \in Nat, d > 0
    PROVE  n \div d \in Nat
  OBVIOUS
-----------------------------------------------------------------------------
(***************************************************************************)
(* Types of what the actions compute                                       *)
(***************************************************************************)

\* The fee and what is left of the losing pool are natural numbers.
LEMMA SplitType ==
    ASSUME TypeInv, NEW m \in Markets, NEW o \in Outcomes, Exists(m)
    PROVE  LosingFee(m, o) \in Nat /\ Distributable(m, o) \in Nat
<1> DEFINE losing == total_pool[m] - pool[m][o]
<1>1. losing \in Nat
  BY DEF TypeInv, TypeOK, PoolsWithinTotal
<1>2. config[m].fee_bps \in 0..(BPS_DENOMINATOR - 1)
  BY DEF TypeInv, TypeOK, Exists, MarketConfig
<1>3. (losing * config[m].fee_bps) \div BPS_DENOMINATOR \in 0..losing
  BY <1>1, <1>2, FeeWithinAmount
<1> HIDE DEF losing
<1>4. LosingFee(m, o) \in 0..losing /\ Distributable(m, o) = losing - LosingFee(m, o)
  BY <1>3 DEF LosingFee, Distributable, losing
<1> QED
  BY <1>1, <1>4

\* What `claim` computes for a settled market is a natural number.
LEMMA PayoutType ==
    ASSUME TypeInv, NEW m \in Markets, NEW b \in Addresses, Settled(m)
    PROVE  Payout(m, b) \in Nat
<1>1. CASE status[m] = STATUS_VOIDED
  BY <1>1 DEF Payout, TypeInv, TypeOK
<1>2. CASE status[m] = STATUS_RESOLVED
  <2>1. winning_outcome[m] \in Outcomes /\ winning_pool[m] \in Nat /\ winning_pool[m] > 0
    BY <1>2 DEF TypeInv, TypeOK, SnapshotTaken
  <2> DEFINE stake == stake_on[m][b][winning_outcome[m]]
  <2>2. stake \in Nat /\ distributable_losing[m] \in Nat
    BY <2>1 DEF TypeInv, TypeOK
  <2>3. stake * distributable_losing[m] \in Nat
    BY <2>2
  <2>4. Share(m, stake) \in Nat
    BY <2>1, <2>3, QuotientIsNat DEF Share
  <2>5. WinnerPayout(m, b) \in Nat
    BY <2>2, <2>4 DEF WinnerPayout
  <2> QED
    BY <1>2, <2>5 DEF Payout, STATUS_RESOLVED, STATUS_VOIDED
<1> QED
  BY <1>1, <1>2 DEF TypeInv, TypeOK, Settled, STATUS_OPEN, STATUS_RESOLVED, STATUS_VOIDED

\* Freeing a creator's slot keeps the counters natural.
LEMMA FreeSlotType ==
    ASSUME TypeOK, NEW m \in Markets, Exists(m)
    PROVE  FreeSlot(m) \in [Addresses -> Nat]
  BY SMTT(40) DEF TypeOK, Exists, MarketConfig, FreeSlot

\* `refund_bond` keeps the types of what it touches.
LEMMA ReleaseBondType ==
    ASSUME TypeOK, NEW m \in Markets, Exists(m), NEW fee \in Nat, ReleaseBond(m, fee)
    PROVE  /\ open_markets_of' \in [Addresses -> Nat]
           /\ bond_of' \in [Markets -> Nat]
           /\ balance' \in Nat
<1>1. open_markets_of' \in [Addresses -> Nat]
  BY FreeSlotType DEF ReleaseBond
<1>2. bond_of' \in [Markets -> Nat] /\ bond_of[m] \in Nat /\ balance \in Nat
  BY DEF ReleaseBond, ClearBond, TypeOK
<1>3. balance' \in Nat
  BY <1>2 DEF ReleaseBond
<1> QED
  BY <1>1, <1>2, <1>3
-----------------------------------------------------------------------------
(***************************************************************************)
(* The type invariant                                                      *)
(***************************************************************************)

LEMMA InitTypeInv == Init => TypeInv
<1> SUFFICES ASSUME Init PROVE TypeInv
  OBVIOUS
<1>1. ids \in Seq(Markets) /\ max_open_markets_per_creator \in Nat /\ now \in 0..MaxTime
  BY VaultAssumption DEF Init, DEFAULT_MAX_OPEN_MARKETS_PER_CREATOR
<1>2. /\ pool \in [Markets -> [Outcomes -> Nat]]
      /\ stake_on \in [Markets -> [Addresses -> [Outcomes -> Nat]]]
      /\ bettor_total \in [Markets -> [Addresses -> Nat]]
  BY DEF Init
<1>3. /\ open_markets_of \in [Addresses -> Nat] /\ bond_of \in [Markets -> Nat]
      /\ total_pool \in [Markets -> Nat] /\ winning_pool \in [Markets -> Nat]
      /\ distributable_losing \in [Markets -> Nat] /\ balance \in Nat
  BY DEF Init
<1>4. TypeOK
  BY <1>1, <1>2, <1>3 DEF Init, TypeOK
<1>5. PoolsWithinTotal /\ SnapshotTaken /\ BlankUntilCreated
  BY DEF Init, PoolsWithinTotal, SnapshotTaken, BlankUntilCreated, Blank, STATUS_OPEN,
     STATUS_RESOLVED
<1> QED
  BY <1>4, <1>5 DEF TypeInv

\* The inputs tried are configurations of the code's type.
LEMMA CreationInputsType ==
    ASSUME NEW a \in Creators, NEW c \in CreationInputs(a)
    PROVE  c \in MarketConfig /\ c # None
<1>1. {a} \subseteq Addresses /\ Oracles \subseteq Addresses /\ OutcomeLists \subseteq SUBSET Outcomes
  BY VaultAssumption DEF OutcomeLists
<1>2. {f \in FeeChoices : f < BPS_DENOMINATOR} \subseteq 0..(BPS_DENOMINATOR - 1)
  <2>1. \A f \in Nat : f < BPS_DENOMINATOR => f \in 0..(BPS_DENOMINATOR - 1)
    <3>1. BPS_DENOMINATOR \in Nat
      BY DEF BPS_DENOMINATOR
    <3> QED
      BY <3>1
  <2>2. FeeChoices \subseteq Nat
    BY VaultAssumption, Zenon
  <2> QED
    BY <2>1, <2>2, Zenon
<1>3. /\ c.creator \in Addresses /\ c.oracle \in Addresses /\ c.category \in CategoryChoices
      /\ c.fee_bps \in 0..(BPS_DENOMINATOR - 1) /\ c.deadline \in 0..MaxTime
      /\ c.outcomes \in SUBSET Outcomes
  BY <1>1, <1>2 DEF CreationInputs
<1>4. c = [creator |-> c.creator, oracle |-> c.oracle, category |-> c.category,
           fee_bps |-> c.fee_bps, deadline |-> c.deadline, outcomes |-> c.outcomes]
  BY DEF CreationInputs
<1>5. c \in MarketConfig
  BY <1>3, <1>4 DEF MarketConfig
<1> QED
  BY <1>5, NoneIsNoConfig

LEMMA CreateMarketTypeInv ==
    ASSUME TypeInv, NEW a \in Creators, NEW m \in Markets, NEW bond \in BondChoices,
           NEW c \in CreationInputs(a), CreateMarket(a, m, c, bond)
    PROVE  TypeInv'
<1>0. bond \in Nat /\ a \in Addresses /\ c \in MarketConfig /\ c # None
  BY VaultAssumption, CreationInputsType
<1>1. TypeOK'
  <2>1. balance' \in Nat /\ open_markets_of' \in [Addresses -> Nat]
    BY <1>0, SMTT(40) DEF TypeInv, TypeOK, CreateMarket, Receive
  <2>2. ids' \in Seq(Markets) /\ config' \in [Markets -> MarketConfig \cup {None}]
    BY <1>0 DEF TypeInv, TypeOK, CreateMarket
  <2>3. /\ status' \in [Markets -> {STATUS_OPEN, STATUS_RESOLVED, STATUS_VOIDED}]
        /\ bond_of' \in [Markets -> Nat] /\ total_pool' \in [Markets -> Nat]
    BY <1>0 DEF TypeInv, TypeOK, CreateMarket
  <2> QED
    BY <2>1, <2>2, <2>3 DEF TypeInv, TypeOK, CreateMarket, policy, settlement, hashes
<1>2. PoolsWithinTotal'
  BY DEF TypeInv, TypeOK, PoolsWithinTotal, BlankUntilCreated, Blank, CreateMarket
<1>3. SnapshotTaken'
  BY DEF TypeInv, TypeOK, SnapshotTaken, CreateMarket, settlement, STATUS_OPEN, STATUS_RESOLVED
<1>4. BlankUntilCreated'
  BY <1>0, SMTT(40) DEF TypeInv, TypeOK, BlankUntilCreated, Blank, Exists, CreateMarket
<1> QED
  BY <1>1, <1>2, <1>3, <1>4 DEF TypeInv

LEMMA BetTypeInv ==
    ASSUME TypeInv, NEW b \in Bettors, NEW m \in Markets, NEW o \in Outcomes,
           NEW s \in StakeChoices, Bet(b, m, o, s)
    PROVE  TypeInv'
<1>0. s \in Nat /\ s > 0 /\ b \in Addresses /\ Exists(m)
  BY VaultAssumption DEF Bet, BettingOpen, IsOpen
<1>a. /\ balance \in Nat /\ pool \in [Markets -> [Outcomes -> Nat]]
      /\ total_pool \in [Markets -> Nat] /\ bettor_total \in [Markets -> [Addresses -> Nat]]
      /\ stake_on \in [Markets -> [Addresses -> [Outcomes -> Nat]]]
  BY DEF TypeInv, TypeOK
<1>b. /\ balance' = balance + s
      /\ pool' = [pool EXCEPT ![m][o] = @ + s]
      /\ total_pool' = [total_pool EXCEPT ![m] = @ + s]
      /\ stake_on' = [stake_on EXCEPT ![m][b][o] = @ + s]
      /\ bettor_total' = [bettor_total EXCEPT ![m][b] = @ + s]
  BY Zenon DEF Bet, Receive
<1>1. TypeOK'
  <2>1. balance' \in Nat /\ pool' \in [Markets -> [Outcomes -> Nat]]
    BY <1>0, <1>a, <1>b
  <2>2. total_pool' \in [Markets -> Nat] /\ bettor_total' \in [Markets -> [Addresses -> Nat]]
    BY <1>0, <1>a, <1>b
  <2>3. stake_on' \in [Markets -> [Addresses -> [Outcomes -> Nat]]]
    <3>1. stake_on[m] \in [Addresses -> [Outcomes -> Nat]] /\ stake_on[m][b] \in [Outcomes -> Nat]
      BY <1>0, <1>a
    <3>2. [stake_on[m][b] EXCEPT ![o] = @ + s] \in [Outcomes -> Nat]
      BY <1>0, <3>1
    <3>3. [stake_on[m] EXCEPT ![b][o] = @ + s] \in [Addresses -> [Outcomes -> Nat]]
      BY <3>1, <3>2
    <3> QED
      BY <3>3, <1>a, <1>b
  <2>4. bet_under' \in [Markets -> SUBSET (Hashes \cup {None})]
    BY SMTT(40) DEF TypeInv, TypeOK, Bet
  <2> QED
    BY <2>1, <2>2, <2>3, <2>4 DEF TypeInv, TypeOK, Bet, policy, registry, settlement, hashes
<1>2. PoolsWithinTotal'
  <2>1. PoolsWithinTotal
    BY DEF TypeInv
  <2> QED
    BY <1>0, <1>a, <1>b, <2>1 DEF PoolsWithinTotal
<1>3. SnapshotTaken'
  BY DEF TypeInv, SnapshotTaken, Bet, settlement
<1>4. BlankUntilCreated'
  BY <1>0, ZenonT(40) DEF TypeInv, TypeOK, BlankUntilCreated, Blank, Exists, Bet, registry
<1> QED
  BY <1>1, <1>2, <1>3, <1>4 DEF TypeInv

LEMMA ResolveTypeInv ==
    ASSUME TypeInv, NEW a \in Oracles, NEW m \in Markets, NEW o \in Outcomes, Resolve(a, m, o)
    PROVE  TypeInv'
<1>0. Exists(m)
  BY DEF Resolve, MaySettle, IsOpen
<1>1. LosingFee(m, o) \in Nat /\ Distributable(m, o) \in Nat
  BY <1>0, SplitType
<1>2. TypeOK'
  <2>1. open_markets_of' \in [Addresses -> Nat] /\ bond_of' \in [Markets -> Nat] /\ balance' \in Nat
    BY <1>0, <1>1, ReleaseBondType DEF TypeInv, Resolve
  <2>2. winning_pool' \in [Markets -> Nat] /\ distributable_losing' \in [Markets -> Nat]
    BY <1>1 DEF TypeInv, TypeOK, Resolve
  <2>3. /\ winning_outcome' \in [Markets -> Outcomes \cup {None}]
        /\ status' \in [Markets -> {STATUS_OPEN, STATUS_RESOLVED, STATUS_VOIDED}]
    BY DEF TypeInv, TypeOK, Resolve
  <2> QED
    BY <2>1, <2>2, <2>3 DEF TypeInv, TypeOK, Resolve, policy, registry, escrow, hashes
<1>3. PoolsWithinTotal'
  BY DEF TypeInv, PoolsWithinTotal, Resolve, escrow
<1>4. SnapshotTaken'
  BY DEF TypeInv, TypeOK, SnapshotTaken, Resolve
<1>5. BlankUntilCreated'
  BY DEF TypeInv, BlankUntilCreated, Blank, Exists, Resolve, registry, escrow
<1> QED
  BY <1>2, <1>3, <1>4, <1>5 DEF TypeInv

\* Both ways of voiding a market.
LEMMA VoidMarketTypeInv ==
    ASSUME TypeInv, NEW m \in Markets, Exists(m), VoidMarket(m)
    PROVE  TypeInv'
<1>1. TypeOK'
  <2>1. open_markets_of' \in [Addresses -> Nat] /\ bond_of' \in [Markets -> Nat] /\ balance' \in Nat
    BY ReleaseBondType DEF TypeInv, VoidMarket
  <2>2. status' \in [Markets -> {STATUS_OPEN, STATUS_RESOLVED, STATUS_VOIDED}]
    BY DEF TypeInv, TypeOK, VoidMarket
  <2> QED
    BY <2>1, <2>2 DEF TypeInv, TypeOK, VoidMarket, policy, registry, escrow, settlement, hashes
<1>2. PoolsWithinTotal'
  BY DEF TypeInv, PoolsWithinTotal, VoidMarket, escrow
<1>3. SnapshotTaken'
  BY DEF TypeInv, TypeOK, SnapshotTaken, VoidMarket, settlement, STATUS_RESOLVED, STATUS_VOIDED
<1>4. BlankUntilCreated'
  BY DEF TypeInv, BlankUntilCreated, Blank, Exists, VoidMarket, registry, escrow
<1> QED
  BY <1>1, <1>2, <1>3, <1>4 DEF TypeInv

LEMMA ClaimTypeInv ==
    ASSUME TypeInv, NEW b \in Bettors, NEW m \in Markets, Claim(b, m)
    PROVE  TypeInv'
<1>0. b \in Addresses /\ Settled(m)
  BY VaultAssumption DEF Claim
<1>1. Payout(m, b) \in Nat
  BY <1>0, PayoutType
<1>2. balance' \in Nat /\ claimed' \in [Markets -> SUBSET Addresses]
  BY <1>0, <1>1 DEF TypeInv, TypeOK, Claim
<1>3. TypeOK'
  BY <1>2 DEF TypeInv, TypeOK, Claim, policy, registry, escrow, settlement, hashes
<1>4. PoolsWithinTotal' /\ SnapshotTaken'
  BY DEF TypeInv, PoolsWithinTotal, SnapshotTaken, Claim, escrow, settlement
<1>5. BlankUntilCreated'
  BY DEF TypeInv, BlankUntilCreated, Blank, Exists, Claim, registry, escrow
<1> QED
  BY <1>3, <1>4, <1>5 DEF TypeInv

\* The steps that leave every market's money and status alone.
LEMMA QuietTypeInv ==
    ASSUME TypeInv, TypeOK', UNCHANGED <<registry, status, escrow, settlement, bet_under>>
    PROVE  TypeInv'
<1>1. PoolsWithinTotal' /\ SnapshotTaken'
  BY DEF TypeInv, PoolsWithinTotal, SnapshotTaken, escrow, settlement
<1>2. BlankUntilCreated'
  BY DEF TypeInv, BlankUntilCreated, Blank, Exists, registry, escrow
<1> QED
  BY <1>1, <1>2 DEF TypeInv

LEMMA AdministerTypeInv ==
    ASSUME TypeInv, NEW a \in Addresses, Administer(a)
    PROVE  TypeInv'
<1>1. /\ open_creation' \in BOOLEAN
      /\ approved_oracles' \in SUBSET Addresses
      /\ max_open_markets_per_creator' \in Nat
  BY VaultAssumption DEF TypeInv, TypeOK, Administer, SetOpenCreation, ApproveOracle,
     SetMaxOpenMarketsPerCreator
<1>2. TypeOK'
  BY <1>1 DEF TypeInv, TypeOK, Administer, registry, escrow, settlement, hashes
<1> QED
  BY <1>2, QuietTypeInv DEF Administer

LEMMA CommitTypeInv ==
    ASSUME TypeInv, NEW a, NEW m \in Markets, NEW h \in Hashes,
           CommitRecipe(a, m, h) \/ CommitBundle(a, m, h)
    PROVE  TypeInv'
<1>1. CASE CommitRecipe(a, m, h)
  <2>1. TypeOK'
    BY <1>1 DEF TypeInv, TypeOK, CommitRecipe, policy, registry, escrow, settlement
  <2> QED
    BY <1>1, <2>1, QuietTypeInv DEF CommitRecipe
<1>2. CASE CommitBundle(a, m, h)
  <2>1. TypeOK'
    BY <1>2 DEF TypeInv, TypeOK, CommitBundle, policy, registry, escrow, settlement
  <2> QED
    BY <1>2, <2>1, QuietTypeInv DEF CommitBundle
<1> QED
  BY <1>1, <1>2

LEMMA AdvanceBlockTimeTypeInv == TypeInv /\ AdvanceBlockTime => TypeInv'
<1> SUFFICES ASSUME TypeInv, AdvanceBlockTime PROVE TypeInv'
  OBVIOUS
<1>1. now' \in 0..MaxTime
  BY VaultAssumption DEF TypeInv, TypeOK, AdvanceBlockTime
<1>2. TypeOK'
  BY <1>1 DEF TypeInv, TypeOK, AdvanceBlockTime, policy, registry, escrow, settlement, hashes
<1> QED
  BY <1>2, QuietTypeInv DEF AdvanceBlockTime

LEMMA StutterTypeInv == TypeInv /\ UNCHANGED vars => TypeInv'
<1> SUFFICES ASSUME TypeInv, UNCHANGED vars PROVE TypeInv'
  OBVIOUS
<1>1. TypeOK'
  BY DEF TypeInv, TypeOK, vars, policy, registry, escrow, settlement, hashes
<1> QED
  BY <1>1, QuietTypeInv DEF vars

LEMMA NextTypeInv == TypeInv /\ [Next]_vars => TypeInv'
<1> SUFFICES ASSUME TypeInv, [Next]_vars PROVE TypeInv'
  OBVIOUS
<1>1. ASSUME NEW a \in Creators, NEW m \in Markets, NEW bond \in BondChoices,
             NEW c \in CreationInputs(a), CreateMarket(a, m, c, bond)
      PROVE  TypeInv'
  BY <1>1, CreateMarketTypeInv
<1>2. ASSUME NEW b \in Bettors, NEW m \in Markets, NEW o \in Outcomes, NEW s \in StakeChoices,
             Bet(b, m, o, s)
      PROVE  TypeInv'
  BY <1>2, BetTypeInv
<1>3. ASSUME NEW a \in Oracles, NEW m \in Markets, NEW o \in Outcomes, Resolve(a, m, o)
      PROVE  TypeInv'
  BY <1>3, ResolveTypeInv
<1>4. ASSUME NEW a \in Oracles, NEW m \in Markets, NEW o \in Outcomes,
             ResolveWithoutWinners(a, m, o) \/ Void(a, m)
      PROVE  TypeInv'
  BY <1>4, VoidMarketTypeInv DEF ResolveWithoutWinners, Void, MaySettle, IsOpen
<1>5. ASSUME NEW a \in Oracles, NEW m \in Markets, Void(a, m)
      PROVE  TypeInv'
  BY <1>5, VoidMarketTypeInv DEF Void, MaySettle, IsOpen
<1>6. ASSUME NEW b \in Bettors, NEW m \in Markets, Claim(b, m) \/ Refund(b, m)
      PROVE  TypeInv'
  BY <1>6, ClaimTypeInv DEF Refund
<1>7. ASSUME NEW a \in Addresses, Administer(a) PROVE TypeInv'
  BY <1>7, AdministerTypeInv
<1>8. ASSUME NEW a, NEW m \in Markets, NEW h \in Hashes,
             CommitRecipe(a, m, h) \/ CommitBundle(a, m, h)
      PROVE  TypeInv'
  BY <1>8, CommitTypeInv
<1>9. CASE AdvanceBlockTime
  BY <1>9, AdvanceBlockTimeTypeInv
<1>10. CASE UNCHANGED vars
  BY <1>10, StutterTypeInv
<1> QED
  BY <1>1, <1>2, <1>3, <1>4, <1>5, <1>6, <1>7, <1>8, <1>9, <1>10 DEF Next

\* The invariant the other proofs stand on holds in every reachable state.
THEOREM TypeInvariance == Spec => []TypeInv
<1> QED
  BY InitTypeInv, NextTypeInv, PTL DEF Spec

\* Every variable of the vault keeps its type: no pool, bond, payout or purse of any
\* number of markets, bettors and calls goes negative.
THEOREM TypeCorrect == Spec => []TypeOK
<1>1. TypeInv => TypeOK
  BY DEF TypeInv
<1> QED
  BY <1>1, TypeInvariance, PTL
-----------------------------------------------------------------------------
(***************************************************************************)
(* Open markets                                                            *)
(***************************************************************************)

\* Market m leaves STATUS_OPEN, and its creator's slot is freed in the same step.
Closes(m) ==
    /\ IsOpen(m)
    /\ config' = config
    /\ status' \in {[status EXCEPT ![m] = STATUS_RESOLVED], [status EXCEPT ![m] = STATUS_VOIDED]}
    /\ open_markets_of' = FreeSlot(m)

\* A step creates one market, closes one, or changes neither slots nor statuses.
LEMMA StepKinds ==
    ASSUME [Next]_vars
    PROVE  \/ \E a \in Creators, m \in Markets, bond \in BondChoices :
                 \E c \in CreationInputs(a) : CreateMarket(a, m, c, bond)
           \/ \E m \in Markets : Closes(m)
           \/ UNCHANGED <<config, status, open_markets_of>>
<1>1. ASSUME NEW a \in Oracles, NEW m \in Markets, NEW o \in Outcomes,
             Resolve(a, m, o) \/ ResolveWithoutWinners(a, m, o) \/ Void(a, m)
      PROVE  Closes(m)
  BY <1>1 DEF Closes, Resolve, ResolveWithoutWinners, Void, VoidMarket, MaySettle, ReleaseBond,
     registry
<1>2. ASSUME NEW a \in Oracles, NEW m \in Markets, Void(a, m)
      PROVE  Closes(m)
  BY <1>2 DEF Closes, Void, VoidMarket, MaySettle, ReleaseBond, registry
<1>3. ASSUME NEW b, NEW m \in Markets, Claim(b, m) \/ Refund(b, m)
      PROVE  UNCHANGED <<config, status, open_markets_of>>
  BY <1>3 DEF Claim, Refund, registry
<1>4. ASSUME NEW b, NEW m \in Markets, NEW o, NEW s, Bet(b, m, o, s)
      PROVE  UNCHANGED <<config, status, open_markets_of>>
  BY <1>4 DEF Bet, registry
<1>5. ASSUME NEW a, NEW m \in Markets, NEW h, CommitRecipe(a, m, h) \/ CommitBundle(a, m, h)
      PROVE  UNCHANGED <<config, status, open_markets_of>>
  BY <1>5 DEF CommitRecipe, CommitBundle, registry
<1>6. ASSUME NEW a, Administer(a)
      PROVE  UNCHANGED <<config, status, open_markets_of>>
  BY <1>6 DEF Administer, registry
<1>7. AdvanceBlockTime \/ UNCHANGED vars => UNCHANGED <<config, status, open_markets_of>>
  BY DEF AdvanceBlockTime, vars, registry
<1> QED
  BY <1>1, <1>2, <1>3, <1>4, <1>5, <1>6, <1>7 DEF Next

LEMMA OpenMarketsFinite ==
    ASSUME NEW a
    PROVE  IsFiniteSet(OpenMarkets(a)) /\ Cardinality(OpenMarkets(a)) \in Nat
<1>1. OpenMarkets(a) \subseteq Markets
  BY DEF OpenMarkets
<1> QED
  BY <1>1, VaultAssumption, FS_Subset, FS_CardinalityType

\* `create_market` adds the market to its creator's open markets and to no others.
LEMMA CreateOpens ==
    ASSUME TypeInv, NEW a \in Creators, NEW m \in Markets, NEW bond \in BondChoices,
           NEW c \in CreationInputs(a), CreateMarket(a, m, c, bond)
    PROVE  /\ OpenMarkets(a)' = OpenMarkets(a) \cup {m}
           /\ m \notin OpenMarkets(a)
           /\ \A x \in Addresses \ {a} : OpenMarkets(x)' = OpenMarkets(x)
           /\ open_markets_of'[a] = open_markets_of[a] + 1
           /\ \A x \in Addresses \ {a} : open_markets_of'[x] = open_markets_of[x]
<1>0. a \in Addresses /\ c # None /\ c.creator = a /\ ~Exists(m)
  BY VaultAssumption, CreationInputsType DEF CreateMarket
<1>1. /\ config' = [config EXCEPT ![m] = c] /\ status' = [status EXCEPT ![m] = STATUS_OPEN]
      /\ config \in [Markets -> MarketConfig \cup {None}]
      /\ status \in [Markets -> {STATUS_OPEN, STATUS_RESOLVED, STATUS_VOIDED}]
      /\ open_markets_of' = [open_markets_of EXCEPT ![a] = @ + 1]
      /\ open_markets_of \in [Addresses -> Nat]
  BY DEF CreateMarket, TypeInv, TypeOK
<1>2. \A n \in Markets \ {m} : config'[n] = config[n] /\ status'[n] = status[n]
  BY <1>1
<1>3. config'[m] = c /\ status'[m] = STATUS_OPEN
  BY <1>1
<1>4. OpenMarkets(a)' = OpenMarkets(a) \cup {m} /\ m \notin OpenMarkets(a)
  BY <1>0, <1>2, <1>3 DEF OpenMarkets, IsOpen, Exists
<1>5. \A x \in Addresses \ {a} : OpenMarkets(x)' = OpenMarkets(x)
  BY <1>0, <1>2, <1>3 DEF OpenMarkets, IsOpen, Exists
<1> QED
  BY <1>0, <1>1, <1>4, <1>5

\* Closing a market removes it from its creator's open markets and frees one slot.
LEMMA CloseFrees ==
    ASSUME TypeInv, NEW m \in Markets, Closes(m)
    PROVE  \E a \in Addresses :
               /\ a = config[m].creator
               /\ m \in OpenMarkets(a)
               /\ OpenMarkets(a)' = OpenMarkets(a) \ {m}
               /\ \A x \in Addresses \ {a} : OpenMarkets(x)' = OpenMarkets(x)
<1>0. config[m].creator \in Addresses
  BY DEF Closes, IsOpen, Exists, TypeInv, TypeOK, MarketConfig
<1> PICK a \in Addresses : a = config[m].creator
  BY <1>0
<1>1. m \in OpenMarkets(a)
  BY DEF Closes, OpenMarkets, IsOpen, Exists, TypeInv, TypeOK, MarketConfig
<1>2. config' = config /\ status'[m] # STATUS_OPEN
  BY DEF Closes, TypeInv, TypeOK, STATUS_OPEN, STATUS_RESOLVED, STATUS_VOIDED
<1>3. \A n \in Markets \ {m} : status'[n] = status[n]
  BY DEF Closes, TypeInv, TypeOK
<1>4. OpenMarkets(a)' = OpenMarkets(a) \ {m}
  BY <1>2, <1>3 DEF OpenMarkets, IsOpen, Exists
<1>5. \A x \in Addresses \ {a} : OpenMarkets(x)' = OpenMarkets(x)
  BY <1>2, <1>3 DEF OpenMarkets, IsOpen, Exists
<1> QED
  BY <1>1, <1>4, <1>5

LEMMA QuietKeepsOpenMarkets ==
    ASSUME UNCHANGED <<config, status>>, NEW a
    PROVE  OpenMarkets(a)' = OpenMarkets(a)
  BY DEF OpenMarkets, IsOpen, Exists

LEMMA InitSlots == Init => SlotsMatchOpenMarkets
<1> SUFFICES ASSUME Init, NEW a \in Addresses
             PROVE  open_markets_of[a] = Cardinality(OpenMarkets(a))
  BY DEF SlotsMatchOpenMarkets
<1>1. OpenMarkets(a) = {}
  BY DEF Init, OpenMarkets, IsOpen, Exists
<1> QED
  BY <1>1, FS_EmptySet DEF Init

LEMMA NextSlots ==
    ASSUME TypeInv, SlotsMatchOpenMarkets, [Next]_vars
    PROVE  SlotsMatchOpenMarkets'
<1>1. ASSUME NEW a \in Creators, NEW m \in Markets, NEW bond \in BondChoices,
             NEW c \in CreationInputs(a), CreateMarket(a, m, c, bond)
      PROVE  SlotsMatchOpenMarkets'
  <2>0. a \in Addresses
    BY VaultAssumption
  <2>1. Cardinality(OpenMarkets(a)') = Cardinality(OpenMarkets(a)) + 1
    BY <1>1, CreateOpens, OpenMarketsFinite, FS_AddElement
  <2>2. open_markets_of'[a] = Cardinality(OpenMarkets(a)')
    BY <1>1, <2>0, <2>1, CreateOpens DEF SlotsMatchOpenMarkets
  <2>3. \A x \in Addresses \ {a} : open_markets_of'[x] = Cardinality(OpenMarkets(x)')
    BY <1>1, CreateOpens DEF SlotsMatchOpenMarkets
  <2> QED
    BY <2>2, <2>3 DEF SlotsMatchOpenMarkets
<1>2. ASSUME NEW m \in Markets, Closes(m)
      PROVE  SlotsMatchOpenMarkets'
  <2>1. PICK a \in Addresses :
            /\ a = config[m].creator
            /\ m \in OpenMarkets(a)
            /\ OpenMarkets(a)' = OpenMarkets(a) \ {m}
            /\ \A x \in Addresses \ {a} : OpenMarkets(x)' = OpenMarkets(x)
    BY <1>2, CloseFrees
  <2>2. /\ Cardinality(OpenMarkets(a)') = Cardinality(OpenMarkets(a)) - 1
        /\ Cardinality(OpenMarkets(a)) \in Nat /\ Cardinality(OpenMarkets(a)') \in Nat
    <3>1. IsFiniteSet(OpenMarkets(a)) /\ IsFiniteSet(OpenMarkets(a) \ {m})
      BY OpenMarketsFinite, FS_RemoveElement
    <3> QED
      BY <2>1, <3>1, FS_RemoveElement, FS_CardinalityType
  <2>3. open_markets_of[a] = Cardinality(OpenMarkets(a)) /\ open_markets_of \in [Addresses -> Nat]
    BY <2>1 DEF SlotsMatchOpenMarkets, TypeInv, TypeOK
  <2>4. open_markets_of' = [open_markets_of EXCEPT ![a] = IF @ > 0 THEN @ - 1 ELSE 0]
    BY <1>2, <2>1 DEF Closes, FreeSlot
  <2>5. open_markets_of'[a] = Cardinality(OpenMarkets(a)')
    BY <2>1, <2>2, <2>3, <2>4
  <2>6. \A x \in Addresses \ {a} : open_markets_of'[x] = Cardinality(OpenMarkets(x)')
    <3> SUFFICES ASSUME NEW x \in Addresses \ {a}
                 PROVE  open_markets_of'[x] = Cardinality(OpenMarkets(x)')
      OBVIOUS
    <3>1. open_markets_of'[x] = open_markets_of[x]
      BY <2>1, <2>3, <2>4
    <3>2. OpenMarkets(x)' = OpenMarkets(x)
      BY <2>1
    <3> QED
      BY <3>1, <3>2 DEF SlotsMatchOpenMarkets
  <2> QED
    BY <2>5, <2>6 DEF SlotsMatchOpenMarkets
<1>3. CASE UNCHANGED <<config, status, open_markets_of>>
  BY <1>3, QuietKeepsOpenMarkets DEF SlotsMatchOpenMarkets
<1> QED
  BY <1>1, <1>2, <1>3, StepKinds

\* The slot counter the cap is tested against is, in every reachable state and for every
\* account, the number of that creator's open markets.
THEOREM SlotsAreExact == Spec => []SlotsMatchOpenMarkets
<1>1. Init => TypeInv /\ SlotsMatchOpenMarkets
  BY InitTypeInv, InitSlots
<1>2. TypeInv /\ SlotsMatchOpenMarkets /\ [Next]_vars => (TypeInv /\ SlotsMatchOpenMarkets)'
  BY NextTypeInv, NextSlots
<1> QED
  BY <1>1, <1>2, PTL DEF Spec

\* A new open market of a creator who is not the admin passed the cap in the same step.
LEMMA CreationWithinCap ==
    ASSUME TypeInv, SlotsMatchOpenMarkets, NEW a \in Creators, NEW m \in Markets,
           NEW bond \in BondChoices, NEW c \in CreationInputs(a), CreateMarket(a, m, c, bond),
           a # admin
    PROVE  Cardinality(OpenMarkets(a)') <= max_open_markets_per_creator
<1>0. a \in Addresses
  BY VaultAssumption
<1>1. Cardinality(OpenMarkets(a)') = Cardinality(OpenMarkets(a)) + 1
  BY CreateOpens, OpenMarketsFinite, FS_AddElement
<1>2. Cardinality(OpenMarkets(a)) < max_open_markets_per_creator
  BY <1>0 DEF CreateMarket, PublicCreationAllowed, HasOpenSlot, SlotsMatchOpenMarkets
<1>3. Cardinality(OpenMarkets(a)) \in Nat /\ max_open_markets_per_creator \in Nat
  BY OpenMarketsFinite DEF TypeInv, TypeOK
<1> QED
  BY <1>1, <1>2, <1>3

LEMMA StepKeepsCap ==
    ASSUME TypeInv, SlotsMatchOpenMarkets, [Next]_vars, NEW x \in Addresses \ {admin},
           Cardinality(OpenMarkets(x)') > Cardinality(OpenMarkets(x))
    PROVE  Cardinality(OpenMarkets(x)') <= max_open_markets_per_creator
<1>0. Cardinality(OpenMarkets(x)) \in Nat
  BY OpenMarketsFinite
<1>1. ASSUME NEW a \in Creators, NEW m \in Markets, NEW bond \in BondChoices,
             NEW c \in CreationInputs(a), CreateMarket(a, m, c, bond)
      PROVE  Cardinality(OpenMarkets(x)') <= max_open_markets_per_creator
  <2>1. CASE x = a
    BY <1>1, <2>1, CreationWithinCap
  <2>2. CASE x # a
    <3>1. OpenMarkets(x)' = OpenMarkets(x)
      BY <1>1, <2>2, CreateOpens
    <3> QED
      BY <1>0, <3>1
  <2> QED
    BY <2>1, <2>2
<1>2. ASSUME NEW m \in Markets, Closes(m)
      PROVE  FALSE
  <2>1. PICK a \in Addresses :
            /\ m \in OpenMarkets(a)
            /\ OpenMarkets(a)' = OpenMarkets(a) \ {m}
            /\ \A y \in Addresses \ {a} : OpenMarkets(y)' = OpenMarkets(y)
    BY <1>2, CloseFrees
  <2>2. CASE x = a
    <3>1. OpenMarkets(x)' \subseteq OpenMarkets(x)
      BY <2>1, <2>2
    <3>2. Cardinality(OpenMarkets(x)') <= Cardinality(OpenMarkets(x))
      BY <3>1, OpenMarketsFinite, FS_Subset
    <3>3. Cardinality(OpenMarkets(x)') \in Nat
      BY <3>1, OpenMarketsFinite, FS_Subset, FS_CardinalityType
    <3> QED
      BY <1>0, <3>2, <3>3
  <2>3. CASE x # a
    <3>1. OpenMarkets(x)' = OpenMarkets(x)
      BY <2>1, <2>3
    <3> QED
      BY <1>0, <3>1
  <2> QED
    BY <2>2, <2>3
<1>3. CASE UNCHANGED <<config, status, open_markets_of>>
  <2>1. OpenMarkets(x)' = OpenMarkets(x)
    BY <1>3, QuietKeepsOpenMarkets
  <2> QED
    BY <1>0, <2>1
<1> QED
  BY <1>1, <1>2, <1>3, StepKinds

\* The cap on public creation holds for every creator, cap and order of calls, also when
\* the admin lowers the cap below what a creator already holds.
THEOREM PublicCap == Spec => PublicCapHolds
<1>1. TypeInv /\ SlotsMatchOpenMarkets /\ [Next]_vars =>
        [\A a \in Addresses \ {admin} :
            Cardinality(OpenMarkets(a)') > Cardinality(OpenMarkets(a))
                => Cardinality(OpenMarkets(a)') <= max_open_markets_per_creator]_vars
  BY StepKeepsCap
<1> QED
  BY <1>1, TypeInvariance, SlotsAreExact, PTL DEF Spec, PublicCapHolds
-----------------------------------------------------------------------------
(***************************************************************************)
(* The recipe hash                                                         *)
(***************************************************************************)

\* `commit_recipe` tests the total pool, so the total must tell whether anyone has bet.
EmptyPoolMeansNoBets == \A m \in Markets : total_pool[m] = 0 => bet_under[m] = {}

RecipeInv == RecipeBettorsSaw /\ EmptyPoolMeansNoBets

LEMMA BetKeepsRecipe ==
    ASSUME TypeInv, RecipeInv, NEW b, NEW m \in Markets, NEW o, NEW s \in StakeChoices,
           Bet(b, m, o, s)
    PROVE  RecipeInv'
<1>1. /\ recipe_hash' = recipe_hash
      /\ bet_under' = [bet_under EXCEPT ![m] = @ \cup {recipe_hash[m]}]
      /\ bet_under \in [Markets -> SUBSET (Hashes \cup {None})]
  BY DEF Bet, hashes, TypeInv, TypeOK
<1>2. RecipeBettorsSaw'
  <2> SUFFICES ASSUME NEW n \in Markets PROVE bet_under'[n] \subseteq {recipe_hash'[n]}
    BY DEF RecipeBettorsSaw
  <2>1. bet_under[n] \subseteq {recipe_hash[n]}
    BY DEF RecipeInv, RecipeBettorsSaw
  <2> QED
    BY <1>1, <2>1
<1>3. EmptyPoolMeansNoBets'
  <2> SUFFICES ASSUME NEW n \in Markets, total_pool'[n] = 0 PROVE bet_under'[n] = {}
    BY DEF EmptyPoolMeansNoBets
  <2>1. s \in Nat /\ s > 0 /\ total_pool \in [Markets -> Nat]
    BY VaultAssumption DEF Bet, TypeInv, TypeOK
  <2>2. n # m /\ total_pool'[n] = total_pool[n]
    BY <2>1 DEF Bet
  <2> QED
    BY <1>1, <2>2 DEF RecipeInv, EmptyPoolMeansNoBets
<1> QED
  BY <1>2, <1>3 DEF RecipeInv

LEMMA CreationKeepsRecipe ==
    ASSUME TypeInv, RecipeInv, NEW a, NEW m \in Markets, NEW c, NEW bond,
           CreateMarket(a, m, c, bond)
    PROVE  RecipeInv'
<1>1. recipe_hash' = recipe_hash /\ bet_under' = bet_under /\ bet_under[m] = {}
  BY DEF CreateMarket, hashes, TypeInv, BlankUntilCreated, Blank
<1>2. \A n \in Markets \ {m} : total_pool'[n] = total_pool[n]
  BY DEF CreateMarket, TypeInv, TypeOK
<1>3. EmptyPoolMeansNoBets'
  BY <1>1, <1>2 DEF RecipeInv, EmptyPoolMeansNoBets
<1> QED
  BY <1>1, <1>3 DEF RecipeInv, RecipeBettorsSaw

LEMMA CommitKeepsRecipe ==
    ASSUME TypeInv, RecipeInv, NEW a, NEW m \in Markets, NEW h, CommitRecipe(a, m, h)
    PROVE  RecipeInv'
<1>1. bet_under' = bet_under /\ total_pool' = total_pool /\ bet_under[m] = {}
  BY DEF CommitRecipe, RecipeOpen, escrow, RecipeInv, EmptyPoolMeansNoBets
<1>2. \A n \in Markets \ {m} : recipe_hash'[n] = recipe_hash[n]
  BY DEF CommitRecipe, TypeInv, TypeOK
<1>3. RecipeBettorsSaw'
  BY <1>1, <1>2 DEF RecipeInv, RecipeBettorsSaw
<1> QED
  BY <1>1, <1>3 DEF RecipeInv, EmptyPoolMeansNoBets

\* No other step touches the recipe, the total pool or the record of bets.
LEMMA OthersKeepRecipe ==
    ASSUME [Next]_vars
    PROVE  \/ \E a \in Creators, m \in Markets, bond \in BondChoices :
                 \E c \in CreationInputs(a) : CreateMarket(a, m, c, bond)
           \/ \E b \in Bettors, m \in Markets, o \in Outcomes, s \in StakeChoices :
                 Bet(b, m, o, s)
           \/ \E a \in Creators \cup {admin}, m \in Markets, h \in Hashes :
                 CommitRecipe(a, m, h)
           \/ UNCHANGED <<recipe_hash, total_pool, bet_under>>
<1>1. ASSUME NEW a, NEW m, NEW o, Resolve(a, m, o) \/ ResolveWithoutWinners(a, m, o)
      PROVE  UNCHANGED <<recipe_hash, total_pool, bet_under>>
  BY <1>1 DEF Resolve, ResolveWithoutWinners, VoidMarket, escrow, hashes
<1>2. ASSUME NEW a, NEW m, Void(a, m) \/ Claim(a, m) \/ Refund(a, m)
      PROVE  UNCHANGED <<recipe_hash, total_pool, bet_under>>
  BY <1>2 DEF Void, VoidMarket, Claim, Refund, escrow, hashes
<1>3. ASSUME NEW a, NEW m, NEW h, CommitBundle(a, m, h)
      PROVE  UNCHANGED <<recipe_hash, total_pool, bet_under>>
  BY <1>3 DEF CommitBundle, escrow
<1>4. ASSUME NEW a, Administer(a)
      PROVE  UNCHANGED <<recipe_hash, total_pool, bet_under>>
  BY <1>4 DEF Administer, escrow, hashes
<1>5. AdvanceBlockTime \/ UNCHANGED vars => UNCHANGED <<recipe_hash, total_pool, bet_under>>
  BY DEF AdvanceBlockTime, vars, escrow, hashes
<1> QED
  BY <1>1, <1>2, <1>3, <1>4, <1>5 DEF Next

LEMMA NextRecipe ==
    ASSUME TypeInv, RecipeInv, [Next]_vars
    PROVE  RecipeInv'
<1>1. CASE UNCHANGED <<recipe_hash, total_pool, bet_under>>
  BY <1>1 DEF RecipeInv, RecipeBettorsSaw, EmptyPoolMeansNoBets
<1> QED
  BY <1>1, OthersKeepRecipe, CreationKeepsRecipe, BetKeepsRecipe, CommitKeepsRecipe

\* Whatever is committed and bet in whatever order, every stake of a market was placed
\* under the recipe hash the market shows.
THEOREM RecipeIsFixedByBets == Spec => []RecipeBettorsSaw
<1>1. Init => TypeInv /\ RecipeInv
  <2>1. Init => RecipeInv
    BY DEF Init, RecipeInv, RecipeBettorsSaw, EmptyPoolMeansNoBets
  <2> QED
    BY <2>1, InitTypeInv
<1>2. TypeInv /\ RecipeInv /\ [Next]_vars => (TypeInv /\ RecipeInv)'
  BY NextTypeInv, NextRecipe
<1>3. RecipeInv => RecipeBettorsSaw
  BY DEF RecipeInv
<1> QED
  BY <1>1, <1>2, <1>3, PTL DEF Spec
-----------------------------------------------------------------------------
(***************************************************************************)
(* Settlements are final                                                   *)
(***************************************************************************)

\* Everything `claim` reads of market m.
Result(m) == <<status[m], winning_outcome[m], winning_pool[m], distributable_losing[m],
               stake_on[m], bettor_total[m]>>

\* Only steps on a market that is not settled change what its claims are computed from.
LEMMA SettledIsUntouched ==
    ASSUME TypeInv, [Next]_vars, NEW m \in Markets, Settled(m)
    PROVE  Result(m)' = Result(m)
<1> USE DEF Result
<1>1. ASSUME NEW a, NEW n \in Markets, NEW c, NEW bond, CreateMarket(a, n, c, bond)
      PROVE  Result(m)' = Result(m)
  BY <1>1 DEF CreateMarket, Settled, settlement, TypeInv, TypeOK
<1>2. ASSUME NEW b, NEW n \in Markets, NEW o, NEW s, Bet(b, n, o, s)
      PROVE  Result(m)' = Result(m)
  BY <1>2 DEF Bet, BettingOpen, IsOpen, Settled, settlement, TypeInv, TypeOK
<1>3. ASSUME NEW a, NEW n \in Markets, NEW o, Resolve(a, n, o)
      PROVE  Result(m)' = Result(m)
  BY <1>3 DEF Resolve, MaySettle, IsOpen, Settled, escrow, TypeInv, TypeOK
<1>4. ASSUME NEW n \in Markets, IsOpen(n), VoidMarket(n)
      PROVE  Result(m)' = Result(m)
  BY <1>4 DEF VoidMarket, IsOpen, Settled, escrow, settlement, TypeInv, TypeOK
<1>5. ASSUME NEW a, NEW n \in Markets, NEW o, ResolveWithoutWinners(a, n, o)
      PROVE  Result(m)' = Result(m)
  BY <1>4, <1>5 DEF ResolveWithoutWinners, MaySettle
<1>6. ASSUME NEW a, NEW n \in Markets, Void(a, n)
      PROVE  Result(m)' = Result(m)
  BY <1>4, <1>6 DEF Void, MaySettle
<1>7. ASSUME NEW b, NEW n \in Markets, Claim(b, n) \/ Refund(b, n)
      PROVE  Result(m)' = Result(m)
  BY <1>7 DEF Claim, Refund, escrow, settlement
<1>8. ASSUME NEW a, NEW n, NEW h, CommitRecipe(a, n, h) \/ CommitBundle(a, n, h)
      PROVE  Result(m)' = Result(m)
  BY <1>8 DEF CommitRecipe, CommitBundle, escrow, settlement
<1>9. ASSUME NEW a, Administer(a)
      PROVE  Result(m)' = Result(m)
  BY <1>9 DEF Administer, escrow, settlement
<1>10. AdvanceBlockTime \/ UNCHANGED vars => Result(m)' = Result(m)
  BY DEF AdvanceBlockTime, vars, escrow, settlement
<1> QED
  BY <1>1, <1>2, <1>3, <1>5, <1>6, <1>7, <1>8, <1>9, <1>10 DEF Next

\* Once a market is settled its result and every bettor's payout stay what they are,
\* whatever calls follow on this market or another.
THEOREM SettlementFinal == Spec => SettlementIsFinal
<1>1. ASSUME TypeInv, [Next]_vars, NEW m \in Markets, Settled(m)
      PROVE  /\ status'[m] = status[m]
             /\ winning_outcome'[m] = winning_outcome[m]
             /\ \A b \in Addresses : Payout(m, b)' = Payout(m, b)
  BY <1>1, SettledIsUntouched DEF Result, Payout, WinnerPayout, Share
<1>2. TypeInv /\ [Next]_vars =>
        [\A m \in Markets : Settled(m) =>
            /\ status'[m] = status[m]
            /\ winning_outcome'[m] = winning_outcome[m]
            /\ \A b \in Addresses : Payout(m, b)' = Payout(m, b)]_vars
  BY <1>1
<1> QED
  BY <1>2, TypeInvariance, PTL DEF Spec, SettlementIsFinal
-----------------------------------------------------------------------------
(***************************************************************************)
(* The ledger: what the entries of a market say of each other              *)
(***************************************************************************)

\* A pool is what its bettors staked on it.
PoolsAreStakes ==
    \A m \in Markets, o \in Outcomes :
        pool[m][o] = SumOver(Addresses, [b \in Addresses |-> stake_on[m][b][o]])

\* The total of a market is what its bettors put in, a refund's source.
TotalsAreDeposits == \A m \in Markets : total_pool[m] = SumOver(Addresses, bettor_total[m])

StakesWithinDeposits ==
    \A m \in Markets, b \in Addresses, o \in Outcomes : stake_on[m][b][o] <= bettor_total[m][b]

\* The snapshot claims are computed from was taken of the pools, which no bet changes since.
SnapshotIsOfPools ==
    \A m \in Markets : status[m] = STATUS_RESOLVED =>
        /\ winning_pool[m] = pool[m][winning_outcome[m]]
        /\ winning_pool[m] + distributable_losing[m] <= total_pool[m]

NothingBeforeItsTime ==
    \A m \in Markets :
        /\ ~Exists(m) => bond_of[m] = 0 /\ status[m] = STATUS_OPEN
        /\ ~Settled(m) => claimed[m] = {}

LedgerInv ==
    /\ PoolsAreStakes
    /\ TotalsAreDeposits
    /\ StakesWithinDeposits
    /\ SnapshotIsOfPools
    /\ NothingBeforeItsTime

LEMMA InitLedger == Init => LedgerInv
<1> SUFFICES ASSUME Init PROVE LedgerInv
  OBVIOUS
<1>1. PoolsAreStakes
  <2> SUFFICES ASSUME NEW m \in Markets, NEW o \in Outcomes
               PROVE  pool[m][o] = SumOver(Addresses, [b \in Addresses |-> stake_on[m][b][o]])
    BY DEF PoolsAreStakes
  <2>1. pool[m][o] = 0 /\ \A b \in Addresses : [c \in Addresses |-> stake_on[m][c][o]][b] = 0
    BY DEF Init
  <2> HIDE DEF Init
  <2> QED
    BY <2>1, VaultAssumption, SumZero DEF SumOver
<1>2. TotalsAreDeposits
  <2> SUFFICES ASSUME NEW m \in Markets PROVE total_pool[m] = SumOver(Addresses, bettor_total[m])
    BY DEF TotalsAreDeposits
  <2>1. total_pool[m] = 0 /\ \A b \in Addresses : bettor_total[m][b] = 0
    BY DEF Init
  <2> QED
    BY <2>1, VaultAssumption, SumZero DEF SumOver
<1>3. StakesWithinDeposits
  BY DEF Init, StakesWithinDeposits
<1>4. SnapshotIsOfPools /\ NothingBeforeItsTime
  BY DEF Init, SnapshotIsOfPools, NothingBeforeItsTime, Exists, STATUS_OPEN, STATUS_RESOLVED
<1> QED
  BY <1>1, <1>2, <1>3, <1>4 DEF LedgerInv

LEMMA CreateLedger ==
    ASSUME TypeInv, LedgerInv, NEW a \in Creators, NEW m \in Markets, NEW bond \in BondChoices,
           NEW c \in CreationInputs(a), CreateMarket(a, m, c, bond)
    PROVE  LedgerInv'
<1>1. UNCHANGED <<pool, stake_on, bettor_total, claimed, settlement>> /\ total_pool' = total_pool
  BY DEF CreateMarket, TypeInv, TypeOK, BlankUntilCreated, Blank
<1>2. PoolsAreStakes' /\ TotalsAreDeposits' /\ StakesWithinDeposits'
  BY <1>1 DEF LedgerInv, PoolsAreStakes, TotalsAreDeposits, StakesWithinDeposits, SumOver
<1>3. SnapshotIsOfPools'
  BY <1>1 DEF LedgerInv, SnapshotIsOfPools, CreateMarket, settlement, TypeInv, TypeOK,
     STATUS_OPEN, STATUS_RESOLVED
<1>4. NothingBeforeItsTime'
  <2>1. c # None /\ ~Exists(m)
    BY CreationInputsType DEF CreateMarket
  <2>2. \A n \in Markets \ {m} :
           config'[n] = config[n] /\ status'[n] = status[n] /\ bond_of'[n] = bond_of[n]
    BY DEF CreateMarket, TypeInv, TypeOK
  <2>3. config'[m] = c /\ claimed[m] = {}
    BY <2>1 DEF CreateMarket, TypeInv, TypeOK, LedgerInv, NothingBeforeItsTime, Settled
  <2> QED
    BY <1>1, <2>1, <2>2, <2>3 DEF LedgerInv, NothingBeforeItsTime, Exists, Settled
<1> QED
  BY <1>2, <1>3, <1>4 DEF LedgerInv

LEMMA BetLedger ==
    ASSUME TypeInv, LedgerInv, NEW b \in Bettors, NEW m \in Markets, NEW o \in Outcomes,
           NEW s \in StakeChoices, Bet(b, m, o, s)
    PROVE  LedgerInv'
<1>0. s \in Nat /\ b \in Addresses /\ IsFiniteSet(Addresses) /\ IsOpen(m)
  BY VaultAssumption DEF Bet, BettingOpen
<1>1. /\ pool \in [Markets -> [Outcomes -> Nat]] /\ total_pool \in [Markets -> Nat]
      /\ stake_on \in [Markets -> [Addresses -> [Outcomes -> Nat]]]
      /\ bettor_total \in [Markets -> [Addresses -> Nat]]
  BY DEF TypeInv, TypeOK
<1>2. /\ pool' = [pool EXCEPT ![m][o] = @ + s] /\ total_pool' = [total_pool EXCEPT ![m] = @ + s]
      /\ stake_on' = [stake_on EXCEPT ![m][b][o] = @ + s]
      /\ bettor_total' = [bettor_total EXCEPT ![m][b] = @ + s]
  BY DEF Bet
<1>3. \A n \in Markets, a \in Addresses, p \in Outcomes :
         stake_on'[n][a][p] = stake_on[n][a][p] + (IF n = m /\ a = b /\ p = o THEN s ELSE 0)
  BY <1>0, <1>1, <1>2
<1>4. \A n \in Markets, a \in Addresses :
         bettor_total'[n][a] = bettor_total[n][a] + (IF n = m /\ a = b THEN s ELSE 0)
  BY <1>0, <1>1, <1>2
<1>5. \A n \in Markets, p \in Outcomes :
         pool'[n][p] = pool[n][p] + (IF n = m /\ p = o THEN s ELSE 0)
  BY <1>0, <1>1, <1>2
<1>6. PoolsAreStakes'
  <2> SUFFICES ASSUME NEW n \in Markets, NEW p \in Outcomes
               PROVE  pool'[n][p] = SumOver(Addresses, [a \in Addresses |-> stake_on'[n][a][p]])
    BY DEF PoolsAreStakes, SumOver
  <2> DEFINE f == [a \in Addresses |-> stake_on[n][a][p]]
             g == [a \in Addresses |-> stake_on'[n][a][p]]
  <2>1. \A a \in Addresses : f[a] \in Int /\ g[a] = f[a] + (IF n = m /\ a = b /\ p = o THEN s ELSE 0)
    BY <1>1, <1>3
  <2>2. \A a \in Addresses : g[a] \in Int /\ (a # b => g[a] = f[a])
    BY <1>0, <2>1
  <2>3. pool[n][p] = SumFunctionOnSet(f, Addresses)
    BY DEF LedgerInv, PoolsAreStakes, SumOver
  <2>4. g[b] - f[b] = IF n = m /\ p = o THEN s ELSE 0
    BY <1>0, <2>1
  <2> HIDE DEF f, g
  <2>5. SumFunctionOnSet(g, Addresses) = SumFunctionOnSet(f, Addresses) + (g[b] - f[b])
    BY <1>0, <2>1, <2>2, SumUpdate
  <2>6. pool'[n][p] = SumFunctionOnSet(g, Addresses)
    BY <1>5, <2>3, <2>4, <2>5
  <2> QED
    BY <2>6 DEF SumOver, g
<1>7. TotalsAreDeposits'
  <2> SUFFICES ASSUME NEW n \in Markets
               PROVE  total_pool'[n] = SumFunctionOnSet(bettor_total'[n], Addresses)
    BY DEF TotalsAreDeposits, SumOver
  <2> DEFINE f == bettor_total[n]
             g == bettor_total'[n]
  <2>1. \A a \in Addresses : f[a] \in Int /\ g[a] = f[a] + (IF n = m /\ a = b THEN s ELSE 0)
    BY <1>1, <1>4
  <2>2. \A a \in Addresses : g[a] \in Int /\ (a # b => g[a] = f[a])
    BY <1>0, <2>1
  <2>3. total_pool[n] = SumFunctionOnSet(f, Addresses)
    BY DEF LedgerInv, TotalsAreDeposits, SumOver
  <2>4. g[b] - f[b] = IF n = m THEN s ELSE 0
    BY <1>0, <2>1
  <2>6. total_pool'[n] = total_pool[n] + IF n = m THEN s ELSE 0
    BY <1>0, <1>1, <1>2
  <2> HIDE DEF f, g
  <2>5. SumFunctionOnSet(g, Addresses) = SumFunctionOnSet(f, Addresses) + (g[b] - f[b])
    BY <1>0, <2>1, <2>2, SumUpdate
  <2> QED
    BY <2>3, <2>4, <2>5, <2>6 DEF g
<1>8. StakesWithinDeposits'
  <2> SUFFICES ASSUME NEW n \in Markets, NEW a \in Addresses, NEW p \in Outcomes
               PROVE  stake_on'[n][a][p] <= bettor_total'[n][a]
    BY DEF StakesWithinDeposits
  <2>1. stake_on[n][a][p] <= bettor_total[n][a] /\ stake_on[n][a][p] \in Nat /\ bettor_total[n][a] \in Nat
    BY <1>1 DEF LedgerInv, StakesWithinDeposits
  <2> QED
    BY <1>0, <1>3, <1>4, <2>1
<1>9. SnapshotIsOfPools'
  <2> SUFFICES ASSUME NEW n \in Markets, status[n] = STATUS_RESOLVED
               PROVE  /\ winning_pool[n] = pool'[n][winning_outcome[n]]
                      /\ winning_pool[n] + distributable_losing[n] <= total_pool'[n]
    BY DEF SnapshotIsOfPools, Bet, settlement
  <2>1. n # m
    BY <1>0 DEF IsOpen, STATUS_OPEN, STATUS_RESOLVED
  <2>2. pool'[n] = pool[n] /\ total_pool'[n] = total_pool[n]
    BY <1>1, <1>2, <2>1
  <2> QED
    BY <2>2 DEF LedgerInv, SnapshotIsOfPools
<1>10. NothingBeforeItsTime'
  BY DEF LedgerInv, NothingBeforeItsTime, Exists, Settled, Bet, registry
<1> QED
  BY <1>6, <1>7, <1>8, <1>9, <1>10 DEF LedgerInv

\* The steps that leave the pools and stakes alone keep the first three parts.
LEMMA EscrowKept ==
    ASSUME LedgerInv, UNCHANGED escrow
    PROVE  PoolsAreStakes' /\ TotalsAreDeposits' /\ StakesWithinDeposits'
  BY DEF LedgerInv, PoolsAreStakes, TotalsAreDeposits, StakesWithinDeposits, SumOver, escrow

LEMMA ResolveLedger ==
    ASSUME TypeInv, LedgerInv, NEW a \in Oracles, NEW m \in Markets, NEW o \in Outcomes,
           Resolve(a, m, o)
    PROVE  LedgerInv'
<1>0. IsOpen(m) /\ Exists(m) /\ UNCHANGED <<escrow, claimed, config>>
  BY DEF Resolve, MaySettle, IsOpen, registry
<1>1. /\ winning_pool' = [winning_pool EXCEPT ![m] = pool[m][o]]
      /\ distributable_losing' = [distributable_losing EXCEPT ![m] = Distributable(m, o)]
      /\ winning_outcome' = [winning_outcome EXCEPT ![m] = o]
      /\ status' = [status EXCEPT ![m] = STATUS_RESOLVED]
      /\ bond_of' = [bond_of EXCEPT ![m] = 0]
  BY DEF Resolve, ReleaseBond, ClearBond
<1>2. LosingFee(m, o) \in Nat /\ Distributable(m, o) \in Nat
  BY <1>0, SplitType
<1>3. SnapshotIsOfPools'
  <2> SUFFICES ASSUME NEW n \in Markets, status'[n] = STATUS_RESOLVED
               PROVE  /\ winning_pool'[n] = pool[n][winning_outcome'[n]]
                      /\ winning_pool'[n] + distributable_losing'[n] <= total_pool[n]
    BY <1>0 DEF SnapshotIsOfPools, escrow
  <2>1. CASE n = m
    <3>1. /\ winning_pool'[m] = pool[m][o] /\ winning_outcome'[m] = o
          /\ distributable_losing'[m] = Distributable(m, o)
      BY <1>1 DEF TypeInv, TypeOK
    <3>2. pool[m][o] \in Nat /\ total_pool[m] \in Nat
      BY DEF TypeInv, TypeOK
    <3>3. pool[m][o] + Distributable(m, o) = total_pool[m] - LosingFee(m, o)
      BY <1>2, <3>2 DEF Distributable
    <3> QED
      BY <1>2, <2>1, <3>1, <3>2, <3>3
  <2>2. CASE n # m
    <3>1. /\ winning_pool'[n] = winning_pool[n] /\ winning_outcome'[n] = winning_outcome[n]
          /\ distributable_losing'[n] = distributable_losing[n] /\ status'[n] = status[n]
      BY <1>1, <2>2 DEF TypeInv, TypeOK
    <3> QED
      BY <3>1 DEF LedgerInv, SnapshotIsOfPools
  <2> QED
    BY <2>1, <2>2
<1>4. NothingBeforeItsTime'
  <2>1. \A n \in Markets \ {m} : status'[n] = status[n] /\ bond_of'[n] = bond_of[n]
    BY <1>1 DEF TypeInv, TypeOK
  <2>2. status'[m] # STATUS_OPEN
    BY <1>1 DEF TypeInv, TypeOK, STATUS_OPEN, STATUS_RESOLVED
  <2> QED
    BY <1>0, <2>1, <2>2 DEF LedgerInv, NothingBeforeItsTime, Exists, Settled
<1> QED
  BY <1>0, <1>3, <1>4, EscrowKept DEF LedgerInv

LEMMA VoidLedger ==
    ASSUME TypeInv, LedgerInv, NEW m \in Markets, Exists(m), VoidMarket(m)
    PROVE  LedgerInv'
<1>0. UNCHANGED <<escrow, claimed, config, settlement>>
  BY DEF VoidMarket, registry
<1>1. status' = [status EXCEPT ![m] = STATUS_VOIDED] /\ bond_of' = [bond_of EXCEPT ![m] = 0]
  BY DEF VoidMarket, ReleaseBond, ClearBond
<1>2. \A n \in Markets \ {m} : status'[n] = status[n] /\ bond_of'[n] = bond_of[n]
  BY <1>1 DEF TypeInv, TypeOK
<1>3. status'[m] = STATUS_VOIDED
  BY <1>1 DEF TypeInv, TypeOK
<1>4. SnapshotIsOfPools'
  BY <1>0, <1>2, <1>3 DEF LedgerInv, SnapshotIsOfPools, escrow, settlement, STATUS_RESOLVED,
     STATUS_VOIDED
<1>5. NothingBeforeItsTime'
  BY <1>0, <1>2, <1>3 DEF LedgerInv, NothingBeforeItsTime, Exists, Settled, STATUS_OPEN,
     STATUS_VOIDED
<1> QED
  BY <1>0, <1>4, <1>5, EscrowKept DEF LedgerInv

LEMMA ClaimLedger ==
    ASSUME TypeInv, LedgerInv, NEW b, NEW m \in Markets, Claim(b, m)
    PROVE  LedgerInv'
<1>1. UNCHANGED <<escrow, settlement, status, config, bond_of>> /\ Settled(m)
  BY DEF Claim, registry
<1>2. \A n \in Markets \ {m} : claimed'[n] = claimed[n]
  BY DEF Claim, TypeInv, TypeOK
<1>3. SnapshotIsOfPools'
  BY <1>1 DEF LedgerInv, SnapshotIsOfPools, escrow, settlement
<1>4. NothingBeforeItsTime'
  BY <1>1, <1>2 DEF LedgerInv, NothingBeforeItsTime, Exists, Settled
<1> QED
  BY <1>1, <1>3, <1>4, EscrowKept DEF LedgerInv

\* The money and the standing of every market: what the remaining steps leave alone.
books == <<config, status, bond_of, escrow, claimed, settlement, balance>>

LEMMA QuietLedger ==
    ASSUME LedgerInv, UNCHANGED books
    PROVE  LedgerInv'
<1>1. SnapshotIsOfPools' /\ NothingBeforeItsTime'
  BY DEF books, LedgerInv, SnapshotIsOfPools, NothingBeforeItsTime, Exists, Settled, escrow,
     settlement
<1> QED
  BY <1>1, EscrowKept DEF LedgerInv, books

\* Every step creates a market, takes a bet, settles, pays, or leaves the books alone.
LEMMA MoneySteps ==
    ASSUME [Next]_vars
    PROVE  \/ \E a \in Creators, m \in Markets, bond \in BondChoices :
                 \E c \in CreationInputs(a) : CreateMarket(a, m, c, bond)
           \/ \E b \in Bettors, m \in Markets, o \in Outcomes, s \in StakeChoices : Bet(b, m, o, s)
           \/ \E a \in Oracles, m \in Markets, o \in Outcomes : Resolve(a, m, o)
           \/ \E m \in Markets : IsOpen(m) /\ VoidMarket(m)
           \/ \E b \in Bettors, m \in Markets : Claim(b, m)
           \/ UNCHANGED books
<1>1. ASSUME NEW a, NEW m \in Markets, NEW o, ResolveWithoutWinners(a, m, o)
      PROVE  IsOpen(m) /\ VoidMarket(m)
  BY <1>1 DEF ResolveWithoutWinners, MaySettle
<1>2. ASSUME NEW a, NEW m \in Markets, Void(a, m)
      PROVE  IsOpen(m) /\ VoidMarket(m)
  BY <1>2 DEF Void, MaySettle
<1>3. ASSUME NEW a, NEW m, NEW h, CommitRecipe(a, m, h) \/ CommitBundle(a, m, h)
      PROVE  UNCHANGED books
  BY <1>3 DEF CommitRecipe, CommitBundle, books, registry
<1>4. ASSUME NEW a, Administer(a)
      PROVE  UNCHANGED books
  BY <1>4 DEF Administer, books, registry
<1>5. AdvanceBlockTime \/ UNCHANGED vars => UNCHANGED books
  BY DEF AdvanceBlockTime, vars, books, registry
<1> QED
  BY <1>1, <1>2, <1>3, <1>4, <1>5 DEF Next, Refund

LEMMA NextLedger ==
    ASSUME TypeInv, LedgerInv, [Next]_vars
    PROVE  LedgerInv'
<1>1. ASSUME NEW m \in Markets, IsOpen(m), VoidMarket(m) PROVE LedgerInv'
  BY <1>1, VoidLedger DEF IsOpen
<1>2. ASSUME NEW b \in Bettors, NEW m \in Markets, Claim(b, m) PROVE LedgerInv'
  BY <1>2, ClaimLedger
<1> QED
  BY <1>1, <1>2, MoneySteps, CreateLedger, BetLedger, ResolveLedger, QuietLedger

\* In every reachable state of every market the pools are the stakes behind them, the total
\* is what bettors put in, and the snapshot was taken of the pools.
THEOREM LedgerInvariance == Spec => []LedgerInv
<1>1. TypeInv /\ LedgerInv /\ [Next]_vars => (TypeInv /\ LedgerInv)'
  BY NextTypeInv, NextLedger
<1>2. Init => TypeInv /\ LedgerInv
  BY InitTypeInv, InitLedger
<1> QED
  BY <1>1, <1>2, PTL DEF Spec
-----------------------------------------------------------------------------
(***************************************************************************)
(* Conservation: the purse is the sum of what the markets hold             *)
(***************************************************************************)

\* Everything Holds reads of market m.
Account(m) == <<config[m], bond_of[m], total_pool[m], Result(m), claimed[m]>>

LEMMA HoldsType ==
    ASSUME TypeInv, LedgerInv, NEW m \in Markets
    PROVE  /\ Holds(m) \in Int /\ PaidOut(m) \in Nat
           /\ IsFiniteSet(claimed[m]) /\ claimed[m] \subseteq Addresses
           /\ ~Settled(m) => PaidOut(m) = 0
<1>1. IsFiniteSet(claimed[m]) /\ claimed[m] \subseteq Addresses
  BY VaultAssumption, FS_Subset DEF TypeInv, TypeOK
<1> DEFINE f == [b \in claimed[m] |-> Payout(m, b)]
<1>0. PaidOut(m) = SumFunctionOnSet(f, claimed[m])
  BY DEF PaidOut, SumOver
<1>2. ASSUME ~Settled(m) PROVE PaidOut(m) = 0
  <2>1. claimed[m] = {}
    BY <1>2 DEF LedgerInv, NothingBeforeItsTime
  <2> HIDE DEF f
  <2> QED
    BY <1>0, <2>1, SumEmpty
<1>3. ASSUME Settled(m) PROVE PaidOut(m) \in Nat
  <2>1. \A b \in claimed[m] : f[b] \in Nat
    BY <1>1, <1>3, PayoutType
  <2> HIDE DEF f
  <2> QED
    BY <1>0, <1>1, <1>3, <2>1, SumNat
<1>4. PaidOut(m) \in Nat
  BY <1>2, <1>3
<1>5. bond_of[m] \in Nat /\ winning_pool[m] \in Nat /\ distributable_losing[m] \in Nat /\ total_pool[m] \in Nat
  BY DEF TypeInv, TypeOK
<1>6. Holds(m) \in Int
  BY <1>4, <1>5 DEF Holds
<1> QED
  BY <1>1, <1>2, <1>4, <1>6

LEMMA EmptyPaidNow == ASSUME NEW m, claimed[m] = {} PROVE PaidOut(m) = 0
<1> DEFINE f == [b \in claimed[m] |-> Payout(m, b)]
<1>1. PaidOut(m) = SumFunctionOnSet(f, claimed[m])
  BY DEF PaidOut, SumOver
<1> HIDE DEF f
<1> QED
  BY <1>1, SumEmpty

LEMMA EmptyPaid == ASSUME NEW m, claimed'[m] = {} PROVE PaidOut(m)' = 0
<1> DEFINE f == [b \in claimed'[m] |-> Payout(m, b)']
<1>1. PaidOut(m)' = SumFunctionOnSet(f, claimed'[m])
  BY DEF PaidOut, SumOver
<1> HIDE DEF f
<1> QED
  BY <1>1, SumEmpty

\* A market none of whose entries a step touches holds what it held.
LEMMA HoldsKept ==
    ASSUME NEW m \in Markets, Account(m)' = Account(m)
    PROVE  Holds(m)' = Holds(m) /\ PaidOut(m)' = PaidOut(m)
<1>1. \A b : Payout(m, b)' = Payout(m, b)
  BY DEF Account, Result, Payout, WinnerPayout, Share
<1>2. PaidOut(m)' = PaidOut(m)
  BY <1>1 DEF Account, PaidOut, SumOver
<1> QED
  BY <1>2 DEF Account, Result, Holds

\* One market's account changes, by as much as the purse.
LEMMA OneAccountChanges ==
    ASSUME TypeInv, LedgerInv, TypeInv', LedgerInv', PurseIsSumOfMarkets, NEW m \in Markets,
           \A n \in Markets \ {m} : Account(n)' = Account(n),
           Holds(m)' = Holds(m) + (balance' - balance)
    PROVE  PurseIsSumOfMarkets'
<1> DEFINE f == [n \in Markets |-> Holds(n)]
           g == [n \in Markets |-> Holds(n)']
<1>1. \A n \in Markets : f[n] \in Int
  BY HoldsType
<1>2. balance \in Int /\ balance' \in Int
  BY DEF TypeInv, TypeOK
<1>3. \A n \in Markets \ {m} : g[n] = f[n]
  BY HoldsKept
<1>4. g[m] = f[m] + (balance' - balance)
  OBVIOUS
<1>5. balance = SumFunctionOnSet(f, Markets)
  BY DEF PurseIsSumOfMarkets, SumOver
<1>6. PurseIsSumOfMarkets' <=> balance' = SumFunctionOnSet(g, Markets)
  BY DEF PurseIsSumOfMarkets, SumOver
<1> HIDE DEF f, g
<1>7. SumFunctionOnSet(g, Markets) = SumFunctionOnSet(f, Markets) + (g[m] - f[m])
  BY <1>1, <1>2, <1>3, <1>4, VaultAssumption, SumUpdate
<1> QED
  BY <1>1, <1>2, <1>4, <1>5, <1>6, <1>7

\* What is not an entry of the market a call names stays as it is.
LEMMA CreateOneAccount ==
    ASSUME TypeInv, LedgerInv, NEW a \in Creators, NEW m \in Markets, NEW bond \in BondChoices,
           NEW c \in CreationInputs(a), CreateMarket(a, m, c, bond)
    PROVE  /\ \A n \in Markets \ {m} : Account(n)' = Account(n)
           /\ Holds(m)' = Holds(m) + (balance' - balance)
           /\ Holds(m)' = bond_of'[m]
           /\ Holds(m) = 0
<1>0. ~Exists(m) /\ bond \in Nat /\ c # None
  BY VaultAssumption, CreationInputsType DEF CreateMarket
<1>1. /\ config' = [config EXCEPT ![m] = c] /\ status' = [status EXCEPT ![m] = STATUS_OPEN]
      /\ bond_of' = [bond_of EXCEPT ![m] = bond] /\ total_pool' = [total_pool EXCEPT ![m] = 0]
      /\ UNCHANGED <<stake_on, bettor_total, claimed, winning_outcome, winning_pool,
                     distributable_losing>>
      /\ balance' = balance + bond /\ balance \in Nat
  BY DEF CreateMarket, Receive, settlement, TypeInv, TypeOK
<1>2. \A n \in Markets \ {m} : Account(n)' = Account(n)
  BY <1>1 DEF Account, Result, TypeInv, TypeOK
<1>3. status[m] = STATUS_OPEN /\ bond_of[m] = 0 /\ total_pool[m] = 0 /\ PaidOut(m) = 0 /\ claimed[m] = {}
  BY <1>0, HoldsType DEF LedgerInv, NothingBeforeItsTime, TypeInv, BlankUntilCreated, Blank, Settled
<1>4. status'[m] = STATUS_OPEN /\ bond_of'[m] = bond /\ total_pool'[m] = 0 /\ claimed'[m] = {}
  BY <1>1, <1>3 DEF TypeInv, TypeOK
<1>5. PaidOut(m)' = 0
  BY <1>4, EmptyPaid
<1>6. Holds(m) = 0
  BY <1>3 DEF Holds, STATUS_OPEN, STATUS_RESOLVED
<1>7. Holds(m)' = bond
  BY <1>0, <1>4, <1>5 DEF Holds, STATUS_OPEN, STATUS_RESOLVED
<1> QED
  BY <1>0, <1>1, <1>2, <1>4, <1>6, <1>7

LEMMA BetOneAccount ==
    ASSUME TypeInv, LedgerInv, NEW b \in Bettors, NEW m \in Markets, NEW o \in Outcomes,
           NEW s \in StakeChoices, Bet(b, m, o, s)
    PROVE  /\ \A n \in Markets \ {m} : Account(n)' = Account(n)
           /\ Holds(m)' = Holds(m) + (balance' - balance)
<1>0. IsOpen(m) /\ s \in Nat
  BY VaultAssumption DEF Bet, BettingOpen
<1>1. /\ UNCHANGED <<config, status, bond_of, claimed, winning_outcome, winning_pool,
                     distributable_losing>>
      /\ total_pool' = [total_pool EXCEPT ![m] = @ + s]
      /\ stake_on' = [stake_on EXCEPT ![m][b][o] = @ + s]
      /\ bettor_total' = [bettor_total EXCEPT ![m][b] = @ + s]
      /\ balance' = balance + s /\ balance \in Nat
  BY DEF Bet, Receive, registry, settlement, TypeInv, TypeOK
<1>2. \A n \in Markets \ {m} : Account(n)' = Account(n)
  BY <1>1 DEF Account, Result, TypeInv, TypeOK
<1>3. claimed[m] = {} /\ PaidOut(m) = 0
  BY <1>0, HoldsType DEF LedgerInv, NothingBeforeItsTime, IsOpen, Settled
<1>4. PaidOut(m)' = 0
  BY <1>1, <1>3, EmptyPaid
<1>5. total_pool'[m] = total_pool[m] + s /\ total_pool[m] \in Nat /\ bond_of[m] \in Nat
  BY <1>1 DEF TypeInv, TypeOK
<1>6. Holds(m) = bond_of[m] + total_pool[m]
  BY <1>0, <1>3, <1>5 DEF Holds, IsOpen, STATUS_OPEN, STATUS_RESOLVED
<1>7. Holds(m)' = bond_of[m] + total_pool[m] + s
  BY <1>0, <1>1, <1>4, <1>5 DEF Holds, IsOpen, STATUS_OPEN, STATUS_RESOLVED
<1> QED
  BY <1>0, <1>1, <1>2, <1>5, <1>6, <1>7

LEMMA ResolveOneAccount ==
    ASSUME TypeInv, LedgerInv, NEW a \in Oracles, NEW m \in Markets, NEW o \in Outcomes,
           Resolve(a, m, o)
    PROVE  /\ \A n \in Markets \ {m} : Account(n)' = Account(n)
           /\ Holds(m)' = Holds(m) + (balance' - balance)
<1>0. IsOpen(m) /\ Exists(m)
  BY DEF Resolve, MaySettle, IsOpen
<1>1. /\ UNCHANGED <<config, total_pool, stake_on, bettor_total, claimed>>
      /\ winning_pool' = [winning_pool EXCEPT ![m] = pool[m][o]]
      /\ distributable_losing' = [distributable_losing EXCEPT ![m] = Distributable(m, o)]
      /\ winning_outcome' = [winning_outcome EXCEPT ![m] = o]
      /\ status' = [status EXCEPT ![m] = STATUS_RESOLVED]
      /\ bond_of' = [bond_of EXCEPT ![m] = 0]
      /\ balance' = balance - (bond_of[m] + LosingFee(m, o)) /\ balance \in Nat
  BY DEF Resolve, ReleaseBond, ClearBond, registry, escrow, TypeInv, TypeOK
<1>2. \A n \in Markets \ {m} : Account(n)' = Account(n)
  BY <1>1 DEF Account, Result, TypeInv, TypeOK
<1>3. claimed[m] = {} /\ PaidOut(m) = 0
  BY <1>0, HoldsType DEF LedgerInv, NothingBeforeItsTime, IsOpen, Settled
<1>4. PaidOut(m)' = 0
  BY <1>1, <1>3, EmptyPaid
<1>5. /\ total_pool[m] \in Nat /\ bond_of[m] \in Nat /\ pool[m][o] \in Nat
      /\ bond_of'[m] = 0 /\ status'[m] = STATUS_RESOLVED /\ winning_pool'[m] = pool[m][o]
      /\ distributable_losing'[m] = Distributable(m, o)
  BY <1>1 DEF TypeInv, TypeOK
<1>6. Holds(m) = bond_of[m] + total_pool[m]
  BY <1>0, <1>3, <1>5 DEF Holds, IsOpen, STATUS_OPEN, STATUS_RESOLVED
<1>7. LosingFee(m, o) \in Nat /\ Distributable(m, o) = (total_pool[m] - pool[m][o]) - LosingFee(m, o)
  BY <1>0, SplitType DEF Distributable
<1>8. Holds(m)' = total_pool[m] - LosingFee(m, o)
  BY <1>4, <1>5, <1>7 DEF Holds
<1> QED
  BY <1>1, <1>2, <1>5, <1>6, <1>7, <1>8

LEMMA VoidOneAccount ==
    ASSUME TypeInv, LedgerInv, NEW m \in Markets, IsOpen(m), VoidMarket(m)
    PROVE  /\ \A n \in Markets \ {m} : Account(n)' = Account(n)
           /\ Holds(m)' = Holds(m) + (balance' - balance)
<1>1. /\ UNCHANGED <<config, total_pool, stake_on, bettor_total, claimed, winning_outcome,
                     winning_pool, distributable_losing>>
      /\ status' = [status EXCEPT ![m] = STATUS_VOIDED]
      /\ bond_of' = [bond_of EXCEPT ![m] = 0]
      /\ bond_of[m] \in Nat /\ balance' = balance - (bond_of[m] + 0) /\ balance \in Nat
  BY DEF VoidMarket, ReleaseBond, ClearBond, registry, escrow, settlement, TypeInv, TypeOK
<1>2. \A n \in Markets \ {m} : Account(n)' = Account(n)
  BY <1>1 DEF Account, Result, TypeInv, TypeOK
<1>3. claimed[m] = {} /\ PaidOut(m) = 0
  BY HoldsType DEF LedgerInv, NothingBeforeItsTime, IsOpen, Settled
<1>4. PaidOut(m)' = 0
  BY <1>1, <1>3, EmptyPaid
<1>5. total_pool[m] \in Nat /\ bond_of'[m] = 0 /\ status'[m] = STATUS_VOIDED
  BY <1>1 DEF TypeInv, TypeOK
<1>6. Holds(m) = bond_of[m] + total_pool[m]
  BY <1>1, <1>3, <1>5 DEF Holds, IsOpen, STATUS_OPEN, STATUS_RESOLVED
<1>8. Holds(m)' = total_pool[m]
  BY <1>1, <1>4, <1>5 DEF Holds, STATUS_VOIDED, STATUS_RESOLVED
<1>9. Holds(m)' = Holds(m) + (balance' - balance)
  <2>1. balance' = balance - bond_of[m] /\ balance \in Nat /\ bond_of[m] \in Nat
    BY <1>1
  <2> QED
    BY <1>5, <1>6, <1>8, <2>1
<1> QED
  BY <1>2, <1>9

LEMMA ClaimOneAccount ==
    ASSUME TypeInv, LedgerInv, NEW b \in Bettors, NEW m \in Markets, Claim(b, m)
    PROVE  /\ \A n \in Markets \ {m} : Account(n)' = Account(n)
           /\ Holds(m)' = Holds(m) + (balance' - balance)
           /\ PaidOut(m)' = PaidOut(m) + Payout(m, b)
<1>0. b \in Addresses /\ Settled(m) /\ b \notin claimed[m]
  BY VaultAssumption DEF Claim
<1>1. /\ UNCHANGED <<config, bond_of, total_pool, stake_on, bettor_total, status, winning_outcome,
                     winning_pool, distributable_losing>>
      /\ claimed' = [claimed EXCEPT ![m] = @ \cup {b}]
      /\ balance' = balance - Payout(m, b) /\ balance \in Nat
  BY DEF Claim, registry, escrow, settlement, TypeInv, TypeOK
<1>2. \A n \in Markets \ {m} : Account(n)' = Account(n)
  BY <1>1 DEF Account, Result, TypeInv, TypeOK
<1>3. claimed'[m] = claimed[m] \cup {b} /\ IsFiniteSet(claimed[m]) /\ claimed[m] \subseteq Addresses
  BY <1>1, HoldsType DEF TypeInv, TypeOK
<1> DEFINE f == [a \in claimed[m] |-> Payout(m, a)]
           g == [a \in claimed[m] \cup {b} |-> Payout(m, a)]
<1>4. \A a \in claimed[m] \cup {b} : g[a] \in Int /\ Payout(m, a) \in Nat
  BY <1>0, <1>3, PayoutType
<1>5. \A a \in claimed[m] : f[a] = g[a]
  OBVIOUS
<1>6. g[b] = Payout(m, b)
  OBVIOUS
<1>7. PaidOut(m) = SumFunctionOnSet(f, claimed[m])
  BY DEF PaidOut, SumOver
<1>8. PaidOut(m)' = SumFunctionOnSet(g, claimed[m] \cup {b})
  <2>1. \A a : Payout(m, a)' = Payout(m, a)
    BY <1>1 DEF Payout, WinnerPayout, Share
  <2> QED
    BY <1>3, <2>1 DEF PaidOut, SumOver
<1> HIDE DEF f, g
<1>9. SumFunctionOnSet(f, claimed[m]) = SumFunctionOnSet(g, claimed[m])
  BY <1>3, <1>4, <1>5, SumEqual
<1>10. SumFunctionOnSet(g, claimed[m] \cup {b}) = g[b] + SumFunctionOnSet(g, claimed[m])
  BY <1>0, <1>3, <1>4, SumAdd
<1>11. PaidOut(m)' = Payout(m, b) + PaidOut(m) /\ PaidOut(m) \in Nat /\ Payout(m, b) \in Nat
  BY <1>4, <1>6, <1>7, <1>8, <1>9, <1>10, HoldsType
<1>12. Holds(m)' = Holds(m) - Payout(m, b)
  <2>1. /\ bond_of[m] \in Nat /\ winning_pool[m] \in Nat /\ distributable_losing[m] \in Nat
        /\ total_pool[m] \in Nat
    BY DEF TypeInv, TypeOK
  <2> QED
    BY <1>1, <1>11, <2>1 DEF Holds
<1> QED
  BY <1>1, <1>2, <1>11, <1>12, HoldsType

LEMMA NextPurse ==
    ASSUME TypeInv, LedgerInv, TypeInv', LedgerInv', PurseIsSumOfMarkets, [Next]_vars
    PROVE  PurseIsSumOfMarkets'
<1>1. CASE UNCHANGED books
  <2>1. \A m \in Markets : Account(m)' = Account(m)
    BY <1>1 DEF books, Account, Result, escrow, settlement
  <2>2. \A m \in Markets : Holds(m)' = Holds(m)
    BY <2>1, HoldsKept
  <2> QED
    BY <1>1, <2>2 DEF PurseIsSumOfMarkets, SumOver, books
<1> QED
  BY <1>1, MoneySteps, OneAccountChanges, CreateOneAccount, BetOneAccount, ResolveOneAccount,
     VoidOneAccount, ClaimOneAccount

LEMMA InitPurse == Init => PurseIsSumOfMarkets
<1> SUFFICES ASSUME Init PROVE PurseIsSumOfMarkets
  OBVIOUS
<1> DEFINE f == [m \in Markets |-> Holds(m)]
<1>1. ASSUME NEW m \in Markets PROVE f[m] = 0
  <2>1. claimed[m] = {} /\ bond_of[m] = 0 /\ status[m] = STATUS_OPEN /\ total_pool[m] = 0
    BY DEF Init
  <2>2. PaidOut(m) = 0
    BY <2>1, EmptyPaidNow
  <2> QED
    BY <2>1, <2>2 DEF Holds, STATUS_OPEN, STATUS_RESOLVED
<1>2. balance = 0
  BY DEF Init
<1> HIDE DEF f
<1>3. SumFunctionOnSet(f, Markets) = 0
  BY <1>1, VaultAssumption, SumZero
<1> QED
  BY <1>2, <1>3 DEF PurseIsSumOfMarkets, SumOver, f

\* The one purse of the vault is always, to the mote, the sum of what its markets hold, for
\* any number of markets, bettors and calls.
THEOREM PurseConserved == Spec => []PurseIsSumOfMarkets
<1>1. Init => TypeInv /\ LedgerInv /\ PurseIsSumOfMarkets
  BY InitTypeInv, InitLedger, InitPurse
<1>2. TypeInv /\ LedgerInv /\ PurseIsSumOfMarkets /\ [Next]_vars
         => (TypeInv /\ LedgerInv /\ PurseIsSumOfMarkets)'
  BY NextTypeInv, NextLedger, NextPurse
<1> QED
  BY <1>1, <1>2, PTL DEF Spec
-----------------------------------------------------------------------------
(***************************************************************************)
(* Every market covers its own debts                                       *)
(***************************************************************************)

\* A zero losing pool needs no case of its own: the share is then zero.
LEMMA WinnerPayoutIs ==
    ASSUME TypeInv, NEW m \in Markets, NEW b \in Addresses, status[m] = STATUS_RESOLVED
    PROVE  LET stake == stake_on[m][b][winning_outcome[m]]
           IN  /\ stake \in Nat /\ Share(m, stake) \in Nat
               /\ WinnerPayout(m, b) = stake + Share(m, stake)
<1> DEFINE stake == stake_on[m][b][winning_outcome[m]]
<1>1. /\ winning_outcome[m] \in Outcomes /\ winning_pool[m] \in Nat /\ winning_pool[m] > 0
      /\ distributable_losing[m] \in Nat
  BY DEF TypeInv, TypeOK, SnapshotTaken
<1>2. stake \in Nat
  BY <1>1 DEF TypeInv, TypeOK
<1>3. stake * distributable_losing[m] \in Nat
  BY <1>1, <1>2
<1>4. Share(m, stake) \in Nat
  BY <1>1, <1>3, QuotientIsNat DEF Share
<1>5. CASE distributable_losing[m] = 0
  <2>1. Share(m, stake) = 0
    BY <1>1, <1>2, <1>5 DEF Share
  <2>2. WinnerPayout(m, b) = stake
    BY <1>5 DEF WinnerPayout
  <2> HIDE DEF stake
  <2> QED
    BY <1>2, <2>1, <2>2 DEF stake
<1>6. CASE distributable_losing[m] # 0
  BY <1>2, <1>4, <1>6 DEF WinnerPayout
<1> QED
  BY <1>5, <1>6

\* What `claim` pays over all bettors of a settled market, claimed or not.
DueInAll(m) == SumOver(Addresses, [b \in Addresses |-> Payout(m, b)])

\* On a resolved market: stakes on the winning side plus the floors of their shares.
LEMMA ResolvedDue ==
    ASSUME TypeInv, LedgerInv, NEW m \in Markets, status[m] = STATUS_RESOLVED
    PROVE  /\ DueInAll(m) <= winning_pool[m] + distributable_losing[m]
           /\ DueInAll(m) \in Nat
<1> DEFINE stake == [b \in Addresses |-> stake_on[m][b][winning_outcome[m]]]
           share == [b \in Addresses |-> (stake[b] * distributable_losing[m]) \div winning_pool[m]]
           due == [b \in Addresses |-> Payout(m, b)]
<1>0. /\ winning_outcome[m] \in Outcomes /\ winning_pool[m] \in Nat /\ winning_pool[m] > 0
      /\ distributable_losing[m] \in Nat /\ IsFiniteSet(Addresses)
      /\ winning_pool[m] = pool[m][winning_outcome[m]]
  BY VaultAssumption DEF TypeInv, TypeOK, SnapshotTaken, LedgerInv, SnapshotIsOfPools
<1>1. \A b \in Addresses : stake[b] \in Nat
  BY <1>0 DEF TypeInv, TypeOK
<1>2. SumFunctionOnSet(stake, Addresses) = winning_pool[m]
  <2>1. \A o \in Outcomes : pool[m][o] = SumOver(Addresses, [b \in Addresses |-> stake_on[m][b][o]])
    BY Zenon DEF LedgerInv, PoolsAreStakes
  <2> QED
    BY <1>0, <2>1 DEF SumOver
<1>3. \A b \in Addresses : share[b] \in Nat /\ due[b] = stake[b] + share[b]
  <2> SUFFICES ASSUME NEW b \in Addresses PROVE share[b] \in Nat /\ due[b] = stake[b] + share[b]
    OBVIOUS
  <2>1. Payout(m, b) = WinnerPayout(m, b)
    BY DEF Payout, STATUS_RESOLVED, STATUS_VOIDED
  <2> QED
    BY <2>1, WinnerPayoutIs DEF Share
<1>4. \A b \in Addresses :
         stake[b] \in Nat /\ share[b] = (stake[b] * distributable_losing[m]) \div winning_pool[m]
  BY <1>1
<1>5. DueInAll(m) = SumFunctionOnSet(due, Addresses)
  BY DEF DueInAll, SumOver
<1> HIDE DEF stake, share, due
<1>6. SumFunctionOnSet(share, Addresses) \in 0..distributable_losing[m]
  BY <1>0, <1>2, <1>4, FloorsOfShares, ZenonT(60)
<1>7. SumFunctionOnSet(due, Addresses) = SumFunctionOnSet(stake, Addresses) + SumFunctionOnSet(share, Addresses)
  BY <1>0, <1>1, <1>3, SumPointwise
<1> QED
  BY <1>0, <1>2, <1>5, <1>6, <1>7

LEMMA DueCovered ==
    ASSUME TypeInv, LedgerInv, NEW m \in Markets, Settled(m)
    PROVE  bond_of[m] + DueInAll(m) <= Holds(m) + PaidOut(m)
<1>0. bond_of[m] \in Nat /\ total_pool[m] \in Nat /\ winning_pool[m] \in Nat /\ distributable_losing[m] \in Nat
  BY DEF TypeInv, TypeOK
<1>1. PaidOut(m) \in Nat
  BY HoldsType
<1>2. CASE status[m] = STATUS_RESOLVED
  BY <1>0, <1>1, <1>2, ResolvedDue DEF Holds
<1>3. CASE status[m] = STATUS_VOIDED
  <2> DEFINE due == [b \in Addresses |-> Payout(m, b)]
  <2>1. \A b \in Addresses : bettor_total[m][b] \in Int /\ due[b] = bettor_total[m][b]
    BY <1>3 DEF Payout, TypeInv, TypeOK
  <2>2. DueInAll(m) = SumFunctionOnSet(due, Addresses)
    BY DEF DueInAll, SumOver
  <2> HIDE DEF due
  <2>3. DueInAll(m) = total_pool[m]
    BY <2>1, <2>2, VaultAssumption, SumEqual DEF LedgerInv, TotalsAreDeposits, SumOver
  <2> QED
    BY <1>0, <1>1, <1>3, <2>3 DEF Holds, STATUS_RESOLVED, STATUS_VOIDED
<1> QED
  BY <1>2, <1>3 DEF Settled, TypeInv, TypeOK, STATUS_OPEN, STATUS_RESOLVED, STATUS_VOIDED

\* What is paid and what is still owed make up what is due.
LEMMA OwedAndPaid ==
    ASSUME TypeInv, LedgerInv, NEW m \in Markets, Settled(m)
    PROVE  DueInAll(m) = SumOver(Addresses, [b \in Addresses |-> Owed(m, b)]) + PaidOut(m)
<1> DEFINE due == [b \in Addresses |-> Payout(m, b)]
           owed == [b \in Addresses |-> Owed(m, b)]
           paid == [b \in Addresses |-> IF b \in claimed[m] THEN Payout(m, b) ELSE 0]
           paidHere == [b \in claimed[m] |-> Payout(m, b)]
<1>1. \A b \in Addresses : due[b] \in Nat /\ owed[b] \in Nat /\ paid[b] \in Nat /\ due[b] = owed[b] + paid[b]
  <2> SUFFICES ASSUME NEW b \in Addresses
               PROVE  due[b] \in Nat /\ owed[b] \in Nat /\ paid[b] \in Nat /\ due[b] = owed[b] + paid[b]
    OBVIOUS
  <2>1. Payout(m, b) \in Nat
    BY PayoutType
  <2> QED
    BY <2>1 DEF Owed
<1>2. \A b \in Addresses : b \notin claimed[m] => paid[b] = 0
  OBVIOUS
<1>3. \A b \in claimed[m] : b \in Addresses /\ paidHere[b] = paid[b]
  BY HoldsType
<1>4. /\ DueInAll(m) = SumFunctionOnSet(due, Addresses)
      /\ PaidOut(m) = SumFunctionOnSet(paidHere, claimed[m])
      /\ SumOver(Addresses, [b \in Addresses |-> Owed(m, b)]) = SumFunctionOnSet(owed, Addresses)
  BY DEF DueInAll, PaidOut, SumOver
<1> HIDE DEF due, owed, paid, paidHere
<1>5. SumFunctionOnSet(due, Addresses) = SumFunctionOnSet(owed, Addresses) + SumFunctionOnSet(paid, Addresses)
  BY <1>1, VaultAssumption, SumPointwise
<1>6. SumFunctionOnSet(paid, Addresses) = SumFunctionOnSet(paid, claimed[m])
  <2>1. claimed[m] \in SUBSET Addresses
    BY HoldsType
  <2> QED
    BY <1>1, <1>2, <2>1, VaultAssumption, SumOfSupport
<1>7. SumFunctionOnSet(paidHere, claimed[m]) = SumFunctionOnSet(paid, claimed[m])
  BY <1>1, <1>3, HoldsType, SumEqual
<1> QED
  BY <1>4, <1>5, <1>6, <1>7

LEMMA CoversDebts ==
    ASSUME TypeInv, LedgerInv, NEW m \in Markets
    PROVE  /\ bond_of[m] + SumOver(Addresses, [b \in Addresses |-> Owed(m, b)]) <= Holds(m)
           /\ SumOver(Addresses, [b \in Addresses |-> Owed(m, b)]) \in Nat
           /\ \A b \in Addresses : Owed(m, b) \in Nat
<1> DEFINE owed == [b \in Addresses |-> Owed(m, b)]
           debts == SumOver(Addresses, owed)
<1>1. \A b \in Addresses : owed[b] \in Nat
  BY PayoutType DEF Owed
<1>2. debts \in Nat
  <2> HIDE DEF owed
  <2> QED
    BY <1>1, VaultAssumption, SumNat DEF SumOver
<1>3. bond_of[m] \in Nat /\ total_pool[m] \in Nat /\ PaidOut(m) \in Nat /\ Holds(m) \in Int
  BY HoldsType DEF TypeInv, TypeOK
<1>4. ASSUME Settled(m) PROVE bond_of[m] + debts <= Holds(m)
  <2>1. DueInAll(m) = debts + PaidOut(m)
    BY <1>4, OwedAndPaid
  <2>2. bond_of[m] + DueInAll(m) <= Holds(m) + PaidOut(m)
    BY <1>4, DueCovered
  <2> HIDE DEF debts
  <2> QED
    BY <1>2, <1>3, <2>1, <2>2
<1>5. ASSUME ~Settled(m) PROVE bond_of[m] + debts <= Holds(m)
  <2>1. \A b \in Addresses : owed[b] = 0
    BY <1>5 DEF Owed
  <2>2. debts = 0
    <3> HIDE DEF owed
    <3> QED
      BY <2>1, VaultAssumption, SumZero DEF SumOver
  <2>3. status[m] = STATUS_OPEN /\ PaidOut(m) = 0
    BY <1>5, HoldsType DEF Settled, LedgerInv, NothingBeforeItsTime
  <2>4. Holds(m) = bond_of[m] + total_pool[m]
    BY <1>3, <2>3 DEF Holds, STATUS_OPEN, STATUS_RESOLVED
  <2> QED
    BY <1>3, <2>2, <2>4
<1> QED
  BY <1>1, <1>2, <1>4, <1>5

\* "Bets on market A can never pay market B": whatever is bet, settled and claimed, and in
\* whatever order, a market's own part of the purse covers its bond and all it still owes.
THEOREM MarketsAreIsolated == Spec => []MarketCoversItsOwnDebts
<1>1. TypeInv /\ LedgerInv => MarketCoversItsOwnDebts
  BY CoversDebts DEF MarketCoversItsOwnDebts
<1> QED
  BY <1>1, TypeInvariance, LedgerInvariance, PTL

\* No claim of any bettor on any market is ever more than the purse.
THEOREM ClaimsAreCovered == Spec => []EveryClaimCovered
<1>1. ASSUME TypeInv, LedgerInv, PurseIsSumOfMarkets, NEW m \in Markets, NEW b \in Addresses
      PROVE  Owed(m, b) <= balance
  <2> DEFINE owed == [a \in Addresses |-> Owed(m, a)]
             held == [n \in Markets |-> Holds(n)]
  <2>1. \A a \in Addresses : owed[a] \in Nat
    BY <1>1, CoversDebts
  <2>2. \A n \in Markets : held[n] \in Nat
    <3> SUFFICES ASSUME NEW n \in Markets PROVE Holds(n) \in Nat
      OBVIOUS
    <3> DEFINE debts == SumOver(Addresses, [a \in Addresses |-> Owed(n, a)])
    <3>1. bond_of[n] + debts <= Holds(n) /\ debts \in Nat
      BY <1>1, CoversDebts
    <3>2. bond_of[n] \in Nat /\ Holds(n) \in Int
      BY <1>1, HoldsType DEF TypeInv, TypeOK
    <3> HIDE DEF debts
    <3> QED
      BY <3>1, <3>2
  <2>3. balance = SumFunctionOnSet(held, Markets)
    BY <1>1 DEF PurseIsSumOfMarkets, SumOver
  <2>4. bond_of[m] + SumFunctionOnSet(owed, Addresses) <= held[m] /\ bond_of[m] \in Nat
    BY <1>1, CoversDebts DEF SumOver, TypeInv, TypeOK
  <2>5. owed[b] = Owed(m, b)
    OBVIOUS
  <2> HIDE DEF owed, held
  <2>6. owed[b] <= SumFunctionOnSet(owed, Addresses) /\ SumFunctionOnSet(owed, Addresses) \in Nat
    BY <2>1, VaultAssumption, SumAtLeastTerm, SumNat
  <2>7. held[m] <= SumFunctionOnSet(held, Markets) /\ SumFunctionOnSet(held, Markets) \in Nat
    BY <2>2, VaultAssumption, SumAtLeastTerm, SumNat
  <2> QED
    BY <2>1, <2>2, <2>3, <2>4, <2>5, <2>6, <2>7
<1>2. TypeInv /\ LedgerInv /\ PurseIsSumOfMarkets => EveryClaimCovered
  BY <1>1 DEF EveryClaimCovered
<1> QED
  BY <1>2, TypeInvariance, LedgerInvariance, PurseConserved, PTL

\* "Integer division dust stays in the contract", and of no resolved market, however many
\* winners share however large a pool, is it as much as one mote per winner.
THEOREM DustIsBounded == Spec => []DustBelowWinners
<1>1. ASSUME TypeInv, LedgerInv, NEW m \in Markets, status[m] = STATUS_RESOLVED
      PROVE  LET winners == {b \in Addresses : WinnerPayout(m, b) > 0}
                 due     == SumOver(winners, [b \in winners |-> WinnerPayout(m, b)])
                 dust    == winning_pool[m] + distributable_losing[m] - due
             IN  0 <= dust /\ dust < Cardinality(winners)
  <2> DEFINE winners == {b \in Addresses : WinnerPayout(m, b) > 0}
             payout == [b \in winners |-> WinnerPayout(m, b)]
             stake == [b \in Addresses |-> stake_on[m][b][winning_outcome[m]]]
             share == [b \in Addresses |-> Share(m, stake_on[m][b][winning_outcome[m]])]
  <2>1. /\ winning_pool[m] \in Nat /\ winning_pool[m] > 0 /\ distributable_losing[m] \in Nat
        /\ winning_outcome[m] \in Outcomes /\ winning_pool[m] = pool[m][winning_outcome[m]]
    BY <1>1 DEF TypeInv, TypeOK, SnapshotTaken, LedgerInv, SnapshotIsOfPools
  <2>2. \A b \in Addresses :
           /\ stake[b] \in Nat /\ share[b] \in Nat
           /\ share[b] = (stake[b] * distributable_losing[m]) \div winning_pool[m]
           /\ WinnerPayout(m, b) = stake[b] + share[b]
    BY <1>1, WinnerPayoutIs DEF Share
  <2>3. SumFunctionOnSet(stake, Addresses) = winning_pool[m]
    BY <1>1, <2>1 DEF LedgerInv, PoolsAreStakes, SumOver
  <2>4. winners \in SUBSET Addresses /\ IsFiniteSet(winners)
    BY VaultAssumption, FS_Subset
  <2>5. \A b \in Addresses : b \notin winners => stake[b] = 0
    <3> SUFFICES ASSUME NEW b \in Addresses, b \notin winners PROVE stake[b] = 0
      OBVIOUS
    <3>1. ~(WinnerPayout(m, b) > 0)
      OBVIOUS
    <3> HIDE DEF stake, share, winners
    <3> QED
      BY <2>2, <3>1
  <2>6. \A b \in winners : payout[b] = stake[b] + share[b]
    BY <2>2
  <2>7. SumOver(winners, payout) = SumFunctionOnSet(payout, winners)
    BY DEF SumOver
  <2> HIDE DEF winners, payout, stake, share
  <2>8. SumFunctionOnSet(stake, winners) = winning_pool[m]
    BY <2>2, <2>3, <2>4, <2>5, VaultAssumption, SumOfSupport
  <2>9. /\ SumFunctionOnSet(share, winners) \in 0..distributable_losing[m]
        /\ distributable_losing[m] - SumFunctionOnSet(share, winners) < Cardinality(winners)
    <3>1. \A b \in winners :
             stake[b] \in Nat /\ share[b] = (stake[b] * distributable_losing[m]) \div winning_pool[m]
      BY <2>2, <2>4
    <3> QED
      BY <2>1, <2>4, <2>8, <3>1, FloorsOfShares
  <2>10. SumFunctionOnSet(payout, winners)
            = SumFunctionOnSet(stake, winners) + SumFunctionOnSet(share, winners)
    <3>1. \A b \in winners : stake[b] \in Int /\ share[b] \in Int /\ payout[b] = stake[b] + share[b]
      BY <2>2, <2>4, <2>6
    <3> QED
      BY <2>4, <3>1, SumPointwise
  <2> DEFINE due == SumOver(winners, payout)
             dust == winning_pool[m] + distributable_losing[m] - due
  <2>11. dust = distributable_losing[m] - SumFunctionOnSet(share, winners)
    BY <2>1, <2>7, <2>8, <2>9, <2>10
  <2>12. 0 <= dust /\ dust < Cardinality(winners)
    BY <2>1, <2>9, <2>11
  <2> QED
    BY <2>12 DEF winners, payout
<1>2. TypeInv /\ LedgerInv => DustBelowWinners
  BY <1>1 DEF DustBelowWinners
<1> QED
  BY <1>2, TypeInvariance, LedgerInvariance, PTL
-----------------------------------------------------------------------------
(***************************************************************************)
(* The vault implements one escrow per market                              *)
(***************************************************************************)

\* A function that differs from another at one point is an update of it.
LEMMA OnePointChanges ==
    ASSUME NEW S, NEW f, NEW g, f = [x \in S |-> f[x]], g = [x \in S |-> g[x]], NEW m \in S,
           \A n \in S \ {m} : g[n] = f[n], NEW y, g[m] = y
    PROVE  g = [f EXCEPT ![m] = y]
<1> DEFINE h == [f EXCEPT ![m] = y]
<1>1. h = [x \in S |-> h[x]]
  OBVIOUS
<1>2. \A n \in S : h[n] = g[n]
  OBVIOUS
<1> QED
  BY <1>1, <1>2

\* The sum MarketEscrow takes is the sum the vault's invariants take.
LEMMA TotalIsSum == \A f : Promise!Total(f) = SumFunctionOnSet(f, DOMAIN f)
  BY DEF Promise!Total, Promise!SumFunctionOnSet, SumFunctionOnSet, Promise!FoldFunctionOnSet,
     FoldFunctionOnSet, Promise!MapThenFoldSet, MapThenFoldSet

\* The mapped variables are functions on the markets, and what they are at m.
LEMMA Views ==
    /\ phases = [m \in Markets |-> phases[m]] /\ phases' = [m \in Markets |-> phases'[m]]
    /\ purses = [m \in Markets |-> purses[m]] /\ purses' = [m \in Markets |-> purses'[m]]
    /\ dues = [m \in Markets |-> dues[m]] /\ dues' = [m \in Markets |-> dues'[m]]
    /\ \A m \in Markets :
          /\ phases[m] = IF ~Exists(m) THEN "absent" ELSE IF IsOpen(m) THEN "open" ELSE "settled"
          /\ phases'[m] = IF ~Exists(m)' THEN "absent" ELSE IF IsOpen(m)' THEN "open" ELSE "settled"
          /\ purses[m] = Holds(m) - bond_of[m] /\ purses'[m] = Holds(m)' - bond_of'[m]
          /\ dues[m] = [b \in Addresses |-> Owed(m, b)]
          /\ dues'[m] = [b \in Addresses |-> Owed(m, b)']
  BY DEF phases, purses, dues

LEMMA ViewKept ==
    ASSUME NEW m \in Markets, Account(m)' = Account(m)
    PROVE  /\ phases'[m] = phases[m] /\ purses'[m] = purses[m] /\ dues'[m] = dues[m]
           /\ bettor_total'[m] = bettor_total[m]
<1>1. Exists(m)' = Exists(m) /\ IsOpen(m)' = IsOpen(m) /\ Settled(m)' = Settled(m)
      /\ claimed'[m] = claimed[m] /\ bond_of'[m] = bond_of[m] /\ bettor_total'[m] = bettor_total[m]
  BY DEF Account, Result, Exists, IsOpen, Settled
<1>2. \A b : Payout(m, b)' = Payout(m, b)
  BY DEF Account, Result, Payout, WinnerPayout, Share
<1>3. \A b : Owed(m, b)' = Owed(m, b)
  BY <1>1, <1>2 DEF Owed
<1>4. Holds(m)' = Holds(m)
  BY HoldsKept
<1>5. phases'[m] = phases[m]
  BY <1>1, Views, Zenon
<1>6. purses'[m] = purses[m]
  BY <1>1, <1>4, Views
<1>7. dues'[m] = dues[m]
  BY <1>3, Views
<1> QED
  BY <1>1, <1>5, <1>6, <1>7

\* Who is owed something put something in, and whoever backed the outcome is owed something.
OwedToStakers ==
    \A m \in Markets, b \in Addresses :
        /\ Owed(m, b) \in Nat
        /\ Owed(m, b) > 0 => bettor_total[m][b] > 0
        /\ Exists(m) /\ status[m] = STATUS_RESOLVED /\ b \notin claimed[m]
              /\ stake_on[m][b][winning_outcome[m]] > 0 => Owed(m, b) > 0

LEMMA OwedToStakersHolds == TypeInv /\ LedgerInv => OwedToStakers
<1> SUFFICES ASSUME TypeInv, LedgerInv, NEW m \in Markets, NEW b \in Addresses
             PROVE  /\ Owed(m, b) \in Nat
                    /\ Owed(m, b) > 0 => bettor_total[m][b] > 0
                    /\ Exists(m) /\ status[m] = STATUS_RESOLVED /\ b \notin claimed[m]
                          /\ stake_on[m][b][winning_outcome[m]] > 0 => Owed(m, b) > 0
  BY DEF OwedToStakers
<1>1. Owed(m, b) \in Nat
  BY CoversDebts
<1>2. CASE status[m] = STATUS_RESOLVED
  <2> DEFINE stake == stake_on[m][b][winning_outcome[m]]
             share == Share(m, stake)
  <2>1. stake \in Nat /\ share \in Nat /\ Payout(m, b) = stake + share
    BY <1>2, WinnerPayoutIs DEF Payout, STATUS_RESOLVED, STATUS_VOIDED
  <2>2. stake = 0 => share = 0
    <3>1. winning_pool[m] \in Nat /\ winning_pool[m] > 0 /\ distributable_losing[m] \in Nat
      BY <1>2 DEF TypeInv, TypeOK, SnapshotTaken
    <3>2. 0 * distributable_losing[m] = 0 /\ 0 \div winning_pool[m] = 0
      BY <3>1
    <3> QED
      BY <3>2 DEF Share
  <2>3. stake <= bettor_total[m][b] /\ bettor_total[m][b] \in Nat
    BY <1>2 DEF LedgerInv, StakesWithinDeposits, TypeInv, TypeOK, SnapshotTaken
  <2>4. Owed(m, b) = (IF Settled(m) /\ b \notin claimed[m] THEN stake + share ELSE 0)
    BY <2>1 DEF Owed
  <2>5. Exists(m) => Settled(m)
    BY <1>2 DEF Settled, STATUS_OPEN, STATUS_RESOLVED
  <2> HIDE DEF stake, share
  <2>6. Owed(m, b) > 0 => bettor_total[m][b] > 0
    BY <2>1, <2>2, <2>3, <2>4
  <2>7. Exists(m) /\ b \notin claimed[m] /\ stake > 0 => Owed(m, b) > 0
    BY <2>1, <2>4, <2>5
  <2> QED
    BY <1>1, <2>6, <2>7 DEF stake
<1>3. CASE status[m] # STATUS_RESOLVED
  <2>1. Settled(m) => status[m] = STATUS_VOIDED
    BY <1>3 DEF Settled, TypeInv, TypeOK
  <2>2. Owed(m, b) > 0 => Owed(m, b) = bettor_total[m][b]
    BY <2>1 DEF Owed, Payout
  <2> QED
    BY <1>1, <1>3, <2>2
<1> QED
  BY <1>2, <1>3

LEMMA OwedToStakersNext == (TypeInv /\ LedgerInv => OwedToStakers /\ MarketCoversItsOwnDebts)'
<1>1. TypeInv /\ LedgerInv => OwedToStakers /\ MarketCoversItsOwnDebts
  BY OwedToStakersHolds, CoversDebts DEF MarketCoversItsOwnDebts
<1> QED
  BY <1>1, PTL

LEMMA CreateOpensEscrow ==
    ASSUME TypeInv, LedgerInv, NEW a \in Creators, NEW m \in Markets, NEW bond \in BondChoices,
           NEW c \in CreationInputs(a), CreateMarket(a, m, c, bond)
    PROVE  Promise!Open(m)
<1>1. /\ \A n \in Markets \ {m} : phases'[n] = phases[n] /\ purses'[n] = purses[n] /\ dues'[n] = dues[n]
      /\ bettor_total' = bettor_total
  BY CreateOneAccount, ViewKept DEF CreateMarket
<1>2. ~Exists(m) /\ config'[m] # None /\ status'[m] = STATUS_OPEN
  BY CreationInputsType DEF CreateMarket, TypeInv, TypeOK
<1>3. phases[m] = "absent" /\ phases'[m] = "open"
  BY <1>2, Views DEF Exists, IsOpen
<1>4. \A b : Owed(m, b) = 0 /\ Owed(m, b)' = 0
  BY <1>2 DEF Owed, Settled, STATUS_OPEN
<1>5. dues'[m] = dues[m]
  BY <1>4, Views
<1>6. purses[m] = 0 /\ purses'[m] = 0
  <2>1. Holds(m) = 0 /\ bond_of[m] = 0 /\ Holds(m)' = bond_of'[m] /\ bond_of'[m] \in Nat
    BY <1>2, CreateOneAccount, VaultAssumption DEF LedgerInv, NothingBeforeItsTime, CreateMarket,
       TypeInv, TypeOK
  <2> QED
    BY <2>1, Views
<1>7. phases' = [phases EXCEPT ![m] = "open"]
  BY <1>1, <1>3, Views, OnePointChanges
<1>8. dues' = dues /\ purses' = purses
  <2>1. \A n \in Markets : dues'[n] = dues[n] /\ purses'[n] = purses[n]
    BY <1>1, <1>5, <1>6
  <2> QED
    BY <2>1, Views
<1> QED
  BY <1>1, <1>3, <1>7, <1>8 DEF Promise!Open

LEMMA BetDeposits ==
    ASSUME TypeInv, LedgerInv, NEW b \in Bettors, NEW m \in Markets, NEW o \in Outcomes,
           NEW s \in StakeChoices, Bet(b, m, o, s)
    PROVE  b \in Addresses /\ Promise!Deposit(m, b)
<1>0. b \in Addresses /\ s \in Nat /\ s > 0 /\ IsOpen(m)
  BY VaultAssumption DEF Bet, BettingOpen
<1>1. \A n \in Markets \ {m} : phases'[n] = phases[n] /\ purses'[n] = purses[n] /\ dues'[n] = dues[n]
  BY BetOneAccount, ViewKept
<1>2. IsOpen(m)' /\ Exists(m)' /\ Exists(m)
  BY <1>0 DEF Bet, IsOpen, Exists, registry
<1>3. phases[m] = "open" /\ phases'[m] = "open"
  BY <1>0, <1>2, Views
<1>4. \A a : Owed(m, a) = 0 /\ Owed(m, a)' = 0
  BY <1>0, <1>2 DEF Owed, Settled, IsOpen
<1>5. dues'[m] = dues[m]
  BY <1>4, Views
<1>6. /\ bettor_total'[m][b] = bettor_total[m][b] + s
      /\ bettor_total' = [bettor_total EXCEPT ![m][b] = bettor_total'[m][b]]
      /\ bettor_total[m][b] \in Nat
  BY <1>0 DEF Bet, TypeInv, TypeOK
<1>7. purses'[m] = purses[m] + (bettor_total'[m][b] - bettor_total[m][b])
  <2>1. Holds(m)' = Holds(m) + (balance' - balance) /\ balance' = balance + s
        /\ balance \in Nat /\ Holds(m) \in Int /\ bond_of'[m] = bond_of[m] /\ bond_of[m] \in Nat
    BY BetOneAccount, HoldsType DEF Bet, Receive, TypeInv, TypeOK
  <2>2. purses'[m] = purses[m] + s
    BY <1>0, <2>1, Views
  <2>3. bettor_total'[m][b] - bettor_total[m][b] = s
    BY <1>0, <1>6
  <2> QED
    BY <2>2, <2>3
<1>8. purses' = [purses EXCEPT ![m] = @ + (bettor_total'[m][b] - bettor_total[m][b])]
  <2>1. purses' = [purses EXCEPT ![m] = purses[m] + (bettor_total'[m][b] - bettor_total[m][b])]
    BY <1>1, <1>7, Views, OnePointChanges
  <2> QED
    BY <2>1
<1>9. phases' = phases /\ dues' = dues
  <2>1. \A n \in Markets : dues'[n] = dues[n] /\ phases'[n] = phases[n]
    BY <1>1, <1>3, <1>5
  <2> QED
    BY <2>1, Views
<1>10. bettor_total'[m][b] > bettor_total[m][b]
  BY <1>0, <1>6
<1> QED
  BY <1>0, <1>3, <1>6, <1>8, <1>9, <1>10 DEF Promise!Deposit

LEMMA ResolvePaysWinners ==
    ASSUME TypeInv, LedgerInv, TypeInv', LedgerInv', NEW a \in Oracles, NEW m \in Markets,
           NEW o \in Outcomes, Resolve(a, m, o)
    PROVE  Promise!SettleWithWinners(m)
<1>0. IsOpen(m) /\ Exists(m) /\ pool[m][o] > 0
  BY DEF Resolve, MaySettle, IsOpen
<1>1. \A n \in Markets \ {m} : phases'[n] = phases[n] /\ purses'[n] = purses[n] /\ dues'[n] = dues[n]
  BY ResolveOneAccount, ViewKept
<1>2. /\ bettor_total' = bettor_total /\ stake_on' = stake_on /\ config' = config /\ claimed' = claimed
      /\ winning_outcome'[m] = o /\ status'[m] = STATUS_RESOLVED /\ bond_of'[m] = 0
  BY DEF Resolve, ReleaseBond, ClearBond, registry, escrow, TypeInv, TypeOK
<1>3. phases[m] = "open" /\ phases'[m] = "settled"
  BY <1>0, <1>2, Views DEF IsOpen, Exists, STATUS_OPEN, STATUS_RESOLVED
<1>4. OwedToStakers' /\ MarketCoversItsOwnDebts'
  BY OwedToStakersNext
<1>5. \A b \in Addresses : dues'[m][b] = Owed(m, b)'
  BY Views
<1>6. \E b \in Addresses : dues'[m][b] > 0
  <2> DEFINE stake == [b \in Addresses |-> stake_on[m][b][o]]
  <2>1. pool[m][o] = SumFunctionOnSet(stake, Addresses) /\ \A b \in Addresses : stake[b] \in Nat
    <3>1. pool[m][o] = SumOver(Addresses, [b \in Addresses |-> stake_on[m][b][o]])
      BY Zenon DEF LedgerInv, PoolsAreStakes
    <3>2. stake_on \in [Markets -> [Addresses -> [Outcomes -> Nat]]]
      BY DEF TypeInv, TypeOK
    <3> QED
      BY <3>1, <3>2 DEF SumOver
  <2>2. \E b \in Addresses : stake[b] # 0
    <3> HIDE DEF stake
    <3> SUFFICES ASSUME \A b \in Addresses : stake[b] = 0 PROVE FALSE
      OBVIOUS
    <3>1. SumFunctionOnSet(stake, Addresses) = 0
      BY VaultAssumption, SumZero
    <3> QED
      BY <1>0, <2>1, <3>1
  <2>3. PICK b \in Addresses : stake_on[m][b][o] > 0
    BY <2>1, <2>2
  <2>4. b \notin claimed'[m]
    BY <1>0, <1>2 DEF LedgerInv, NothingBeforeItsTime, IsOpen, Settled
  <2>5. Exists(m)'
    BY <1>0, <1>2 DEF Exists
  <2>6. Owed(m, b)' > 0
    BY <1>2, <1>4, <2>3, <2>4, <2>5 DEF OwedToStakers
  <2> QED
    BY <1>5, <2>6
<1>7. \A b \in Addresses : dues'[m][b] > 0 => bettor_total[m][b] > 0
  BY <1>2, <1>4, <1>5 DEF OwedToStakers
<1>8. Promise!Total(dues'[m]) <= purses'[m]
  <2>1. DOMAIN dues'[m] = Addresses
    BY Views
  <2>2. Promise!Total(dues'[m]) = SumFunctionOnSet(dues'[m], Addresses)
    BY <2>1, TotalIsSum
  <2>3. bond_of'[m] + SumFunctionOnSet(dues'[m], Addresses) <= Holds(m)'
    BY <1>4, Views DEF MarketCoversItsOwnDebts, SumOver
  <2>4. \A b \in Addresses : dues'[m][b] \in Nat
    BY <1>4, <1>5 DEF OwedToStakers
  <2>5. SumFunctionOnSet(dues'[m], Addresses) \in Nat
    BY <2>4, VaultAssumption, SumNat
  <2>6. Holds(m)' \in Int
    <3>1. balance \in Nat /\ balance' \in Nat /\ Holds(m) \in Int
      BY HoldsType DEF TypeInv, TypeOK
    <3> QED
      BY <3>1, ResolveOneAccount
  <2> QED
    BY <1>2, <2>2, <2>3, <2>5, <2>6, Views
<1>9. purses'[m] <= purses[m]
  <2>1. /\ Holds(m)' = Holds(m) + (balance' - balance) /\ Holds(m) \in Int
        /\ balance' = balance - (bond_of[m] + LosingFee(m, o)) /\ balance \in Nat /\ bond_of[m] \in Nat
        /\ LosingFee(m, o) \in Nat
    BY <1>0, ResolveOneAccount, HoldsType, SplitType DEF Resolve, ReleaseBond, TypeInv, TypeOK
  <2> QED
    BY <1>2, <2>1, Views
<1>10. phases' = [phases EXCEPT ![m] = "settled"]
  BY <1>1, <1>3, Views, OnePointChanges
<1>11. dues' = [dues EXCEPT ![m] = dues'[m]] /\ purses' = [purses EXCEPT ![m] = purses'[m]]
  BY <1>1, Views, OnePointChanges
<1> QED
  BY <1>2, <1>3, <1>6, <1>7, <1>8, <1>9, <1>10, <1>11 DEF Promise!SettleWithWinners

LEMMA VoidRefunds ==
    ASSUME TypeInv, LedgerInv, NEW m \in Markets, IsOpen(m), VoidMarket(m)
    PROVE  Promise!SettleByRefund(m)
<1>1. \A n \in Markets \ {m} : phases'[n] = phases[n] /\ purses'[n] = purses[n] /\ dues'[n] = dues[n]
  BY VoidOneAccount, ViewKept
<1>2. /\ bettor_total' = bettor_total /\ config' = config /\ claimed'[m] = {}
      /\ status'[m] = STATUS_VOIDED /\ bond_of'[m] = 0 /\ Exists(m)
  BY DEF VoidMarket, ReleaseBond, ClearBond, registry, escrow, TypeInv, TypeOK, LedgerInv,
     NothingBeforeItsTime, IsOpen, Settled
<1>3. phases[m] = "open" /\ phases'[m] = "settled"
  BY <1>2, Views DEF IsOpen, Exists, STATUS_OPEN, STATUS_VOIDED
<1>4. \A b \in Addresses : Owed(m, b)' = bettor_total[m][b]
  BY <1>2 DEF Owed, Settled, Payout, Exists, STATUS_OPEN, STATUS_VOIDED
<1>5. dues'[m] = bettor_total[m]
  <2>1. bettor_total[m] = [b \in Addresses |-> bettor_total[m][b]]
    BY DEF TypeInv, TypeOK
  <2>2. dues'[m] = [b \in Addresses |-> bettor_total[m][b]]
    BY <1>4, Views
  <2> QED
    BY <2>1, <2>2
<1>6. purses'[m] = purses[m]
  <2>1. /\ Holds(m)' = Holds(m) + (balance' - balance) /\ Holds(m) \in Int
        /\ balance' = balance - (bond_of[m] + 0) /\ balance \in Nat /\ bond_of[m] \in Nat
    BY VoidOneAccount, HoldsType DEF VoidMarket, ReleaseBond, TypeInv, TypeOK
  <2> QED
    BY <1>2, <2>1, Views
<1>7. phases' = [phases EXCEPT ![m] = "settled"] /\ dues' = [dues EXCEPT ![m] = bettor_total[m]]
  BY <1>1, <1>3, <1>5, Views, OnePointChanges
<1>8. purses' = purses
  <2>1. \A n \in Markets : purses'[n] = purses[n]
    BY <1>1, <1>6
  <2> QED
    BY <2>1, Views
<1> QED
  BY <1>2, <1>3, <1>7, <1>8 DEF Promise!SettleByRefund

LEMMA ClaimPays ==
    ASSUME TypeInv, LedgerInv, NEW b \in Bettors, NEW m \in Markets, Claim(b, m)
    PROVE  b \in Addresses /\ Promise!Pay(m, b)
<1>0. b \in Addresses /\ Settled(m) /\ b \notin claimed[m] /\ Payout(m, b) > 0
  BY VaultAssumption DEF Claim
<1>1. \A n \in Markets \ {m} : phases'[n] = phases[n] /\ purses'[n] = purses[n] /\ dues'[n] = dues[n]
  BY ClaimOneAccount, ViewKept
<1>2. /\ UNCHANGED <<config, status, bettor_total, bond_of, stake_on, settlement>>
      /\ claimed'[m] = claimed[m] \cup {b} /\ balance' = balance - Payout(m, b)
  BY DEF Claim, registry, escrow, TypeInv, TypeOK
<1>3. phases[m] = "settled" /\ phases'[m] = "settled"
  BY <1>0, <1>2, Views DEF Settled, IsOpen, Exists, STATUS_OPEN
<1>4. \A c : Payout(m, c)' = Payout(m, c)
  BY <1>2 DEF Payout, WinnerPayout, Share, settlement
<1>5. Settled(m)' = Settled(m)
  BY <1>2 DEF Settled, Exists
<1>6. Owed(m, b) = Payout(m, b) /\ Owed(m, b)' = 0 /\ \A c \in Addresses \ {b} : Owed(m, c)' = Owed(m, c)
  BY <1>0, <1>2, <1>4, <1>5 DEF Owed
<1>7. dues[m][b] = Payout(m, b) /\ dues[m][b] > 0
  BY <1>0, <1>6, Views
<1>8. dues'[m] = [dues[m] EXCEPT ![b] = 0]
  BY <1>0, <1>6, Views
<1>9. dues' = [dues EXCEPT ![m][b] = 0]
  <2>1. dues' = [dues EXCEPT ![m] = [dues[m] EXCEPT ![b] = 0]]
    BY <1>1, <1>8, Views, OnePointChanges
  <2> QED
    BY <2>1
<1>10. /\ Holds(m)' = Holds(m) - Payout(m, b) /\ Holds(m) \in Int /\ Payout(m, b) \in Nat
       /\ bond_of[m] \in Nat
  <2>1. balance \in Nat /\ Payout(m, b) \in Nat /\ bond_of[m] \in Nat
    BY <1>0, PayoutType DEF TypeInv, TypeOK
  <2> QED
    BY <1>2, <2>1, ClaimOneAccount, HoldsType
<1>11. purses'[m] = purses[m] - dues[m][b]
  BY <1>2, <1>7, <1>10, Views
<1>12. purses' = [purses EXCEPT ![m] = @ - dues[m][b]]
  <2>1. purses' = [purses EXCEPT ![m] = purses[m] - dues[m][b]]
    BY <1>1, <1>11, Views, OnePointChanges
  <2> QED
    BY <2>1
<1>13. dues[m][b] <= purses[m]
  <2>1. \A c \in Addresses : dues[m][c] \in Nat
    BY CoversDebts, Views
  <2>2. bond_of[m] + SumFunctionOnSet(dues[m], Addresses) <= Holds(m)
    BY CoversDebts, Views DEF SumOver
  <2>3. dues[m][b] <= SumFunctionOnSet(dues[m], Addresses) /\ SumFunctionOnSet(dues[m], Addresses) \in Nat
    BY <1>0, <2>1, VaultAssumption, SumAtLeastTerm, SumNat
  <2>4. purses[m] = Holds(m) - bond_of[m]
    BY Views
  <2> QED
    BY <1>0, <1>10, <2>1, <2>2, <2>3, <2>4
<1>14. phases' = phases
  <2>1. \A n \in Markets : phases'[n] = phases[n]
    BY <1>1, <1>3
  <2> QED
    BY <2>1, Views
<1> QED
  BY <1>0, <1>2, <1>3, <1>7, <1>9, <1>12, <1>13, <1>14 DEF Promise!Pay

LEMMA StepImplements ==
    ASSUME TypeInv, LedgerInv, TypeInv', LedgerInv', [Next]_vars
    PROVE  Promise!Next \/ UNCHANGED Promise!vars
<1>1. CASE UNCHANGED books
  <2>1. \A m \in Markets : Account(m)' = Account(m)
    BY <1>1 DEF books, Account, Result, escrow, settlement
  <2>2. \A m \in Markets : phases'[m] = phases[m] /\ purses'[m] = purses[m] /\ dues'[m] = dues[m]
    BY <2>1, ViewKept
  <2>3. phases' = phases /\ purses' = purses /\ dues' = dues
    BY <2>2, Views
  <2>4. bettor_total' = bettor_total
    BY <1>1 DEF books, escrow
  <2> QED
    BY <2>3, <2>4 DEF Promise!vars
<1>2. ASSUME NEW m \in Markets, Promise!Open(m) \/ Promise!SettleWithWinners(m) \/ Promise!SettleByRefund(m)
      PROVE  Promise!Next
  BY <1>2 DEF Promise!Next
<1>3. ASSUME NEW m \in Markets, NEW b \in Addresses, Promise!Deposit(m, b) \/ Promise!Pay(m, b)
      PROVE  Promise!Next
  BY <1>3 DEF Promise!Next
<1>4. ASSUME NEW a \in Creators, NEW m \in Markets, NEW bond \in BondChoices,
             NEW c \in CreationInputs(a), CreateMarket(a, m, c, bond)
      PROVE  Promise!Next
  BY <1>2, <1>4, CreateOpensEscrow
<1>5. ASSUME NEW b \in Bettors, NEW m \in Markets, NEW o \in Outcomes, NEW s \in StakeChoices,
             Bet(b, m, o, s)
      PROVE  Promise!Next
  BY <1>3, <1>5, BetDeposits
<1>6. ASSUME NEW a \in Oracles, NEW m \in Markets, NEW o \in Outcomes, Resolve(a, m, o)
      PROVE  Promise!Next
  BY <1>2, <1>6, ResolvePaysWinners
<1>7. ASSUME NEW m \in Markets, IsOpen(m), VoidMarket(m)
      PROVE  Promise!Next
  BY <1>2, <1>7, VoidRefunds
<1>8. ASSUME NEW b \in Bettors, NEW m \in Markets, Claim(b, m)
      PROVE  Promise!Next
  BY <1>3, <1>8, ClaimPays
<1> QED
  BY <1>1, <1>4, <1>5, <1>6, <1>7, <1>8, MoneySteps

LEMMA InitImplements == Init => Promise!Init
<1> SUFFICES ASSUME Init PROVE Promise!Init
  OBVIOUS
<1>1. \A m \in Markets : ~Exists(m) /\ bond_of[m] = 0 /\ total_pool[m] = 0 /\ status[m] = STATUS_OPEN /\ claimed[m] = {}
  BY DEF Init, Exists
<1>2. \A m \in Markets : Holds(m) - bond_of[m] = 0
  <2> SUFFICES ASSUME NEW m \in Markets PROVE Holds(m) - bond_of[m] = 0
    OBVIOUS
  <2>1. PaidOut(m) = 0
    BY <1>1, EmptyPaidNow
  <2> QED
    BY <1>1, <2>1 DEF Holds, STATUS_OPEN, STATUS_RESOLVED
<1>3. \A m \in Markets, b \in Addresses : Owed(m, b) = 0
  BY <1>1 DEF Owed, Settled
<1>4. phases = [m \in Markets |-> "absent"]
  BY <1>1 DEF phases
<1>5. purses = [m \in Markets |-> 0]
  BY <1>2 DEF purses
<1>6. dues = [m \in Markets |-> [b \in Addresses |-> 0]]
  BY <1>3 DEF dues
<1>7. bettor_total = [m \in Markets |-> [b \in Addresses |-> 0]]
  BY DEF Init
<1> QED
  BY <1>4, <1>5, <1>6, <1>7 DEF Promise!Init

\* The vault implements module MarketEscrow: seen market by market, its one purse and its lazily
\* computed claims are escrows of their own, which open once, settle once on amounts their own
\* purse covers, and pay each bettor once.
THEOREM VaultImplementsEscrow == Spec => ImplementsEscrow
<1>1. TypeInv /\ LedgerInv /\ (TypeInv /\ LedgerInv)' /\ [Next]_vars => [Promise!Next]_(Promise!vars)
  BY StepImplements
<1> QED
  BY <1>1, InitImplements, TypeInvariance, LedgerInvariance, PTL DEF Spec, ImplementsEscrow, Promise!Spec
=============================================================================
