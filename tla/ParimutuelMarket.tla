--------------------------- MODULE ParimutuelMarket ---------------------------
(***************************************************************************)
(* contracts/src/parimutuel_market.rs, the single-market contract, with    *)
(* the off-chain manifest core/market-payout.ts computes for the same      *)
(* stakes.  FieldMarket extends it.                                        *)
(***************************************************************************)
EXTENDS Motes, FiniteSetsExt

CONSTANTS
    Keys,           \* outcome keys
    FeeBps,
    BetDeadline

ASSUME KeysAreFinite == IsFiniteSet(Keys) /\ Unset \notin Keys
ASSUME FeeIsAFraction == FeeBps \in 0..(BpsDenominator - 1)

VARIABLES
    keys,           \* the outcomes bets are accepted on
    phase,          \* "open", "resolved", "voided"
    stake_on,       \* stake_on[a][k]
    winner,         \* the winning key, Unset until resolved
    snapshot,       \* winning_pool and distributable_losing, as resolve saw them
    claimed,        \* accounts that claimed
    pot,            \* motes the contract holds
    cashed,         \* history: what claim transferred to each account
    quote           \* history: what previewPayoutMotes promised the latest bet

marketVars == <<keys, phase, stake_on, winner, snapshot, claimed, pot, cashed, quote>>

NoQuote == [of |-> "none"]

\* init: a market over the outcomes K.
MarketInit(K) ==
    /\ keys = K
    /\ phase = "open"
    /\ stake_on = [a \in Accounts |-> [k \in Keys |-> 0]]
    /\ winner = Unset /\ snapshot = [winning |-> 0, distributable |-> 0]
    /\ claimed = {} /\ pot = 0
    /\ cashed = [a \in Accounts |-> 0]
    /\ quote = NoQuote

Pool(k) == SumFunction([a \in Accounts |-> stake_on[a][k]])
bettor_total(a) == SumFunction(stake_on[a])
total_pool == SumFunction([k \in Keys |-> Pool(k)])
FeeOn(losing) == (losing * FeeBps) \div BpsDenominator

\* The panel's preview: the new stake is added to its side, then the winner's share.
previewPayoutMotes(k, x) ==
    LET winning == Pool(k) + x
        losing == total_pool + x - winning
        distributable == losing - FeeOn(losing)
    IN  IF distributable = 0 THEN x ELSE x + (x * distributable) \div winning

Bet(a, k, x) ==
    /\ phase = "open"
    /\ now < BetDeadline
    /\ k \in keys
    /\ stake_on' = [stake_on EXCEPT ![a][k] = @ + x]
    /\ pot' = pot + x
    /\ quote' = [of |-> a, key |-> k, fresh |-> stake_on[a][k] = 0, motes |-> previewPayoutMotes(k, x)]
    /\ UNCHANGED <<keys, phase, winner, snapshot, claimed, cashed, now>>

\* Operators named Faulty... are not part of the model: each is the definition after it with
\* one plausible mistake, and shows that some property below notices it.
FaultyDistributable(losing) == losing
Distributable(losing) == losing - FeeOn(losing)

\* No winner's stake: the market voids itself.  Otherwise the fee leaves at once.
Resolve(k) ==
    /\ phase = "open"
    /\ k \in keys
    /\ IF Pool(k) = 0
       THEN phase' = "voided" /\ UNCHANGED <<winner, snapshot, pot>>
       ELSE LET losing == total_pool - Pool(k)
            IN  /\ phase' = "resolved" /\ winner' = k
                /\ snapshot' = [winning |-> Pool(k), distributable |-> Distributable(losing)]
                /\ pot' = pot - FeeOn(losing)
    /\ UNCHANGED <<keys, stake_on, claimed, cashed, quote, now>>

Void ==
    /\ phase = "open"
    /\ phase' = "voided"
    /\ UNCHANGED <<keys, stake_on, winner, snapshot, claimed, pot, cashed, quote, now>>

ClaimOf(a) ==
    IF phase = "voided" THEN bettor_total(a)
    ELSE LET stake == stake_on[a][winner]
         IN  IF snapshot.distributable = 0 THEN stake
             ELSE stake + (stake * snapshot.distributable) \div snapshot.winning

Claim(a) ==
    /\ phase # "open"
    /\ a \notin claimed
    /\ ClaimOf(a) # 0
    /\ claimed' = claimed \cup {a}
    /\ pot' = pot - ClaimOf(a)
    /\ cashed' = [cashed EXCEPT ![a] = ClaimOf(a)]
    /\ UNCHANGED <<keys, phase, stake_on, winner, snapshot, quote, now>>

FaultyManifestFee(losing) == (losing * FeeBps + BpsDenominator - 1) \div BpsDenominator
ManifestFee(losing) == (losing * FeeBps) \div BpsDenominator

\* The manifest the server computes from the stakes it knows: k is the winning key, or
\* Unset to void.
computeMarketPayouts(k) ==
    LET winningPool == IF k = Unset THEN 0 ELSE Pool(k)
        losing == total_pool - winningPool
        fee == ManifestFee(losing)
        share == [a \in Accounts |->
                     IF losing = fee THEN stake_on[a][k]
                     ELSE stake_on[a][k] + (stake_on[a][k] * (losing - fee)) \div winningPool]
    IN  IF winningPool = 0 THEN [payouts |-> [a \in Accounts |-> bettor_total(a)], fee |-> 0, dust |-> 0]
        ELSE [payouts |-> share, fee |-> fee, dust |-> total_pool - fee - SumFunction(share)]

MarketNext ==
    \/ Tick /\ UNCHANGED marketVars
    \/ Void
    \/ \E k \in Keys : Resolve(k)
    \/ \E a \in Accounts : Claim(a) \/ \E k \in Keys, x \in Amounts : Bet(a, k, x)

MarketSpec == (now = 0 /\ MarketInit(Keys)) /\ [][MarketNext]_<<now, marketVars>>

-----------------------------------------------------------------------------
Due == [a \in Accounts |-> IF phase = "open" \/ a \in claimed THEN 0 ELSE ClaimOf(a)]

\* Whatever the order of the claims, the pot covers every claim still due, and what it
\* can never pay out is the dust: fewer motes than there are winners (claim's floors).
PotCoversClaims ==
    LET due == SumFunction(Due)
    IN  IF phase = "open" THEN pot = total_pool
        ELSE /\ pot >= due
             /\ phase = "voided" => pot = due
             /\ phase = "resolved" => pot - due < Cardinality({a \in Accounts : stake_on[a][winner] > 0})

\* The manifest the server computes off chain is, bettor by bettor, what claim pays or has
\* paid, and its dust is what stays in the contract; and the payout previewed to the last
\* bettor is honoured if it had no earlier stake on its side (computeMarketPayouts says it
\* is "the on-chain claim math, off-chain").
ManifestMatchesClaims ==
    phase # "open" =>
        LET manifest == computeMarketPayouts(winner)
        IN  /\ \A a \in Accounts : manifest.payouts[a] = IF a \in claimed THEN cashed[a] ELSE ClaimOf(a)
            /\ manifest.dust = pot - SumFunction(Due)
            /\ (phase = "resolved" /\ quote # NoQuote /\ quote.key = winner /\ quote.fresh)
                  => ClaimOf(quote.of) = quote.motes
=============================================================================
