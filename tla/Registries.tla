------------------------------ MODULE Registries ------------------------------
(***************************************************************************)
(* The small directories: contracts/src/oracle_registry.rs (who resolves,  *)
(* how well), market_factory.rs (which markets exist, at which address)    *)
(* and copy_betting.rs (how a copied bet's fee is split).  Admin calls are *)
(* modelled as such: any other caller is reverted.                         *)
(***************************************************************************)
EXTENDS Motes, FiniteSetsExt, Sequences

CONSTANTS ListedMarkets, Vaults, Shares     \* Shares: agent shares in basis points

ASSUME VaultsAreAddresses == Unset \notin Vaults /\ Shares \subseteq Nat

VARIABLES
    oracle,     \* oracle[a]: its tallies, "none" while unregistered
    verdicts,   \* verdicts[a]: markets recorded for a, with what was recorded
    listing,    \* listing[m]: the factory's record of m
    ids,        \* market ids in the order they were registered
    vault,      \* the vault registrations bind to, Unset before set_vault
    share_bps,
    earned,     \* earned[a]: copy fees credited to agent a
    fees        \* history: fees split, and what the treasury got

registriesVars == <<oracle, verdicts, listing, ids, vault, share_bps, earned, fees>>

RegistriesInit ==
    /\ oracle = [a \in Accounts |-> [known |-> FALSE, resolved |-> 0, accurate |-> 0]]
    /\ verdicts = [a \in Accounts |-> {}]
    /\ listing = [m \in ListedMarkets |-> [at |-> Unset, resolved |-> FALSE]]
    /\ ids = <<>> /\ vault = Unset
    /\ share_bps \in Shares
    /\ earned = [a \in Accounts |-> 0]
    /\ fees = [paid |-> 0, treasury |-> 0]

RegisterOracle(a) ==
    /\ ~oracle[a].known
    /\ oracle' = [oracle EXCEPT ![a].known = TRUE]
    /\ UNCHANGED <<verdicts, listing, ids, vault, share_bps, earned, fees, now>>

\* At most one verdict per oracle and market.
RecordResolution(a, m, accurate) ==
    /\ oracle[a].known
    /\ \A v \in verdicts[a] : v.market # m
    /\ verdicts' = [verdicts EXCEPT ![a] = @ \cup {[market |-> m, accurate |-> accurate]}]
    /\ oracle' = [oracle EXCEPT ![a].resolved = @ + 1, ![a].accurate = @ + (IF accurate THEN 1 ELSE 0)]
    /\ UNCHANGED <<listing, ids, vault, share_bps, earned, fees, now>>

accuracy_bps(o) == IF o.resolved = 0 THEN 0 ELSE (o.accurate * BpsDenominator) \div o.resolved

RegisterMarket(m, address) ==
    /\ listing[m].at = Unset
    /\ listing' = [listing EXCEPT ![m] = [at |-> address, resolved |-> FALSE]]
    /\ ids' = Append(ids, m)
    /\ UNCHANGED <<oracle, verdicts, vault, share_bps, earned, fees, now>>

SetVault(v) ==
    /\ vault' = v
    /\ UNCHANGED <<oracle, verdicts, listing, ids, share_bps, earned, fees, now>>

RegisterVaultMarket(m) == vault # Unset /\ RegisterMarket(m, vault)

MarkResolved(m) ==
    /\ listing[m].at # Unset
    /\ listing' = [listing EXCEPT ![m].resolved = TRUE]
    /\ UNCHANGED <<oracle, verdicts, ids, vault, share_bps, earned, fees, now>>

\* The floor goes to the agent, the rest to the treasury; nothing stays behind.
SplitAndPay(a, fee) ==
    /\ LET agent_share == (fee * share_bps) \div BpsDenominator
       IN  /\ earned' = [earned EXCEPT ![a] = @ + agent_share]
           /\ fees' = [paid |-> fees.paid + fee, treasury |-> fees.treasury + fee - agent_share]
    /\ UNCHANGED <<oracle, verdicts, listing, ids, vault, share_bps, now>>

SetAgentShareBps(bps) ==
    /\ bps <= BpsDenominator
    /\ share_bps' = bps
    /\ UNCHANGED <<oracle, verdicts, listing, ids, vault, earned, fees, now>>

\* Off chain: core/copy-betting.ts.
splitCopyFee(fee, bps) ==
    LET agent == (fee * bps) \div BpsDenominator IN [agent |-> agent, platform |-> fee - agent]

RegistriesNext ==
    \/ \E v \in Vaults : SetVault(v)
    \/ \E bps \in Shares : SetAgentShareBps(bps)
    \/ \E m \in ListedMarkets :
          \/ RegisterVaultMarket(m)
          \/ MarkResolved(m)
          \/ \E v \in Vaults : RegisterMarket(m, v)
    \/ \E a \in Accounts :
          \/ RegisterOracle(a)
          \/ \E m \in ListedMarkets, yes \in BOOLEAN : RecordResolution(a, m, yes)
          \/ \E x \in Amounts : SplitAndPay(a, x)

RegistriesSpec == (now = 0 /\ RegistriesInit) /\ [][RegistriesNext]_<<now, registriesVars>>

-----------------------------------------------------------------------------
\* What the directories say is what was recorded: an oracle's tallies count each market
\* once, every registered market is enumerable once at the address it was bound to, and
\* copy fees are split without loss (record_resolution, register_market, split_and_pay).
DirectoriesAreExact ==
    /\ \A a \in Accounts :
          /\ oracle[a].resolved = Cardinality({v.market : v \in verdicts[a]})
          /\ oracle[a].accurate = Cardinality({v \in verdicts[a] : v.accurate})
          /\ accuracy_bps(oracle[a]) \in 0..BpsDenominator
    /\ \A m \in ListedMarkets : (listing[m].at # Unset) <=> \E i \in DOMAIN ids : ids[i] = m
    /\ \A i, j \in DOMAIN ids : ids[i] = ids[j] => i = j
    /\ fees.paid = fees.treasury + SumFunction(earned)
=============================================================================
