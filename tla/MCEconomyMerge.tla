--------------------------- MODULE MCEconomyMerge ---------------------------
(* TLC instances of EconomyMerge.                                            *)
EXTENDS EconomyMerge, TLC

\* Sound: no constant tells one of these from another of its set, but for the large bets.
Interchangeable ==
    Permutations(Instances) \cup Permutations(BetKeys \ LargeBets) \cup Permutations(Outcomes)
        \cup Permutations(MarketIds) \cup Permutations(Definitions)
        \cup Permutations(Slugs) \cup Permutations(Bonds)
=============================================================================
