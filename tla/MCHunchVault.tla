---------------------------- MODULE MCHunchVault ----------------------------
(* TLC instances of HunchVault.                                              *)
EXTENDS HunchVault, TLC

\* Sound: the constants of a run tell these apart in no other way.
Interchangeable ==
    Permutations(Markets) \cup Permutations(Outcomes) \cup Permutations(Hashes)
        \cup Permutations(Bettors)
=============================================================================
