------------------------ MODULE MCEconomyPersistence ------------------------
(* TLC instances of EconomyPersistence.                                      *)
EXTENDS EconomyPersistence, TLC

\* Sound where every instance is treated alike, i.e. with TickInstances = {}.
Interchangeable == Permutations(Instances) \cup Permutations(Facts)
FactSymmetry    == Permutations(Facts)
=============================================================================
