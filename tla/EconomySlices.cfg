\* Every slice, each on its own: two instances, the store and recycling.  Two instants
\* order any two events, three failures trip the breaker, b3 outweighs b1 and b2 alone.
SPECIFICATION Spec
CONSTANTS
    Instances = {i1, i2}
    BetKeys = {b1, b2, b3}
    LargeBets = {b3}
    Outcomes = {yes, no}
    None = None
    MarketIds = {m1, m2}
    Slugs = {s1}
    Definitions = {d1, d2}
    Bonds = {p1, p2}
    Slices = {"settlement", "oracle", "activity", "created", "breaker", "quarantine",
              "evidence", "bonds"}
    MaxActions = 3
    MaxFailures = 3
    MaxTime = 2
SYMMETRY Interchangeable
INVARIANTS
    TypeOK
    NothingCountedTwice
    MergeIsUnionOfFacts
PROPERTIES
    ResolutionStands
    FirstLaunchStands
    ReleasesLand
    NewestEvidenceDecides
    SpentStaysSpent
