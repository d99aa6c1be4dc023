\* One instance, alone with the store, whose agents pay and place nothing.
SPECIFICATION Spec
CONSTANTS
    Instances = {i1}
    BetKeys = {b1}
    LargeBets = {}
    Outcomes = {yes}
    None = None
    MarketIds = {m1}
    Slugs = {s1}
    Definitions = {d1}
    Bonds = {p1}
    Slices = {"breaker"}
    MaxActions = 1
    MaxFailures = 3
    MaxTime = 4
INVARIANT BreakerRemembers
