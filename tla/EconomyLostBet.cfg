\* Two instances record different bets on one market and publish them.
SPECIFICATION Spec
CONSTANTS
    Instances = {i1, i2}
    BetKeys = {b1, b2}
    LargeBets = {b2}
    Outcomes = {yes}
    None = None
    MarketIds = {m1}
    Slugs = {s1}
    Definitions = {d1}
    Bonds = {p1}
    Slices = {"settlement"}
    MaxActions = 1
    MaxFailures = 1
    MaxTime = 1
INVARIANT RecordedBetsAreCounted
