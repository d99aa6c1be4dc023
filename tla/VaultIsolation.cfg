\* Two markets in one purse, the same bettors and outcome keys in both.
SPECIFICATION Spec
CONSTANTS
    Addresses = {adm, orc, b1, b2}
    admin = adm
    Markets = {m1, m2}
    Outcomes = {yes, no}
    Hashes = {}
    None = None
    CREATION_BOND = 1
    MAX_PUBLIC_DEADLINE_HORIZON_MS = 1
    Creators = {adm}
    Oracles = {orc}
    Bettors = {b1, b2}
    CategoryChoices = {"other"}
    FeeChoices = {4000}
    BondChoices = {1}
    StakeChoices = {2, 3}
    CapChoices = {}
    MaxTime = 1
    TokenSupply = 7
SYMMETRY Interchangeable
INVARIANTS
    TypeOK
    PurseIsSumOfMarkets
    EveryClaimCovered
PROPERTIES
    ImplementsEscrow
CHECK_DEADLOCK FALSE
