\* The admin and a public creator open and settle markets while the policy changes.
SPECIFICATION Spec
CONSTANTS
    Addresses = {adm, orc, c1}
    admin = adm
    Markets = {m1, m2}
    Outcomes = {yes, no}
    Hashes = {}
    None = None
    CREATION_BOND = 0
    MAX_PUBLIC_DEADLINE_HORIZON_MS = 1
    Creators = {adm, c1}
    Oracles = {orc, c1}
    Bettors = {}
    CategoryChoices = {"meta", "other"}
    FeeChoices = {500, 501}
    BondChoices = {0, 1}
    StakeChoices = {}
    CapChoices = {0, 1}
    MaxTime = 2
    TokenSupply = 2
SYMMETRY Interchangeable
INVARIANTS
    SlotsMatchOpenMarkets
PROPERTIES
    PublicCapHolds
CHECK_DEADLOCK FALSE
