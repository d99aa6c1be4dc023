\* One market, three bettors, stakes for which the fee and the shares have remainders;
\* creator and oracle commit hashes around the first bet and the settlement.
SPECIFICATION Spec
CONSTANTS
    Addresses = {adm, orc, b1, b2, b3}
    admin = adm
    Markets = {m1}
    Outcomes = {yes, no}
    Hashes = {h1}
    None = None
    CREATION_BOND = 1
    MAX_PUBLIC_DEADLINE_HORIZON_MS = 1
    Creators = {adm}
    Oracles = {orc}
    Bettors = {b1, b2, b3}
    CategoryChoices = {"other"}
    FeeChoices = {0, 3000}
    BondChoices = {1}
    StakeChoices = {1, 4}
    CapChoices = {}
    MaxTime = 1
    TokenSupply = 9
SYMMETRY Interchangeable
INVARIANTS
    MarketCoversItsOwnDebts
    DustBelowWinners
    RecipeBettorsSaw
PROPERTIES
    SettlementIsFinal
CHECK_DEADLOCK FALSE
