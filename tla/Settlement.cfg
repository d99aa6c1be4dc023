SPECIFICATION SettlementSpec
CONSTANTS
    Focus = {"catalogue", "rounds"}
    m1 = m1
    m2 = m2
    Catalogue <- TheCatalogue
    MaxRound = 3
    Outcomes = {"yes", "no"}
    SweepBudget = 2
    BackfillRounds = 2
    Creates = {"skipped", "opened", "unheard"}
CHECK_DEADLOCK FALSE
INVARIANTS
    OneAnswerOneSettlement
PROPERTIES
    EveryMaturedMarketSettles
