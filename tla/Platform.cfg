SPECIFICATION PlatformSpec
CONSTANTS
    Focus = {"panel", "agents", "hooks", "v1", "field", "directories", "lmsr", "bets", "tickets", "creation", "fleet", "signing in", "betting", "creating", "catalogue", "fielding", "boards", "queries", "mentions", "adapters", "health", "evidence", "symbols", "connecting", "signing"}
    Accounts = {1, 2}
    Amounts = {1, 2}
    MaxTime = 2
    Disputes = {1, 2}
    ChallengeWindow = 1
    VotingWindow = 1
    Bonds = {0, 1}
    Cooldowns = {0, 1}
    HookedMarkets = {1, 2}
    Decisions = {"yes", "no"}
    Keys = {"home", "away", "draw"}
    FeeBps = 5000
    BetDeadline = 1
    Hashes = {"h"}
    ListedMarkets = {1, 2}
    Vaults = {"v"}
    Shares = {0, 5000}
    WAD = 1000
    LN2 = 693
    Liquidities = {1, 2}
    LmsrOutcomes = {1, 2}
    Deltas <- TradeSizes
    MaxShares = 4
    x1 = x1
    x2 = x2
    t1 = t1
    o1 = o1
    f1 = f1
    p1 = p1
    i1 = i1
    i2 = i2
    k1 = k1
    k2 = k2
    Requests = {x1, x2, t1, o1, f1}
    Payments = {p1}
    Instances = {i1, i2}
    Pollers = {k1, k2}
    Path <- Paths
    PaymentOf <- PaymentFor
    AskedOf <- PolledAt
    c1 = c1
    c2 = c2
    c3 = c3
    bond1 = bond1
    h1 = h1
    h2 = h2
    rule1 = rule1
    NoBond = NoBond
    Attempts = {c1, c2, c3}
    Hosts = {h1, h2}
    ClaimBy <- ClaimsBy
    BondBy <- BondsBy
    HostOf <- HostsOf
    momentum = momentum
    value = value
    scout = scout
    coin = coin
    price = price
    Fleet <- TheFleet
    Board <- TheBoard
    SelfSigned = {value}
    PerTick = 2
    TripThreshold = 2
    BettingFloor = 2
    CreationFloor = 2
    SeedingFloor = 3
    FullPurse = 3
    MaxTicks = 3
    w1 = w1
    w2 = w2
    WalletKeys = {w1, w2}
    Demo = Demo
    Nobody = Nobody
    Logins = {1, 2}
    Routes <- Everywhere
    Visits <- AllVisits
    Shared <- PhoneAccounts
    SettleAttempts = 2
    Presses = {1, 2}
    Quotes = {1, 2}
    Operator = Operator
    flip = flip
    race = race
    Slugs = {flip, race}
    Sample = flip
    SeedOutcomes = {1, 2}
    Agents = {1, 2}
    GasLimit <- Limits
    GasUsed <- Uses
    FirstCreate = 4
    Bond = 2
    Stake = 2
    Refuel = 2
    MinPerMarket = 29
    Purses = {28, 33, 60}
    Plans <- FieldPlans
    BatchSize = 2
    Evidence = "h"
    BoardMarkets = {"m", "n"}
    Bettors = {"ann", "bob"}
    BoardKeys = {"yes", "no"}
    Oracle = "oracle"
    BoardFeeBps = 5000
    PageSize = 3
    MaxPages = 2
    Limit = 8
    SeasonLength = 1
    MinSettled = 2
    BurstWindow = 0
    MinOccurrences = 1
    MaxCalls = 5
    Servers = {"s1", "s2"}
    Callers = {"ann", "bob"}
    Topics = {"odds", "gone"}
    Listed = {"odds"}
    Wires = {"pay", "call"}
    WireOf <- WireKinds
    Treasury = "treasury"
    QueryPrice = 1
    FreeTiers = {0, 2}
    MeterWindow = 2
    PendingWindow = 1
    MaxQueries = 4
    Bots = {"b1", "b2"}
    Mentions = {"m1", "m2", "m3"}
    TextOf <- Messages
    AmountTokens = {"5"}
    CountTokens = {"5"}
    OutcomeTokens = {"yes", "on", "flip", "cspr"}
    SlugTokens = {"5", "yes", "on", "flip", "cspr"}
    MarketOf <- SlugsNamed
    MaxDeliveries = 3
    Listings = {"coin", "dice", "fresh", "wide"}
    FieldSlugs = {"wide"}
    Prophets = {"pia"}
    Visitors = {"vic"}
    Wirings <- Environments
    Catalogued = {"dice"}
    MaxSent = 3
    Deployments <- AllDeployments
    FeedCap = 2
    StaleAfter = 1
    Grace = 2
    SampleFloor = 2
    MaxHours = 3
    Proposals <- Asks4
    Curated <- OwnMarkets
    OpenRules <- AlreadyOpen
    Leaderboards <- Rankings3
    Announcements = {"yes", "void", "stranger"}
    Resolvers = {"sweep", "operator"}
    MaxPublished = 2
    Errands <- AllErrands
    Faces <- AllFaces
    Horizon = 2
    LastDay = 2
CHECK_DEADLOCK FALSE
INVARIANTS
    DisputesPayRight
    BooksAddUp
    ClaimsArePaid
    BoardsAreHonest
    CreationIsHonest
    LossesAreBounded
    VisitorsAreServed
    DeploymentIsWhole
    ReportsAreTrue
    ServicesAreHonest
PROPERTIES
    NoLaunder
    VerdictIsFinal
    BettorsRulesHold
