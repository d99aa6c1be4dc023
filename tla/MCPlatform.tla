------------------------------ MODULE MCPlatform ------------------------------
(***************************************************************************)
(* The components beside the vault and the persistence layer, checked      *)
(* together: each behaviour runs the component that `which' names, on a    *)
(* small instance, and leaves the others at their start.  bound names what *)
(* TLC limits beyond the constants.                                        *)
(***************************************************************************)
EXTENDS DisputePanel, AgentRegistry, ResolutionHooks, FieldMarket, Registries, LmsrMarket,
        BetPlacement, MarketCreation, FleetBets, VisitorPages, CatalogueDriver, FieldDriver,
        ChainBoards, PaidQueries, BotMentions, ChainAdapter, HealthBoard, ResolutionRecords,
        QrCode, WalletConnector, TransactionDoors, TLC

CONSTANTS Focus, w1, w2, flip, race, x1, x2, t1, o1, f1, p1, i1, i2, k1, k2,
          c1, c2, c3, bond1, h1, h2, rule1, momentum, value, scout, coin, price

ASSUME TheFirstDispute == 1 \in Disputes
ASSUME TheVisitorsKeys == {w1, w2} \subseteq WalletKeys
ASSUME TheServicesCalled ==
    /\ {"s1", "s2"} \subseteq Servers /\ {"ann", "bob"} \subseteq Callers /\ {"odds", "gone"} \subseteq Topics
    /\ {"pay", "call"} \subseteq Wires /\ "b1" \in Bots /\ "fresh" \in Listings

VARIABLES
    which,          \* the component this behaviour runs
    bound           \* how many of the calls TLC limits have been made

Paths == x1 :> "x402" @@ x2 :> "x402" @@ t1 :> "ticket" @@ o1 :> "operator" @@ f1 :> "fleet"
PaymentFor == [r \in {x1, x2} |-> p1]
PolledAt == k1 :> i1 @@ k2 :> i2
ClaimsBy == [a \in {c1, c2, c3} |-> rule1]
BondsBy == c1 :> bond1 @@ c2 :> bond1 @@ c3 :> NoBond
HostsOf == c1 :> h1 @@ c2 :> h1 @@ c3 :> h2
TheFleet == <<momentum, value, scout>>
TheBoard == <<coin, price>>
Dues == [to |-> "treasury", amount |-> 1]
WireKinds == "pay" :> [from |-> "ann", native |-> TRUE, args |-> Dues, moves |-> {Dues}]
             @@ "call" :> [from |-> "ann", native |-> FALSE, args |-> Dues, moves |-> {}]
Messages == "m1" :> <<"@bot", "bet", "5", "cspr", "yes", "on", "flip">>
            @@ "m2" :> <<"bet", "5", "yes", "on", "https://market", "#tag">> @@ "m3" :> <<"odds", "flip">>
SlugsNamed == [t \in {"5", "yes", "on", "flip", "cspr", "https://market"} |-> IF t = "https://market" THEN "flip" ELSE t]
TradeSizes == {-1, 1, 2}
Limits == "install" :> 16 @@ "create" :> 6 @@ "register" :> 3 @@ "bet" :> 3 @@ "transfer" :> 1
Uses == "install" :> 12 @@ "create" :> 2 @@ "register" :> 1 @@ "bet" :> 1 @@ "transfer" :> 1
FieldPlans == {{"home", "away"}, {"home", "draw"}, {"home", "away", "draw"}}
Wired == [addrs |-> {"coin"}, vaultV2 |-> TRUE, fallback |-> TRUE, field |-> TRUE, registry |-> TRUE, hook |-> TRUE,
          bettorKey |-> TRUE, oracleKey |-> TRUE, seed |-> TRUE, keyed |-> {}]
Environments ==
    {Wired, [Wired EXCEPT !.bettorKey = FALSE],
     [Wired EXCEPT !.addrs = {}, !.registry = FALSE, !.hook = FALSE, !.oracleKey = FALSE, !.seed = FALSE, !.keyed = {"pia"}],
     [Wired EXCEPT !.vaultV2 = FALSE, !.field = FALSE, !.seed = FALSE]}
Healthy == Wired @@ [real |-> TRUE, factory |-> TRUE, oracles |-> TRUE, kv |-> "up", payTo |-> TRUE, bondPayable |-> TRUE,
                     oracleAccount |-> TRUE, cron |-> TRUE, cloud |-> TRUE, appId |-> "good", rpc |-> TRUE, indexer |-> "up"]
Unwell ==
    {[Healthy EXCEPT !.real = FALSE, !.kv = "none"], [Healthy EXCEPT !.real = FALSE, !.kv = "down", !.bettorKey = FALSE],
     [Healthy EXCEPT !.cron = FALSE], [Healthy EXCEPT !.bettorKey = FALSE, !.oracleKey = FALSE],
     [Healthy EXCEPT !.addrs = {}, !.vaultV2 = FALSE, !.fallback = FALSE], [Healthy EXCEPT !.field = FALSE],
     [Healthy EXCEPT !.vaultV2 = FALSE, !.fallback = FALSE], [Healthy EXCEPT !.registry = FALSE, !.factory = FALSE],
     [Healthy EXCEPT !.hook = FALSE, !.oracles = FALSE], [Healthy EXCEPT !.kv = "none"], [Healthy EXCEPT !.kv = "down"],
     [Healthy EXCEPT !.payTo = FALSE], [Healthy EXCEPT !.bondPayable = FALSE], [Healthy EXCEPT !.oracleAccount = FALSE],
     [Healthy EXCEPT !.cloud = FALSE, !.appId = "none"], [Healthy EXCEPT !.appId = "wrong"],
     [Healthy EXCEPT !.appId = "unheard"], [Healthy EXCEPT !.rpc = FALSE]}
Blind == {[Healthy EXCEPT !.indexer = "blind"], [Healthy EXCEPT !.indexer = "down"]}
AllDeployments == {Healthy} \cup Unwell \cup Blind
Price == [title |-> "new", source |-> "coingecko", metric |-> "cspr_usd", kind |-> "threshold", target |-> "price",
          comparator |-> "gte", when |-> "dated", keys |-> <<"yes", "no">>, feeBps |-> 200]
Untargeted == [Price EXCEPT !.target = "none", !.comparator = "none"]
Outcomes3 == <<"yes", "no", "maybe">>
Asked == [Untargeted EXCEPT !.title = "asked", !.kind = "direction", !.when = "later"]
Acceptable ==
    {[Price EXCEPT !.target = t, !.comparator = c, !.keys = K] :
        t \in {"price", "huge", "word"}, c \in {"gte", "lte"}, K \in {<<"yes", "no">>, Outcomes3}}
    \cup {[Untargeted EXCEPT !.kind = x, !.keys = K] : x \in {"direction", "nway_winner"}, K \in {<<"yes", "no">>, Outcomes3}}
    \cup {[Untargeted EXCEPT !.kind = "coin_flip", !.source = "drand", !.metric = "beacon"]}
Refusable ==
    {[Price EXCEPT !.title = x] : x \in {"", "too long", "prohibited", "asked"}}
    \cup {[Price EXCEPT !.source = "attested", !.metric = "grand_prize"], [Price EXCEPT !.source = "internal"],
          [Price EXCEPT !.feeBps = 600], [Price EXCEPT !.keys = <<"yes">>], [Price EXCEPT !.keys = <<"yes", "yes">>],
          [Price EXCEPT !.keys = <<"yes", "Not A Key">>], [Price EXCEPT !.target = "none"], [Price EXCEPT !.comparator = "none"],
          [Price EXCEPT !.when = "no date"], [Price EXCEPT !.metric = "banana"], [Untargeted EXCEPT !.kind = "coin_flip"],
          [Asked EXCEPT !.title = "new"]}
AlreadyOpen == {Asked}
Asks4 == Acceptable \cup Refusable
Contest == [Untargeted EXCEPT !.source = "attested", !.metric = "grand_prize", !.kind = "nway_winner"]
ProphetRace == [Contest EXCEPT !.source = "internal", !.metric = "prophet_pnl", !.keys = <<"ann", "bob">>]
Accuracy == [Price EXCEPT !.source = "internal", !.metric = "arbiter_accuracy_pct"]
OwnMarkets == {Contest, ProphetRace, Accuracy, [Accuracy EXCEPT !.comparator = "lte", !.keys = <<"no", "yes">>]}
Standing(a, n, c, m) == <<[agent |-> a, settled |-> n], [agent |-> c, settled |-> m]>>
Rankings3 == {[pnl |-> Standing("ann", 1, "bob", 2), accuracy |-> 10], [pnl |-> Standing("bob", 2, "ann", 2), accuracy |-> 9],
              [pnl |-> Standing("ann", 1, "bob", 0), accuracy |-> 11]}
Everywhere == {"extension", "pairing", "none"}
Desktop == [network |-> "testnet", testnet |-> "own", mainnet |-> "other", shared |-> "stale", issued |-> {"own", "other"},
            project |-> TRUE, injected |-> FALSE, touch |-> FALSE, inApp |-> FALSE, metamask |-> FALSE, asks |-> TRUE,
            active |-> w1, kept |-> Nobody]
Devices == {<<FALSE, FALSE, FALSE>>, <<TRUE, FALSE, FALSE>>, <<FALSE, TRUE, FALSE>>, <<TRUE, TRUE, FALSE>>, <<TRUE, TRUE, TRUE>>}
BrowsersMet ==
    {[Desktop EXCEPT !.injected = d[1], !.touch = d[2], !.inApp = d[3], !.metamask = m, !.asks = a, !.kept = k] :
        d \in Devices, m \in BOOLEAN, a \in BOOLEAN, k \in {Nobody, w2}}
SitesMet(v) ==
    {v, [v EXCEPT !.project = FALSE], [v EXCEPT !.issued = {"other"}], [v EXCEPT !.testnet = "none", !.shared = "none"],
     [v EXCEPT !.testnet = "none", !.issued = {"stale", "other"}]}
AllVisits == UNION {SitesMet(v) : v \in BrowsersMet}
PhoneAccounts == {<<Nobody>>, <<w2>>, <<Nobody, w2>>, <<w1, w2>>, <<Nobody, w1, w2>>}
Words(n, m) == [units |-> n, bytes |-> m]
Key(who) == [of |-> who, spelled |-> "key"]
Account(who) == [of |-> who, spelled |-> "account_hash"]
Unnamed == [of |-> "nobody", spelled |-> ""]
YesNo == [count |-> 2, distinct |-> TRUE, longest |-> 3]
OpenSite == [real |-> TRUE, vault |-> TRUE, registry |-> TRUE, secret |-> TRUE, payTo |-> "treasury", bond |-> 5,
             approved |-> Account("judge"), network |-> "mainnet", audit |-> "none", age |-> 100,
             listed |-> [status |-> "open", deadline |-> 2, outcomes |-> {"yes", "no"}]]
Creation == [door |-> "create", signer |-> Key("ann"), oracle |-> Unnamed, claim |-> [units |-> 199, bytes |-> 199, asks |-> FALSE],
             source |-> "coingecko", feeBps |-> 500, keys |-> YesNo, deadline |-> 2]
BondPayment == [door |-> "bond", signer |-> Key("ann")]
Registration == [door |-> "register", signer |-> Key("ann"), name |-> Words(64, 64), uri |-> Words(256, 256), amount |-> 5]
BetForm == [door |-> "bet", signer |-> Key("ann"), market |-> "listed", outcome |-> "yes", amount |-> 50]
Misspelled(f) == {[f EXCEPT !.signer.spelled = x] : x \in {"long_key", "short_key", "label"}}
Creations ==
    {[Creation EXCEPT !.oracle = x] : x \in {Account("judge"), Account("ann"), Key("judge"), Key("ann"), Key("bob"), [of |-> "judge", spelled |-> "label"]}}
    \cup {[Creation EXCEPT !.claim = x] : x \in {[units |-> 200, bytes |-> 200, asks |-> FALSE], [units |-> 200, bytes |-> 200, asks |-> TRUE],
              [units |-> 150, bytes |-> 600, asks |-> TRUE], [units |-> 0, bytes |-> 0, asks |-> FALSE]}}
    \cup {[Creation EXCEPT !.keys = x] : x \in {[YesNo EXCEPT !.count = 1], [YesNo EXCEPT !.count = 8], [YesNo EXCEPT !.count = 9],
              [YesNo EXCEPT !.distinct = FALSE], [YesNo EXCEPT !.longest = 33], [YesNo EXCEPT !.longest = 32]}}
    \cup {[Creation EXCEPT !.deadline = x] : x \in {0, 1, 3, 4}} \cup {[Creation EXCEPT !.feeBps = x] : x \in {200, 501, 10000}}
    \cup {[Creation EXCEPT !.source = "internal"], [Creation EXCEPT !.signer = Key("judge")], [Creation EXCEPT !.deadline = 1, !.feeBps = 200]}
Registrations ==
    {[Registration EXCEPT !.name = x] : x \in {Words(0, 0), Words(65, 65), Words(64, 128)}}
    \cup {[Registration EXCEPT !.uri = x] : x \in {Words(0, 0), Words(257, 257), Words(200, 300)}}
    \cup {[Registration EXCEPT !.amount = 0]}
StakeForms ==
    {[BetForm EXCEPT !.amount = x] : x \in {0, 51, 1}} \cup {[BetForm EXCEPT !.outcome = "maybe"], [BetForm EXCEPT !.market = "unlisted"]}
Sites ==
    {[OpenSite EXCEPT !.real = FALSE], [OpenSite EXCEPT !.vault = FALSE], [OpenSite EXCEPT !.registry = FALSE], [OpenSite EXCEPT !.secret = FALSE],
     [OpenSite EXCEPT !.payTo = "nobody"], [OpenSite EXCEPT !.bond = 2], [OpenSite EXCEPT !.bond = 6], [OpenSite EXCEPT !.approved = Unnamed],
     [OpenSite EXCEPT !.listed.status = "resolved"], [OpenSite EXCEPT !.listed.deadline = 0], [OpenSite EXCEPT !.audit = "audited"], [OpenSite EXCEPT !.audit = "audited", !.age = 1],
     [OpenSite EXCEPT !.network = "testnet"]}
BasicForms == {Creation, BondPayment, Registration, BetForm}
AllErrands ==
    [site : {OpenSite}, request : BasicForms \cup Creations \cup Registrations \cup StakeForms \cup UNION {Misspelled(f) : f \in BasicForms}]
    \cup [site : Sites, request : BasicForms \cup {[BetForm EXCEPT !.amount = 60]}]
Usual == [open |-> TRUE, taken |-> FALSE, oracles |-> {"judge"}, room |-> TRUE, least |-> 5, joined |-> FALSE, betting |-> TRUE]
AllFaces == {Usual, [Usual EXCEPT !.taken = TRUE], [Usual EXCEPT !.open = FALSE, !.joined = TRUE], [Usual EXCEPT !.oracles = {}, !.room = FALSE],
             [Usual EXCEPT !.least = 6], [Usual EXCEPT !.taken = TRUE, !.betting = FALSE]}

compVars == <<panelVars, registryVars, hookVars, fieldVars, registriesVars, lmsrVars, betVars,
              creationVars, fleetVars, visitorVars, driverVars, fieldDriverVars, boardVars,
              queryVars, mentionVars, adapterVars, healthVars, recordVars, qrVars, connectorVars,
              doorVars>>

\* A fleet found at any level of funding: the deployment is then well.
SomeFleetInit ==
    /\ treasury \in 0 .. SeedingFloor * PerTick /\ purse \in [Names -> 0 .. FullPurse]
    /\ purse[momentum] <= purse[value] /\ purse[value] <= purse[scout]
    /\ deployment # Healthy => treasury = SeedingFloor * PerTick
    /\ treasury # SeedingFloor * PerTick \/ deployment # Healthy => \A p \in Names : purse[p] = FullPurse
    /\ misrouted \in SUBSET Range(Board)
    /\ failures = 0 /\ tripped = FALSE /\ quarantined = {}
    /\ counter = 0 /\ storedBreaker = <<0, FALSE, {}, 0>> /\ unflushed = FALSE
    /\ turn = noTurn /\ ticks = 0
    /\ strandedRun = 0 /\ strandedOn = [m \in Range(Board) |-> 0]
    /\ lapses = 0

\* Every rule resolved once; the contest, the agents' markets and one public market with two
\* resolvers, a death, a definition that changes.
Entangled == definition \in {Contest, ProphetRace, Price}

\* What the other components' choices do not matter to is fixed.
OthersAreFixed ==
    /\ which # "agents" => min_bond = 1 /\ cooldown_ms = 1
    /\ which # "directories" => share_bps = 5000
    /\ which # "lmsr" => b = 1
    /\ which \notin {"fleet", "health"} => misrouted = {}
    /\ which # "catalogue" => treasury_motes = Max(Purses)
    /\ which # "fielding" => plan = {"home", "away"}
    /\ which # "queries" => freePerWindow = 0
    /\ which # "mentions" => mode = "demo" /\ secretSet = TRUE
    /\ which # "adapters" => wiring = Wired
    /\ which # "health" => deployment = Healthy
    /\ which # "evidence" => /\ definition = Price /\ stage = "proposed" /\ reading = "yes" /\ oracleIsAdmin = TRUE
                            /\ rankings = <<CHOOSE x \in Rankings3 : TRUE>>
    /\ which # "signing in" => blocked = FALSE /\ route = "extension"
    /\ which # "connecting" => visit = Desktop
    /\ which # "signing" => errand = [site |-> OpenSite, request |-> BondPayment] /\ facing = Usual

\* ... and so is what those of the component that runs do not tell apart.
ChoicesMatter ==
    /\ which = "mentions" => (mode = "legacy" \/ secretSet = (mode # "demo"))
    /\ definition.source \in {"internal", "attested"} => reading = definition.keys[1]
    /\ which # "evidence" \/ Entangled \/ oracleIsAdmin
    /\ misrouted \subseteq {coin}

\* A v1 market takes its outcomes at init; a field starts without.
MarketsInit ==
    IF which = "v1" THEN MarketInit({"home", "away"}) /\ frozen = TRUE /\ recipe = Unset /\ bundle = Unset
                         /\ fieldAtFreeze = keys
    ELSE FieldInit

PlatformInit ==
    /\ which \in Focus
    /\ now = 0 /\ bound = 0
    /\ OthersAreFixed
    /\ PanelInit /\ RegistryInit /\ HookInit /\ MarketsInit /\ RegistriesInit /\ LmsrInit
    /\ DriverInit /\ FieldDriverInit /\ BoardsInit /\ QueriesInit /\ MentionsInit /\ AdapterInit
    /\ BetInit /\ CreationInit /\ PagesInit /\ HealthInit /\ RecordsInit /\ QrInit
    /\ ConnectorInit /\ DoorsInit
    /\ IF which = "health" THEN SomeFleetInit ELSE FleetInit
    /\ IF which \in {"betting", "creating"} THEN SignedIn(w1) ELSE WalletInit
    /\ ChoicesMatter

\* An action of component c, and nothing else moves.
Only(c) ==
    /\ which = c /\ UNCHANGED which
    /\ c # "panel" => UNCHANGED panelVars
    /\ c # "agents" => UNCHANGED registryVars
    /\ c # "hooks" => UNCHANGED hookVars
    /\ c \notin {"v1", "field", "fielding"} => UNCHANGED marketVars
    /\ c \notin {"field", "fielding"} => UNCHANGED <<frozen, recipe, bundle, fieldAtFreeze>>
    /\ c # "directories" => UNCHANGED registriesVars
    /\ c # "lmsr" => UNCHANGED lmsrVars
    /\ c \notin {"bets", "tickets"} => UNCHANGED betVars
    /\ c # "creation" => UNCHANGED creationVars
    /\ c \notin {"fleet", "health"} => UNCHANGED fleetVars
    /\ c # "health" => UNCHANGED healthVars
    /\ c # "evidence" => UNCHANGED recordVars
    /\ c # "catalogue" => UNCHANGED driverVars
    /\ c # "fielding" => UNCHANGED fieldDriverVars
    /\ c # "boards" => UNCHANGED boardVars
    /\ c # "queries" => UNCHANGED queryVars
    /\ c # "symbols" => UNCHANGED qrVars
    /\ c # "connecting" => UNCHANGED connectorVars
    /\ c # "signing" => UNCHANGED doorVars
    /\ c # "mentions" => UNCHANGED mentionVars
    /\ c # "adapters" => UNCHANGED adapterVars
    /\ c \notin {"signing in", "betting", "creating"} => UNCHANGED visitorVars
    /\ c \in {"signing in", "betting"} => UNCHANGED createPageVars
    /\ c = "creating" => UNCHANGED betPanelVars
    /\ c \notin {"panel", "agents", "hooks", "v1", "field", "fielding", "directories", "boards"} => UNCHANGED now

Free(c) == Only(c) /\ UNCHANGED bound
Costs(c, n) == Only(c) /\ bound < n /\ bound' = bound + 1

\* A market's clock stops at its deadline: nothing later tells two times apart.
TimeGoesOn == \E c \in {"panel", "agents", "v1", "field", "boards", "queries"} :
    /\ which = c /\ (c \in {"v1", "field"} => now < BetDeadline)
    /\ c = "boards" => now = 0 /\ Len(deploys) > 1
    /\ c = "queries" => now = 0 \/ freePerWindow > 0
    /\ Tick /\ UNCHANGED <<which, bound, compVars>>

-----------------------------------------------------------------------------
\* One dispute in full, a second one beside it that is only ever proposed.
PanelActs ==
    \/ \E d \in Disputes, a \in Accounts, x \in Amounts :
          /\ d = 2 => a = 1 /\ x = 1 /\ proposal[1].status = "proposed"
          /\ Propose(d, a, x) /\ Free("panel")
    \/ \E a \in Accounts, x \in Amounts : Challenge(1, a, x) /\ Free("panel")
    \/ \E a \in Accounts, side \in Sides, x \in Amounts : Vote(1, a, side, x) /\ Free("panel")
    \/ \E d \in Disputes : FinalizeUnchallenged(d) /\ Free("panel")
    \/ FinalizeChallenged(1) /\ Free("panel")

AgentActs ==
    \/ \E a \in Accounts, x \in Amounts \cup {0} : (a = 2 => x = 1) /\ Register(a, x) /\ Free("agents")
    \/ \E a \in Accounts : Deactivate(a) /\ Free("agents")
    \/ \E a \in Accounts : WithdrawBond(a) /\ Free("agents")
    \/ \E a \in Accounts, x \in Amounts : Slash(a, x) /\ Free("agents")
    \/ \E x \in Bonds : SetMinBond(x) /\ Free("agents")
    \/ \E x \in Cooldowns : SetCooldown(x) /\ Free("agents")

HookActs ==
    \/ \E m \in HookedMarkets, a \in Accounts : (m = 2 => a = 1) /\ RegisterHook(m, a) /\ Free("hooks")
    \/ \E m \in HookedMarkets, o \in Decisions : (m = 2 => o = "yes") /\ Dispatch(m, o) /\ Free("hooks")
    \/ \E m \in HookedMarkets, o \in Decisions, a, c \in Accounts, x \in Amounts :
          a # c /\ (m = 2 => a = 1 /\ x = 1) /\ Fund(m, o, a, c, x) /\ Costs("hooks", 2)
    \/ \E m \in HookedMarkets : SettleEscrow(m) /\ Free("hooks")

V1Acts ==
    \/ \E a \in Accounts, k \in Keys, x \in Amounts : Bet(a, k, x) /\ Costs("v1", 3)
    \/ \E k \in Keys : Resolve(k) /\ Free("v1")
    \/ Void /\ Free("v1")
    \/ \E a \in Accounts : Claim(a) /\ Free("v1")

FieldActs ==
    \/ \E K \in SUBSET Keys : K # {} /\ RegisterCandidates(K) /\ Free("field")
    \/ FreezeField /\ Free("field")
    \/ \E a \in Accounts, k \in Keys, x \in Amounts : FieldBet(a, k, x) /\ Costs("field", 2)
    \/ \E k \in Keys : FieldResolve(k) /\ Free("field")
    \/ FieldVoid /\ Free("field")
    \/ \E a \in Accounts : FieldClaim(a) /\ Free("field")
    \/ \E h \in Hashes : CommitRecipe(h) /\ Free("field")
    \/ \E h \in Hashes : CommitBundle(h) /\ Free("field")

DirectoryActs ==
    \/ \E a \in Accounts : RegisterOracle(a) /\ Free("directories")
    \/ \E a \in Accounts, m \in ListedMarkets, yes \in BOOLEAN :
          RecordResolution(a, m, yes) /\ Costs("directories", 4)
    \/ \E m \in ListedMarkets, v \in Vaults : RegisterMarket(m, v) /\ Costs("directories", 4)
    \/ \E v \in Vaults : SetVault(v) /\ Costs("directories", 4)
    \/ \E m \in ListedMarkets : RegisterVaultMarket(m) /\ Costs("directories", 4)
    \/ \E m \in ListedMarkets : MarkResolved(m) /\ Free("directories")
    \/ \E a \in Accounts, x \in Amounts : SplitAndPay(a, x) /\ Costs("directories", 3)
    \/ \E bps \in Shares : SetAgentShareBps(bps) /\ Costs("directories", 2)

LmsrActs == \E i \in LmsrOutcomes, delta \in Deltas : Free("lmsr") /\ Trade(i, delta)

\* "bets": two bets with one payment at one instance or two, or a fleet agent's at one and an
\* operator's at the other; "tickets": a ticket that both instances poll.
BetGroups == "bets" :> {{x1, x2}, {f1, o1}} @@ "tickets" :> {{t1}}
Home == x1 :> {i1} @@ x2 :> {i1, i2} @@ f1 :> {i1} @@ t1 :> {i1} @@ o1 :> {i2}
Begun == {r \in Requests : pc[r] # "new"}

\* Two of one payment's bets are upset twice, anything else once, and then a read of the store.
Upsets == IF Begun \cap {x1, x2} = {} THEN 1 ELSE 2

BetActs ==
  \E c \in {"bets", "tickets"} : which = c /\
    \/ ChainCloses /\ Begun # {} /\ Costs(c, 1)
    \/ \E i \in Instances \cap {i1} : Settle(i) /\ Begun # {} /\ Costs(c, 1)
    \/ \E i \in Instances : Flush(i) /\ Free(c)
    \/ \E i \in Instances : ReadStore(i) /\ Begun # {} /\ (Upsets = 1 => i = i2) /\ Costs(c, 2)
    \/ \E i \in Instances : Hydrate(i) /\ Free(c)
    \/ \E i \in Instances : Restart(i) /\ Begun # {} /\ Costs(c, Upsets)
    \/ \E r \in Requests, i \in Instances :
          /\ i \in Home[r] /\ \E G \in BetGroups[c] : Begun \cup {r} \subseteq G
          /\ Submit(r, i) /\ Free(c)
    \/ \E r \in Requests : Execute(r) /\ Free(c)
    \/ \E r \in Requests : Placed(r) /\ Free(c)
    \/ \E r \in Requests : PlaceFailed(r) /\ Free(c)
    \/ \E r \in Requests : Answer(r) /\ Free(c)
    \/ \E r \in Requests : TicketExpires(r) /\ Free(c)
    \/ \E r \in Requests, k \in Pollers : PollChain(r, k) /\ Free(c)
    \/ \E r \in Requests, k \in Pollers : PollIndex(r, k) /\ Free(c)
    \/ \E r \in Requests, k \in Pollers : PollAnswer(r, k) /\ Free(c)

CreationActs ==
    \/ EconomyCreates /\ Costs("creation", 1)
    \/ \E h \in Hosts : Snapshot(h) /\ Free("creation")
    \/ \E h \in Hosts : HostRestarts(h) /\ Free("creation")
    \/ \E a \in Attempts : composeForCreation(a) /\ Free("creation")
    \/ \E a \in Attempts : ClaimBond(a) /\ Free("creation")
    \/ \E a \in Attempts : WalletSubmits(a) /\ Free("creation")
    \/ \E a \in Attempts : ExecuteCreate(a) /\ Free("creation")
    \/ \E a \in Attempts : Created(a) /\ Free("creation")
    \/ \E a \in Attempts : CreateFailed(a) /\ Free("creation")
    \/ \E a \in Attempts : Finalize(a) /\ Free("creation")
    \/ \E a \in Attempts : CreationTicketExpires(a) /\ Free("creation")

\* One market that may be misrouted; what the operator and the platform do is limited.
FleetActs ==
    \/ \E read \in BOOLEAN : (read \/ memory # storedBreaker) /\ StartTick(read, FALSE, {}, {}) /\ Free("fleet")
    \/ \E reset \in BOOLEAN, released \in {{}, quarantined} : \E fixed \in SUBSET released :
          /\ (reset /\ tripped) \/ released # {}
          /\ memory = storedBreaker
          /\ StartTick(TRUE, reset, released, fixed) /\ Costs("fleet", 2)
    \/ DecideBetting /\ Free("fleet")
    \/ \E near \in SUBSET (Range(Board) \cap {coin}) : (ticks # 2 => near = {}) /\ ChooseMarket(near) /\ Free("fleet")
    \/ \E p \in Names : SitsOut(p) /\ (IF purse[p] = 0 THEN Free("fleet") ELSE Costs("fleet", 1))
    \/ \E p \in Names : Places(p) /\ Free("fleet")
    \/ \E p \in Names, named \in BOOLEAN : DoesNotPlace(p, named) /\ Free("fleet")
    \/ \E n \in {0, 1} : (ticks # 2 => n = 0) /\ EndTick(n, TRUE) /\ Free("fleet")
    \/ EndTick(0, FALSE) /\ Costs("fleet", 2)
    \/ FlushLands /\ Free("fleet")
    \/ Rereads /\ Costs("fleet", 2)
    \/ InstanceDies /\ Costs("fleet", 2)
    \/ \E p \in Names : DiesInTurn(p) /\ Costs("fleet", 2)
    \/ Refill /\ Costs("fleet", 2)

\* What the wallet, other tabs and the visitor do to the session of themselves is limited.
SessionActs ==
  \E c \in {"signing in", "betting"} : LET n == IF c = "betting" THEN 1 ELSE 2 IN
    /\ which = c
    /\ UNCHANGED <<betPanelVars, mute>>
    /\ \/ SdkLoads /\ Free(c)
       \/ ProbeRejects /\ Costs(c, n)
       \/ Disconnect /\ Costs(c, n)
       \/ \E k \in WalletKeys : WalletAnnounces(k) /\ Costs(c, n)
       \/ WalletEnds /\ Costs(c, n)
       \/ \E k \in {w2, Demo, Nobody} : OtherTab(k) /\ Costs(c, n)

SigningInActs ==
    \/ \E n \in Logins :
          /\ UNCHANGED <<betPanelVars, mute>>
          /\ \/ Connect(n) /\ Free("signing in")
             \/ AttemptGoesOn(n) /\ Free("signing in")
             \/ ConnectReturns(n) /\ Free("signing in")
             \/ ConnectFails(n) /\ Free("signing in")
             \/ PairingMoves(n) /\ Free("signing in")
             \/ \E k \in WalletKeys : PairingSignsIn(n, k) /\ Free("signing in")
    \/ CancelConnect /\ UNCHANGED <<betPanelVars, mute>> /\ Free("signing in")
    \/ Reload /\ Costs("signing in", 2)

\* The panel of a visitor who is signed in already.
BettingActs ==
    \/ Reload /\ Costs("betting", 1)
    \/ BettingCloses /\ (IF marketIs = "open" THEN Costs("betting", 1) ELSE Free("betting"))
    \/ \E p \in Presses :
          \/ (\A earlier \in 1 .. p - 1 : bet[earlier].at # "unused") /\ PlaceBet(p) /\ Free("betting")
          \/ BetPrepared(p) /\ Free("betting")
          \/ PrepareToSign(p) /\ Free("betting")
          \/ WalletSigns(p) /\ Free("betting")
          \/ WalletDeclines(p) /\ Free("betting")
          \/ OperatorPlaces(p) /\ Free("betting")
          \/ ChainDecides(p) /\ Free("betting")
          \/ PollVerdict(p) /\ Free("betting")

CreatingActs ==
    \/ RequestChallenge /\ Free("creating")
    \/ PayAndCreate /\ Free("creating")
    \/ SignBond /\ (quoted # 0 => paid[quoted] < 2) /\ Free("creating")
    \/ AwaitBond /\ Free("creating")
    \/ OpenMarket /\ Free("creating")
    \/ SignAndCreate /\ Free("creating")
    \/ FinalizePoll /\ Free("creating")
    \/ \E n \in Quotes : BondDecided(n) /\ Free("creating")
    \/ Reload /\ Costs("creating", 1)
    \/ SdkLoads /\ UNCHANGED <<createPageVars, mute>> /\ Free("creating")

CatalogueActs ==
    \/ \E release \in {"v1", "v2"}, selection \in SUBSET Slugs \ {{}} :
          StartCatalogue(release, selection) /\ Costs("catalogue", 3)
    \/ \E s \in Slugs : StartCreateV2(s) /\ Costs("catalogue", 3)
    \/ StartVaultDeploy /\ Costs("catalogue", 3)
    \/ StartFleetFund /\ Costs("catalogue", 3)
    \/ \E s \in Slugs : NextSlug(s) /\ Free("catalogue")
    \/ JobDone /\ Free("catalogue")
    \/ DeployMarket /\ Free("catalogue")
    \/ DeployVault /\ Free("catalogue")
    \/ SetFactoryVault /\ Free("catalogue")
    \/ CreateMarket /\ Free("catalogue")
    \/ RegisterEntry /\ Free("catalogue")
    \/ \E o \in SeedOutcomes : SeedOne(o) /\ Free("catalogue")
    \/ \E a \in Agents : FundOne(a) /\ Free("catalogue")
    \/ TxRefused /\ Free("catalogue")
    \/ TxReverts /\ Free("catalogue")

FieldingActs ==
    \/ DeployField /\ Free("fielding")
    \/ \E P \in Plans : Republish(P) /\ Costs("fielding", 2)
    \/ StartFieldRegister /\ Free("fielding")
    \/ \E K \in SUBSET Keys : RegisterChunk(K) /\ Free("fielding")
    \/ FieldRegisterEnds /\ Free("fielding")
    \/ FieldFreeze /\ Free("fielding")
    \/ \E k \in Keys, evidence \in {"", Evidence} : ResolveField(k, evidence) /\ Free("fielding")
    \/ CommitEvidence /\ Free("fielding")
    \/ EvidenceFails /\ Free("fielding")
    \/ \E k \in Keys : StakeOnField(1, k, 1) /\ Costs("fielding", 2)

\* One market in full, a second one beside it; what the vault refuses is a late bet.
Wagers == {<<"m", "ann", "yes", 1>>, <<"m", "ann", "no", 1>>, <<"m", "bob", "no", 4>>, <<"n", "bob", "yes", 4>>}
BoardActs ==
    \/ \E m \in BoardMarkets : Free("boards") /\ escrowed[m].state = "none" /\ (m = "n" => Len(deploys) = 1)
                                /\ CreateCall(m)
    \/ \E g \in Wagers : /\ escrowed[g[1]].state = "open" \/ g = <<"m", "ann", "yes", 1>>
                         /\ BetCall(g[1], g[2], g[3], g[4]) /\ Free("boards")
    \/ \E m \in BoardMarkets, k \in BoardKeys : escrowed[m].state = "open" /\ ResolveCall(m, k) /\ Free("boards")
    \/ \E m \in BoardMarkets : escrowed[m].state = "open" /\ VoidCall(m) /\ Free("boards")
    \/ \E m \in BoardMarkets, a \in Bettors :
          Settled(escrowed[m]) /\ VaultPays(escrowed[m], a) > 0 /\ ClaimCall(m, a) /\ Free("boards")
    \/ Len(deploys) = 1 /\ AdminCall /\ Free("boards")
    \/ deploys = << >> /\ V1BetCall("ann", "yes", 1) /\ Free("boards")

\* Without a free tier, proofs good and bad on two servers; with one, a caller that keeps asking.
Asks ==
    LET own(w, c, topic) == [wire |-> w, nonce |-> quoteNonce(topic, c)] IN
    IF freePerWindow > 0 THEN {<<"s1", "ann", "odds", NoProof>>}
    ELSE {<<"s1", "ann", "odds", own("pay", "ann", "odds")>>}
         \cup (IF Len(queries) # 1 THEN {} ELSE {<<"s1", "bob", "odds", own("pay", "bob", "odds")>>})
         \cup (IF Len(queries) # 1 THEN {}
               ELSE {<<"s2", "ann", "odds", own("pay", "ann", "odds")>>,
                     <<"s1", "ann", "gone", own("pay", "ann", "gone")>>})
         \cup (IF queries # << >> THEN {}
               ELSE {<<"s1", "ann", "odds", NoProof>>, <<"s1", "ann", "odds", own("call", "ann", "odds")>>,
                     <<"s1", "ann", "gone", own("pay", "ann", "odds")>>})
QueryActs ==
    \/ \E g \in Asks : /\ freePerWindow = 0 => Len(queries) + bound < 3
                       /\ Ask(g[1], g[2], g[3], g[4]) /\ Free("queries")
    \/ \E i \in DOMAIN queries : ReadNode(i) /\ Free("queries")
    \/ \E i \in DOMAIN queries : Burn(i) /\ Free("queries")
    \/ \E i \in DOMAIN queries : AnswerQuery(i) /\ Free("queries")
    \/ \E w \in Wires : (\E i \in DOMAIN queries : queries[i].wire = w) /\ WireMoves(w) /\ Free("queries")
    \/ (freePerWindow = 0 => Len(queries) = 1) /\ ServerDies("s1") /\ Costs("queries", 1)

MentionActs ==
    \/ \E s \in Bots, m \in Mentions, signed \in BOOLEAN :
          /\ deliveries = << >> => s = "b1" /\ m # "m2"
          /\ deliveries # << >> => signed /\ m # "m3"
          /\ mode # "legacy" => Len(deliveries) < 2
          /\ Len(deliveries) + bound < 3
          /\ s = "b2" => m = "m1"
          /\ Len(deliveries) = 2 => m = "m1"
          /\ Deliver(s, m, signed) /\ Free("mentions")
    \/ \E i \in DOMAIN deliveries : QuoteBet(i) /\ Free("mentions")
    \/ \E i \in DOMAIN deliveries : Pay(i) /\ Free("mentions")
    \/ \E i \in DOMAIN deliveries : EscrowLands(i) /\ Free("mentions")
    \/ \E i \in DOMAIN deliveries : EscrowPlaced(i) /\ Free("mentions")
    \/ \E i \in DOMAIN deliveries : EscrowFails(i) /\ Free("mentions")
    \/ \E i \in DOMAIN deliveries : SendReply(i) /\ Free("mentions")
    \/ \E s \in Bots : ~(booked[s] \subseteq storedBets) /\ BotFlushes(s) /\ Free("mentions")
    \/ \E s \in Bots : Len(deliveries) = 2 /\ mode = "legacy" /\ BotReads(s) /\ Costs("mentions", 1)
    \/ \E s \in Bots : BotHears(s) /\ Free("mentions")
    \/ Len(deliveries) = 1 /\ (MarketCloses \/ BotDies("b1")) /\ Costs("mentions", 1)

\* One market's transactions, each built once the last has been told of or is left unsigned; a
\* redeploy in between.
NextOfOne(s) == Len(sent) < 2 /\ \A i \in DOMAIN sent : sent[i].slug = s /\ (sent[i].told # "nothing" \/ sent[i].step = "unsigned")
Settles(s) == \A i \in DOMAIN sent : sent[i].slug = s /\ sent[i].told # "nothing"
AdapterActs ==
    \/ \E w \in Wirings : Len(sent) = 1 /\ Wired \in {w, wiring} /\ Rewire(w) /\ Costs("adapters", 1)
    \/ \E who \in Prophets \cup Visitors, s \in Listings :
          NextOfOne(s) /\ (sent # << >> => who \in Prophets) /\ PlaceOrSubmitBet(who, s) /\ Free("adapters")
    \/ \E who \in Visitors, s \in Listings : sent = << >> /\ buildBetTransaction(who, s) /\ Free("adapters")
    \/ NextOfOne("fresh") /\ createMarketOnChain("fresh") /\ Free("adapters")
    \/ \E who \in Visitors : sent = << >> /\ buildCreateMarketTransaction(who, "fresh") /\ Free("adapters")
    \/ \E who \in Visitors : sent = << >> /\ (buildTransferTransaction(who) \/ buildAgentRegistration(who)) /\ Free("adapters")
    \/ \E s \in Listings : Settles(s) /\ resolveOnChain(s) /\ Free("adapters")
    \/ \E s \in Listings : Settles(s) /\ anchorResolution(s) /\ Free("adapters")
    \/ \E s \in Listings : Settles(s) /\ dispatchResolution(s) /\ Free("adapters")
    \/ \E i \in DOMAIN sent : WalletSubmitsTx(i) /\ Free("adapters")
    \/ \E i \in DOMAIN sent : BlockIncludes(i) /\ Free("adapters")
    \/ \E i \in DOMAIN sent \cap {1, Len(sent)} : LookUp(i) /\ Free("adapters")
    \/ \E i \in DOMAIN sent \cap {1} : WindowCloses(i) /\ Free("adapters")

\* One tick, whatever is funded and wired; the feed for a deployment that is well or that no
\* indexer answers.
HealthActs ==
    \/ /\ turn # noTurn \/ (deployment = Healthy /\ feed = << >> /\ hour = 0)
       /\ \/ ticks = 0 /\ purse[momentum] \in {0, 2, 3} /\ UNCHANGED healthVars /\ StartTick(TRUE, FALSE, {}, {}) /\ Free("health")
          \/ UNCHANGED healthVars /\ DecideBetting /\ Free("health")
          \/ UNCHANGED healthVars /\ ChooseMarket({}) /\ Free("health")
          \/ \E p \in Names : purse[p] = 0 /\ UNCHANGED healthVars /\ SitsOut(p) /\ Free("health")
          \/ \E p \in Names : PlacesAndLogs(p) /\ Free("health")
          \/ \E p \in Names, named \in BOOLEAN : UNCHANGED healthVars /\ DoesNotPlace(p, named) /\ Free("health")
    \/ /\ deployment \in {Healthy} \cup Blind /\ ticks = 0 /\ misrouted = {}
       /\ treasury = SeedingFloor * PerTick /\ purse = [p \in Names |-> FullPurse]
       /\ \/ \E g \in {<<momentum, coin>>, <<momentum, price>>, <<value, price>>} : Logs("bet", g[1], g[2]) /\ Costs("health", 3)
          \/ Logs("resolved", "Arbiter", coin) /\ Costs("health", 3)
          \/ Logs("created", "Genesis", coin) /\ Costs("health", 3)
          \/ HourPasses /\ Free("health")

EvidenceActs ==
    \/ Compose /\ Free("evidence")
    \/ \E k \in {"yes", "no", "ann"} :
          answersTaken = {} /\ (k = "no" => definition = Price /\ "yes" \in vaultEntry.backed) /\ Backs(k) /\ Free("evidence")
    \/ \E r \in {[Price EXCEPT !.comparator = "lte"]} : definition = Price /\ DefinitionReplaced(r) /\ Costs("evidence", 1)
    \/ \E a \in Announcements : definition = Contest /\ Announce(a) /\ Costs("evidence", 2)
    \/ \E x \in Leaderboards : definition = ProphetRace /\ BoardsMove(x) /\ Costs("evidence", 1)
    \/ StartsResolving("sweep") /\ Free("evidence")
    \/ Entangled /\ StartsResolving("operator") /\ Costs("evidence", 3)
    \/ \E w \in Resolvers : VaultAnswers(w) /\ Free("evidence")
    \/ Entangled /\ VaultFails("sweep") /\ Costs("evidence", 1)
    \/ \E k \in {"yes", "ann"} : Entangled /\ OperatorResolves(k) /\ Costs("evidence", 1)
    \/ \E w \in Resolvers : SettlesAndPublishes(w) /\ Free("evidence")
    \/ \E w \in Resolvers, lands \in BOOLEAN :
          AnchorsRecipe(w, lands) /\ (IF lands \/ ~RecipeAccepted THEN Free("evidence") ELSE Costs("evidence", 1))
    \/ \E w \in Resolvers, lands \in BOOLEAN :
          AnchorsBundle(w, lands) /\ (IF lands \/ vaultEntry.state = "open" THEN Free("evidence") ELSE Costs("evidence", 1))
    \/ Entangled /\ Flushes /\ Free("evidence")
    \/ Entangled /\ auditTrail # storedTrail /\ RecordsDie /\ Costs("evidence", 1)

\* Every version once, with as much text as it holds, and the masks of a few symbols: one block
\* with and without padding, and blocks of two lengths on either side of the wider count.
Letters(n) == [i \in 1 .. n |-> Bits((i * 37 + 11) % 128, 8)]
Fills(v, l) == (dataCodewordCapacity(v, l) * 8 - 4 - charCountBits(v)) \div 8
SymbolActs ==
    \/ \E v \in Versions : LaysOut(Letters(Fills(v, "M")), "M") /\ Free("symbols")
    \/ \E s \in {<<1, "L">>, <<5, "Q">>, <<10, "H">>} : LaysOut(Letters(Fills(s[1], s[2])), s[2]) /\ Free("symbols")
    \/ LaysOut(Letters(5), "M") /\ Free("symbols")
    \/ \E mask \in 0 .. 7 :
          /\ symbol # NoSymbol /\ symbol.stage = "laid out"
          /\ \/ <<symbol.version, symbol.ecc>> = <<1, "L">>
             \/ mask = 3 /\ Len(symbol.data) = 5
             \/ mask > 4 /\ symbol.ecc \in {"Q", "H"}
          /\ DrawsData(mask) /\ Free("symbols")

ConnectActs ==
    \/ BundleRuns /\ Free("connecting")
    \/ \E says \in ProbeVerdicts(csprClickAppId) : probeCsprClickAppId(says) /\ Free("connecting")
    \/ Clicks /\ Free("connecting")
    \/ Resumes /\ Free("connecting")
    \/ SdkIsReady /\ Free("connecting")
    \/ WaitRunsOut /\ Free("connecting")
    \/ \E says \in {"approved", "refused", "closed", "failed"} : WalletAnswers(says) /\ Free("connecting")
    \/ accountAfterConnect /\ Free("connecting")
    \/ \E k \in WalletKeys \cup {Nobody} : signIn(k) /\ Free("connecting")
    \/ \E entries \in Shared : PhoneShares(entries) /\ Free("connecting")
    \/ \E i \in DOMAIN login.accounts : choose(i) /\ Free("connecting")
    \/ \E p \in login.pending : SignedInWith(p) /\ Free("connecting")
    \/ \E p \in login.pending : SignInFails(p) /\ Free("connecting")
    \/ \E result \in {"cancelled", "failed"} : PairingFails(result) /\ Free("connecting")
    \/ onAbort /\ Free("connecting")
    \/ \E event \in ProviderEvents, k \in WalletKeys \cup {Nobody} : WalletSays(event, k) /\ Free("connecting")
    \/ OpensInWallet /\ Free("connecting")

SigningActs ==
    \/ AskDoor /\ Free("signing")
    \/ CreationComposed /\ Free("signing")
    \/ \E account \in {"ann", "bob"} : VisitorSigns(account) /\ Free("signing")
    \/ SignedExecutes /\ Free("signing")
    \/ \E face \in Faces : ChainTurns(face) /\ Free("signing")
    \/ DayPasses /\ Free("signing")

PlatformNext ==
    \/ TimeGoesOn
    \/ which = "panel" /\ PanelActs
    \/ which = "agents" /\ AgentActs
    \/ which = "hooks" /\ HookActs
    \/ which = "v1" /\ V1Acts
    \/ which = "field" /\ FieldActs
    \/ which = "directories" /\ DirectoryActs
    \/ which = "lmsr" /\ LmsrActs
    \/ which \in {"bets", "tickets"} /\ BetActs
    \/ which = "creation" /\ CreationActs
    \/ which = "fleet" /\ FleetActs
    \/ which \in {"signing in", "betting"} /\ SessionActs
    \/ which = "signing in" /\ SigningInActs
    \/ which = "betting" /\ BettingActs
    \/ which = "creating" /\ CreatingActs
    \/ which = "catalogue" /\ CatalogueActs
    \/ which = "fielding" /\ FieldingActs
    \/ which = "boards" /\ BoardActs
    \/ which = "queries" /\ QueryActs
    \/ which = "mentions" /\ MentionActs
    \/ which = "adapters" /\ AdapterActs
    \/ which = "health" /\ HealthActs
    \/ which = "symbols" /\ SymbolActs
    \/ which = "connecting" /\ ConnectActs
    \/ which = "signing" /\ SigningActs
    \/ which = "evidence" /\ EvidenceActs

platformVars == <<now, which, bound, compVars>>
PlatformSpec == PlatformInit /\ [][PlatformNext]_platformVars

-----------------------------------------------------------------------------
\* A dispute pays out what it took in, the side that was right loses nothing, and the off-chain
\* arithmetic says the same.
DisputesPayRight == which = "panel" =>
    DisputeConserved /\ RightSideIsMadeWhole /\ OffChainDisputeAgrees

\* The books of the contracts that keep them for others add up: agents' bonds, the
\* directories and copy fees, the consumer's escrow.
BooksAddUp ==
    /\ which = "agents" => EveryBondAccounted
    /\ which = "directories" => DirectoriesAreExact
    /\ which = "hooks" => EscrowFollowsTheHook

\* The v1 market, and a field market like it, can pay every claim, and pays what the off-chain
\* manifest says.
ClaimsArePaid == which \in {"v1", "field"} => PotCoversClaims /\ ManifestMatchesClaims

\* The boards and the chain agree on bets, but for what somebody was told.
BoardsAreHonest == which \in {"bets", "tickets"} =>
    BoardsShowOnlyEscrows /\ MissedEscrowsAreKnown /\ OnePaymentOneBet

\* A created market was paid for once, and is on the boards if and only if it is on chain, but
\* for what nobody could know.
CreationIsHonest == which = "creation" => BondBuysOneMarket /\ CreatedMarketsAreOnChain

\* A visitor's session, bets, bonds, wallets and signatures are what the pages said they were.
VisitorsAreServed ==
    /\ which = "signing in" => DialogHasAnEnd
    /\ which = "betting" => StakesAreTheVisitors /\ EscrowsAreFollowed /\ WalletWasAsked
    /\ which = "creating" => OneBondPerPreview
    /\ which = "connecting" => RouteCanWork /\ DemoIsTheLastResort /\ AnswerIsHeard /\ ShownAccountIsBacked
    /\ which = "signing" => RefusalsAreNews /\ SignersOweThemselves

\* What the deployment commands leave on chain is what they were run for.
DeploymentIsWhole ==
    /\ which = "catalogue" => NoTwins /\ HalfMadeIsKnown /\ SeededOnce /\ BudgetedRunsFinish
    /\ which = "fielding" => FrozenFieldIsPublished /\ SettledFieldIsExplained

\* What the services beside the pages promise those who call them: the paid reads, the bot that
\* bets on a message, the adapter that builds and follows every transaction.
ServicesAreHonest ==
    /\ which = "queries" => OneWireOneRead /\ ReadsArePaidFor /\ HonestPayersAreRead /\ FreeTierIsBounded
    /\ which = "mentions" => OneMessageOneBet /\ RepliesAreTrue /\ AnsweredBetsAreStored
    /\ which = "adapters" => MarketsHaveOneHome /\ CreatedMarketsTakeBets /\ SignersAreThemselves /\ NobodyIsOvertold

\* What is reported is so: the boards say of the chain what the vault says of itself, the market
\* maker's book what its trades paid, the health page and the alarms what is down, the evidence
\* what was resolved, a command what its author wrote, a symbol what was drawn into it.
ReportsAreTrue ==
    /\ which = "boards" =>
          /\ BoardsShowTheVault /\ RecordsPayWhatTheVaultPays /\ SeasonsPartitionBets
          /\ EvidenceIsTrueOfTheVault /\ OneForecastCameTrue
    /\ which = "lmsr" => LmsrBookIsSound
    /\ which = "mentions" => CommandsMeanOneThing
    /\ which = "health" => OutagesAreReported /\ AlarmsAreTrue /\ TreasuryMatchesPlan /\ LoopOutagesShow
    /\ which = "evidence" =>
          PublicMarketsAreDecidable /\ AuditsAreExact /\ EvidenceNamesThePayout /\ AnchorsHold /\ AnswersHaveAuthority
    /\ which = "symbols" => SymbolReadsBack /\ GeometryFits
=============================================================================
