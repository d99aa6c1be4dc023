----------------------------- MODULE PlatformProofs -----------------------------
(***************************************************************************)
(* The composition of the components, proved: each behaviour of the        *)
(* platform runs one of them and leaves the others alone, so that what was *)
(* proved of a component's own specification holds of the platform.  The   *)
(* invariant of the platform is the component invariants, each while its   *)
(* component runs; a step of the platform is one of the component, or time *)
(* going on, or touches nothing of it.                                     *)
(***************************************************************************)
EXTENDS MCPlatform, ContractProofs, FlowProofs, ServiceProofs

-----------------------------------------------------------------------------
(***************************************************************************)
(* Who moves                                                               *)
(***************************************************************************)

ContractsOnly == \E c \in {"panel", "agents", "hooks", "v1", "field", "directories", "lmsr"} : Only(c)
FlowsOnly == \E c \in {"bets", "tickets", "creation", "fleet"} : Only(c)
PagesOnly == \E c \in {"signing in", "betting", "creating", "catalogue", "fielding", "connecting", "signing"} : Only(c)
ServicesOnly == \E c \in {"boards", "queries", "mentions", "adapters", "health", "evidence", "symbols"} : Only(c)

LEMMA ContractsMoveAlone ==
    ASSUME PanelActs \/ AgentActs \/ HookActs \/ V1Acts \/ FieldActs \/ DirectoryActs \/ LmsrActs
    PROVE  ContractsOnly
<1> USE DEF ContractsOnly, Free, Costs
<1>1. CASE PanelActs
    BY <1>1, ZenonT(40) DEF PanelActs
<1>2. CASE AgentActs
    BY <1>2, ZenonT(40) DEF AgentActs
<1>3. CASE HookActs
    BY <1>3, ZenonT(40) DEF HookActs
<1>4. CASE V1Acts
    BY <1>4, ZenonT(40) DEF V1Acts
<1>5. CASE FieldActs
    BY <1>5, ZenonT(40) DEF FieldActs
<1>6. CASE DirectoryActs
    BY <1>6, ZenonT(40) DEF DirectoryActs
<1>7. CASE LmsrActs
    BY <1>7, ZenonT(40) DEF LmsrActs
<1> QED
    BY <1>1, <1>2, <1>3, <1>4, <1>5, <1>6, <1>7

LEMMA FlowsMoveAlone ==
    ASSUME BetActs \/ CreationActs \/ FleetActs
    PROVE  FlowsOnly
<1> USE DEF FlowsOnly, Free, Costs
<1>1. CASE BetActs
    BY <1>1, ZenonT(40) DEF BetActs
<1>2. CASE CreationActs
    BY <1>2, ZenonT(40) DEF CreationActs
<1>3. CASE FleetActs
    BY <1>3, ZenonT(40) DEF FleetActs
<1> QED
    BY <1>1, <1>2, <1>3

LEMMA PagesMoveAlone ==
    ASSUME \/ SessionActs \/ SigningInActs \/ BettingActs \/ CreatingActs
           \/ CatalogueActs \/ FieldingActs \/ ConnectActs \/ SigningActs
    PROVE  PagesOnly
<1> USE DEF PagesOnly, Free, Costs
<1>1. CASE SessionActs
    BY <1>1, ZenonT(40) DEF SessionActs
<1>2. CASE SigningInActs
    BY <1>2, ZenonT(40) DEF SigningInActs
<1>3. CASE BettingActs
    BY <1>3, ZenonT(40) DEF BettingActs
<1>4. CASE CreatingActs
    BY <1>4, ZenonT(40) DEF CreatingActs
<1>5. CASE CatalogueActs
    BY <1>5, ZenonT(40) DEF CatalogueActs
<1>6. CASE FieldingActs
    BY <1>6, ZenonT(40) DEF FieldingActs
<1>7. CASE ConnectActs
    BY <1>7, ZenonT(40) DEF ConnectActs
<1>8. CASE SigningActs
    BY <1>8, ZenonT(40) DEF SigningActs
<1> QED
    BY <1>1, <1>2, <1>3, <1>4, <1>5, <1>6, <1>7, <1>8, ZenonT(40)

LEMMA ServicesMoveAlone ==
    ASSUME \/ BoardActs \/ QueryActs \/ MentionActs \/ AdapterActs
           \/ HealthActs \/ EvidenceActs \/ SymbolActs
    PROVE  ServicesOnly
<1> USE DEF ServicesOnly, Free, Costs
<1>1. CASE BoardActs
    BY <1>1, ZenonT(40) DEF BoardActs
<1>2. CASE QueryActs
    BY <1>2, ZenonT(40) DEF QueryActs
<1>3. CASE MentionActs
    BY <1>3, ZenonT(40) DEF MentionActs
<1>4. CASE AdapterActs
    BY <1>4, ZenonT(40) DEF AdapterActs
<1>5. CASE HealthActs
    BY <1>5, ZenonT(40) DEF HealthActs
<1>6. CASE EvidenceActs
    BY <1>6, ZenonT(40) DEF EvidenceActs
<1>7. CASE SymbolActs
    BY <1>7, ZenonT(40) DEF SymbolActs
<1> QED
    BY <1>1, <1>2, <1>3, <1>4, <1>5, <1>6, <1>7

\* A behaviour runs one component for good.
LEMMA OneComponentRuns ==
    ASSUME PlatformNext
    PROVE  TimeGoesOn \/ ContractsOnly \/ FlowsOnly \/ PagesOnly \/ ServicesOnly
BY ContractsMoveAlone, FlowsMoveAlone, PagesMoveAlone, ServicesMoveAlone, ZenonT(40) DEF PlatformNext

LEMMA WhichStays == ASSUME PlatformNext PROVE which' = which
BY OneComponentRuns, ZenonT(40) DEF TimeGoesOn, ContractsOnly, FlowsOnly, PagesOnly, ServicesOnly, Only

-----------------------------------------------------------------------------
(***************************************************************************)
(* The platform's invariant, one component at a time                       *)
(***************************************************************************)

PanelPart == which = "panel" => PanelInv
AgentsPart == which = "agents" => RegistryInv /\ BondsHeld
HooksPart == which = "hooks" => HookInv /\ FundsHeld
DirectoriesPart == which = "directories" => DirectoryInv
MarketPart == which \in {"v1", "field"} => MarketInv
BetsPart == which \in {"bets", "tickets"} => BetInv
CreationPart == which = "creation" => CreationInv

CataloguePart == which = "catalogue" => DriverInv
FieldingPart == which = "fielding" => FieldDriverInv

SessionPart == which = "signing in" => SessionInv
BettingPart == which = "betting" => SessionInv /\ BetPanelInv
FormPart == which = "creating" => FormInv
ConnectPart == which = "connecting" => ConnectorInv
SigningPart == which = "signing" => DoorsInv

QueriesPart == which = "queries" => QueriesInv
MentionsPart == which = "mentions" => MentionsInv
AdapterPart == which = "adapters" => AdapterInv

LEMMA StepOfPanel == ASSUME PlatformNext, which = "panel" PROVE PanelNext
<1>1. CASE TimeGoesOn
    BY <1>1, ZenonT(40) DEF TimeGoesOn, compVars, PanelNext, PanelTick
<1>2. CASE PanelActs
    <2>1. PanelActs
        BY <1>2
    <2> QED
        BY <2>1, TheFirstDispute, ZenonT(40) DEF PanelActs, PanelNext
<1> QED
    BY <1>1, <1>2 DEF PlatformNext

LEMMA StepOfAgents == ASSUME PlatformNext, which = "agents" PROVE RegistryNext
<1>1. CASE TimeGoesOn
    BY <1>1, ZenonT(40) DEF TimeGoesOn, compVars, RegistryNext, RegistryTick
<1>2. CASE AgentActs
    BY <1>2, ZenonT(40) DEF AgentActs, RegistryNext
<1> QED
    BY <1>1, <1>2 DEF PlatformNext

LEMMA StepOfHooks == ASSUME PlatformNext, which = "hooks" PROVE HookNext
<1>1. ~TimeGoesOn
    BY DEF TimeGoesOn
<1>2. HookActs
    BY <1>1 DEF PlatformNext
<1> QED
    BY <1>2, ZenonT(40) DEF HookActs, HookNext

LEMMA StepOfDirectories == ASSUME PlatformNext, which = "directories" PROVE RegistriesNext
<1>1. ~TimeGoesOn
    BY DEF TimeGoesOn
<1>2. DirectoryActs
    BY <1>1 DEF PlatformNext
<1> QED
    BY <1>2, ZenonT(40) DEF DirectoryActs, RegistriesNext

LEMMA StepOfMarket == ASSUME PlatformNext, which = "v1" PROVE MarketNext
<1>1. CASE TimeGoesOn
    BY <1>1, ZenonT(40) DEF TimeGoesOn, compVars, fieldVars, MarketNext
<1>2. CASE V1Acts
    BY <1>2, ZenonT(40) DEF V1Acts, MarketNext
<1> QED
    BY <1>1, <1>2 DEF PlatformNext

LEMMA StepOfField == ASSUME PlatformNext, which = "field" PROVE FieldNext
<1>1. CASE TimeGoesOn
    BY <1>1, ZenonT(40) DEF TimeGoesOn, compVars, FieldNext
<1>2. CASE FieldActs
    BY <1>2, ZenonT(40) DEF FieldActs, FieldNext
<1> QED
    BY <1>1, <1>2 DEF PlatformNext

LEMMA StepOfBets == ASSUME PlatformNext, which \in {"bets", "tickets"} PROVE BetNext
<1>1. ~TimeGoesOn
    BY DEF TimeGoesOn
<1>2. BetActs
    BY <1>1 DEF PlatformNext
<1> QED
    BY <1>2, ZenonT(40) DEF BetActs, BetNext

LEMMA StepOfCreation == ASSUME PlatformNext, which = "creation" PROVE CreationNext
<1>1. ~TimeGoesOn
    BY DEF TimeGoesOn
<1>2. CreationActs
    BY <1>1 DEF PlatformNext
<1> QED
    BY <1>2, ZenonT(40) DEF CreationActs, CreationNext

LEMMA StepOfCatalogue == ASSUME PlatformNext, which = "catalogue" PROVE DriverNext
<1>1. ~TimeGoesOn
    BY DEF TimeGoesOn
<1>2. CatalogueActs
    BY <1>1 DEF PlatformNext
<1> QED
    BY <1>2, ZenonT(40) DEF CatalogueActs, DriverNext

LEMMA StepOfFielding == ASSUME PlatformNext, which = "fielding" PROVE FieldDriverNext
<1>1. ~TimeGoesOn
    BY DEF TimeGoesOn
<1>2. FieldingActs
    BY <1>1 DEF PlatformNext
<1> QED
    BY <1>2, ZenonT(40) DEF FieldingActs, FieldDriverNext

\* A reload takes the whole page, the session with it.
LEMMA StepOfSession == ASSUME PlatformNext, which = "signing in" PROVE SessionStep \/ ConnectStep \/ reloaded
<1>1. ~TimeGoesOn
    BY ZenonT(40) DEF TimeGoesOn
<1>2. SessionActs \/ SigningInActs
    BY <1>1 DEF PlatformNext
<1>3. {w2, Demo, Nobody} \subseteq WalletKeys \cup {Demo, Nobody}
    BY TheVisitorsKeys, ZenonT(40)
<1>4. CASE SessionActs
    BY <1>3, <1>4, ZenonT(40) DEF SessionActs, SessionStep
<1>5. CASE SigningInActs
    BY <1>5, ZenonT(40) DEF SigningInActs, ConnectStep, Reload
<1> QED
    BY <1>2, <1>4, <1>5, ZenonT(40)

LEMMA StepOfBetting ==
    ASSUME PlatformNext, which = "betting"
    PROVE  BetPanelStep \/ Reload \/ (SessionStep /\ UNCHANGED betPanelVars)
<1>1. ~TimeGoesOn
    BY ZenonT(40) DEF TimeGoesOn
<1>2. SessionActs \/ BettingActs
    BY <1>1 DEF PlatformNext
<1>3. {w2, Demo, Nobody} \subseteq WalletKeys \cup {Demo, Nobody}
    BY TheVisitorsKeys, ZenonT(40)
<1>4. CASE SessionActs
    BY <1>3, <1>4, ZenonT(40) DEF SessionActs, SessionStep
<1>5. CASE BettingActs
    BY <1>5, ZenonT(40) DEF BettingActs, BetPanelStep
<1> QED
    BY <1>2, <1>4, <1>5, ZenonT(40)

LEMMA StepOfCreating ==
    ASSUME PlatformNext, which = "creating"
    PROVE  FormStep \/ Reload \/ UNCHANGED <<createPageVars, mute>>
<1>1. ~TimeGoesOn
    BY DEF TimeGoesOn
<1>2. CreatingActs
    BY <1>1 DEF PlatformNext
<1> QED
    BY <1>2, ZenonT(40) DEF CreatingActs, FormStep

LEMMA StepOfConnecting == ASSUME PlatformNext, which = "connecting" PROVE ConnectorNext
<1>1. ~TimeGoesOn
    BY DEF TimeGoesOn
<1>2. ConnectActs
    BY <1>1 DEF PlatformNext
<1> QED
    BY <1>2, ZenonT(40) DEF ConnectActs, ConnectorNext

LEMMA StepOfSigning == ASSUME PlatformNext, which = "signing" PROVE DoorsNext
<1>1. ~TimeGoesOn
    BY DEF TimeGoesOn
<1>2. SigningActs
    BY <1>1 DEF PlatformNext
<1> QED
    BY <1>2, ZenonT(40) DEF SigningActs, DoorsNext

\* A caller presents a wire for a topic, or no proof.
LEMMA WhatIsAsked ==
    ASSUME NEW g \in Asks
    PROVE  /\ g[1] \in Servers /\ g[2] \in Callers /\ g[3] \in Topics
           /\ g[4] \in {NoProof} \cup [wire : Wires, nonce : Topics \X Callers]
<1> DEFINE own(w, c, topic) == [wire |-> w, nonce |-> quoteNonce(topic, c)]
<1>1. /\ {"s1", "s2"} \subseteq Servers /\ {"ann", "bob"} \subseteq Callers /\ {"odds", "gone"} \subseteq Topics
      /\ {"pay", "call"} \subseteq Wires
    BY TheServicesCalled
<1>2. ASSUME NEW w \in {"pay", "call"}, NEW c \in {"ann", "bob"}, NEW topic \in {"odds", "gone"}
      PROVE  own(w, c, topic) \in [wire : Wires, nonce : Topics \X Callers]
    BY <1>1, <1>2 DEF quoteNonce
<1>3. \/ g = <<"s1", "ann", "odds", NoProof>>
      \/ \E s \in {"s1", "s2"}, c \in {"ann", "bob"}, t \in {"odds", "gone"}, u \in {"odds", "gone"}, w \in {"pay", "call"} :
            g = <<s, c, t, own(w, c, u)>>
    BY Zenon DEF Asks
<1> HIDE DEF own
<1>4. CASE g = <<"s1", "ann", "odds", NoProof>>
    BY <1>1, <1>4
<1>5. ASSUME NEW s \in {"s1", "s2"}, NEW c \in {"ann", "bob"}, NEW t \in {"odds", "gone"}, NEW u \in {"odds", "gone"},
             NEW w \in {"pay", "call"}, g = <<s, c, t, own(w, c, u)>>
      PROVE  /\ g[1] \in Servers /\ g[2] \in Callers /\ g[3] \in Topics
             /\ g[4] \in {NoProof} \cup [wire : Wires, nonce : Topics \X Callers]
    BY <1>1, <1>2, <1>5
<1> QED
    BY <1>3, <1>4, <1>5

LEMMA StepOfQueries == ASSUME PlatformNext, which = "queries" PROVE QueriesNext
<1>1. CASE TimeGoesOn
    BY <1>1, ZenonT(40) DEF TimeGoesOn, compVars, QueriesNext
<1>2. CASE QueryActs
    <2>1. UNCHANGED now
        BY <1>2, ServicesMoveAlone, WhichStays, ZenonT(40) DEF QueryActs, Free, Costs, Only
    <2>2. QueryMoves
        <3>1. CASE \E g \in Asks : Ask(g[1], g[2], g[3], g[4])
            BY <3>1, WhatIsAsked, ZenonT(40) DEF QueryMoves
        <3>2. CASE \/ \E i \in DOMAIN queries : ReadNode(i) \/ Burn(i) \/ AnswerQuery(i)
                   \/ \E w \in Wires : WireMoves(w)
                   \/ ServerDies("s1")
            BY <3>2, TheServicesCalled, ZenonT(40) DEF QueryMoves
        <3> QED
            BY <1>2, <3>1, <3>2, ZenonT(40) DEF QueryActs
    <2> QED
        BY <2>1, <2>2 DEF QueriesNext
<1> QED
    BY <1>1, <1>2 DEF PlatformNext

LEMMA StepOfMentions == ASSUME PlatformNext, which = "mentions" PROVE MentionsNext
<1>1. ~TimeGoesOn
    BY DEF TimeGoesOn
<1>2. MentionActs
    BY <1>1 DEF PlatformNext
<1>3. "b1" \in Bots
    BY TheServicesCalled
<1> QED
    BY <1>2, <1>3, ZenonT(40) DEF MentionActs, MentionsNext

LEMMA StepOfAdapter == ASSUME PlatformNext, which = "adapters" PROVE AdapterNext
<1>1. ~TimeGoesOn
    BY DEF TimeGoesOn
<1>2. AdapterActs
    BY <1>1 DEF PlatformNext
<1>3. "fresh" \in Listings
    BY TheServicesCalled
<1> QED
    BY <1>2, <1>3, ZenonT(40) DEF AdapterActs, AdapterNext

PlatformInv ==
    /\ PanelPart /\ AgentsPart /\ HooksPart /\ DirectoriesPart /\ MarketPart
    /\ BetsPart /\ CreationPart /\ FleetInv
    /\ CataloguePart /\ FieldingPart
    /\ SessionPart /\ BettingPart /\ FormPart /\ ConnectPart /\ SigningPart
    /\ QueriesPart /\ MentionsPart /\ AdapterPart

LEMMA PlatformInitInv == PlatformInit => PlatformInv
<1> SUFFICES ASSUME PlatformInit PROVE PlatformInv
    OBVIOUS
<1>1. /\ now = 0 /\ PanelInit /\ RegistryInit /\ HookInit /\ RegistriesInit /\ BetInit /\ CreationInit
      /\ SomeFleetInit \/ FleetInit
    BY ZenonT(40) DEF PlatformInit
<1>2. MarketPart
    <2>1. which \in {"v1", "field"} => MarketInit({"home", "away"}) \/ MarketInit({})
        BY ZenonT(40) DEF PlatformInit, MarketsInit, FieldInit
    <2> QED
        BY <2>1, MarketInitInv, ZenonT(40) DEF MarketPart
<1>3. FleetInv
    BY <1>1, FleetStartsClean DEF SomeFleetInit, FleetInit
<1>4. PanelPart /\ AgentsPart /\ HooksPart /\ DirectoriesPart /\ BetsPart /\ CreationPart
    BY <1>1, PanelInitInv, RegistryInitInv, BondsHeldInit, HookInitInv, FundsHeldInit, DirectoryInitInv,
       BetsStartClean, CreationStartsClean
       DEF PanelPart, AgentsPart, HooksPart, DirectoriesPart, BetsPart, CreationPart
<1>5. CataloguePart
    <2>1. DriverInit
        BY ZenonT(40) DEF PlatformInit
    <2> QED
        BY <2>1, DriverInitInv DEF CataloguePart
<1>6. FieldingPart
    <2>1. which = "fielding" => FieldInit /\ FieldDriverInit
        BY ZenonT(40) DEF PlatformInit, MarketsInit
    <2> QED
        BY <2>1, FieldDriverInitInv DEF FieldingPart
<1>7. SessionPart /\ BettingPart /\ FormPart /\ ConnectPart /\ SigningPart
    <2>1. PagesInit /\ ConnectorInit /\ DoorsInit
        BY ZenonT(40) DEF PlatformInit
    <2>2. which = "signing in" => WalletInit
        BY ZenonT(40) DEF PlatformInit
    <2>3. which = "betting" => \E k \in WalletKeys : SignedIn(k)
        BY TheVisitorsKeys, ZenonT(40) DEF PlatformInit
    <2> QED
        BY <2>1, <2>2, <2>3, SessionStartsTyped, PanelStarts, FormStarts, ConnectorStarts, DoorsStart, ZenonT(40)
           DEF SessionPart, BettingPart, FormPart, ConnectPart, SigningPart
<1>8. QueriesPart /\ MentionsPart /\ AdapterPart
    <2>1. QueriesInit /\ MentionsInit /\ AdapterInit
        BY ZenonT(40) DEF PlatformInit
    <2> QED
        BY <1>1, <2>1, QueriesStart, MentionsStart, AdapterStarts DEF QueriesPart, MentionsPart, AdapterPart
<1> QED
    BY <1>2, <1>3, <1>4, <1>5, <1>6, <1>7, <1>8 DEF PlatformInv

\* The contracts' parts: a step of the platform is a step of the one that runs.
LEMMA ContractsKeepInv ==
    ASSUME PlatformInv, PlatformNext
    PROVE  PanelPart' /\ AgentsPart' /\ HooksPart' /\ DirectoriesPart' /\ MarketPart'
<1> USE WhichStays DEF PlatformInv
<1>1. PanelPart'
    BY StepOfPanel, PanelNextInv DEF PanelPart
<1>2. AgentsPart'
    BY StepOfAgents, RegistryNextInv, BondsHeldNext DEF AgentsPart
<1>3. HooksPart'
    BY StepOfHooks, HookNextInv, FundsHeldNext DEF HooksPart
<1>4. DirectoriesPart'
    BY StepOfDirectories, DirectoryNextInv DEF DirectoriesPart
<1>5. MarketPart'
    BY StepOfMarket, StepOfField, MarketNextInv, FieldKeepsMarketInv DEF MarketPart
<1> QED
    BY <1>1, <1>2, <1>3, <1>4, <1>5

LEMMA FlowsKeepInv ==
    ASSUME PlatformInv, PlatformNext
    PROVE  BetsPart' /\ CreationPart'
<1> USE WhichStays DEF PlatformInv
<1>1. BetsPart'
    BY StepOfBets, BetStepsKeepInv DEF BetsPart
<1>2. CreationPart'
    BY StepOfCreation, CreationStepsKeepInv DEF CreationPart
<1> QED
    BY <1>1, <1>2

LEMMA DeploymentKeepsInv ==
    ASSUME PlatformInv, PlatformNext
    PROVE  CataloguePart' /\ FieldingPart'
<1> USE WhichStays DEF PlatformInv
<1>1. CataloguePart'
    BY StepOfCatalogue, DriverNextInv DEF CataloguePart
<1>2. FieldingPart'
    BY StepOfFielding, FieldStepsKeepInv DEF FieldingPart
<1> QED
    BY <1>1, <1>2

LEMMA PagesKeepInv ==
    ASSUME PlatformInv, PlatformNext
    PROVE  SessionPart' /\ BettingPart' /\ FormPart' /\ ConnectPart' /\ SigningPart'
<1> USE WhichStays DEF PlatformInv
<1>1. SessionPart'
    BY StepOfSession, WalletKeepsSession, AttemptsKeepSession, ReloadKeepsSession, ZenonT(40) DEF SessionPart
<1>2. BettingPart'
    <2>1. ASSUME SessionInv, BetPanelInv, BetPanelStep PROVE SessionInv' /\ BetPanelInv'
        <3>1. BettingCloses => UNCHANGED walletVars /\ UNCHANGED <<bet, payer, fate, onBoards, unindexed>>
            BY ZenonT(40) DEF BettingCloses
        <3>2. UNCHANGED walletVars => provider' = provider
            BY ZenonT(40) DEF walletVars
        <3>3. BettingCloses => SessionInv' /\ BetPanelInv'
            BY <2>1, <3>1, <3>2, SessionStutters, SessionKeepsPanel
        <3> QED
            BY <2>1, <3>3, PanelKeepsSession, PressKeepsPanel, EscrowKeepsPanel DEF BetPanelStep
    <2>2. ASSUME SessionInv, BetPanelInv, SessionStep, UNCHANGED betPanelVars PROVE SessionInv' /\ BetPanelInv'
        BY <2>2, WalletKeepsSession, ProviderStaysLive, SessionKeepsPanel DEF betPanelVars
    <2>3. ASSUME SessionInv, BetPanelInv, Reload PROVE SessionInv' /\ BetPanelInv'
        BY <2>3, ReloadKeepsSession, ReloadKeepsPanel DEF Reload
    <2> QED
        BY <2>1, <2>2, <2>3, StepOfBetting DEF BettingPart
<1>3. FormPart'
    BY StepOfCreating, FormKeepsInv, ReloadKeepsForm, FormStutters DEF FormPart
<1>4. ConnectPart'
    BY StepOfConnecting, ConnectorKeepsInv DEF ConnectPart
<1>5. SigningPart'
    BY StepOfSigning, DoorsKeepInv DEF SigningPart
<1> QED
    BY <1>1, <1>2, <1>3, <1>4, <1>5

LEMMA ServicesKeepInv ==
    ASSUME PlatformInv, PlatformNext
    PROVE  QueriesPart' /\ MentionsPart' /\ AdapterPart'
<1> USE WhichStays DEF PlatformInv
<1>1. QueriesPart'
    BY StepOfQueries, QueriesKeepInv DEF QueriesPart
<1>2. MentionsPart'
    BY StepOfMentions, MentionsKeepInv DEF MentionsPart
<1>3. AdapterPart'
    BY StepOfAdapter, AdapterKeepsInv DEF AdapterPart
<1> QED
    BY <1>1, <1>2, <1>3

\* The fleet moves in its own runs, and in those of the health report, which also log what others
\* did; nothing else touches it.
LEMMA FleetKeepsInv ==
    ASSUME PlatformInv, PlatformNext
    PROVE  FleetInv'
<1>0. FleetInv
    BY DEF PlatformInv
<1>1. CASE UNCHANGED fleetVars
    BY <1>0, <1>1, FleetStepsKeepInv
<1>2. CASE FleetActs
    <2>1. \/ \E read \in BOOLEAN : StartTick(read, FALSE, {}, {})
          \/ \E reset \in BOOLEAN, released \in {{}, quarantined} : \E fixed \in SUBSET released :
                StartTick(TRUE, reset, released, fixed)
          \/ DecideBetting \/ \E near \in SUBSET (Range(Board) \cap {coin}) : ChooseMarket(near)
          \/ \E p \in Names : SitsOut(p) \/ Places(p) \/ DiesInTurn(p) \/ \E named \in BOOLEAN : DoesNotPlace(p, named)
          \/ \E n \in {0, 1} : EndTick(n, TRUE)
          \/ EndTick(0, FALSE) \/ FlushLands \/ Rereads \/ InstanceDies \/ Refill
        BY <1>2, ZenonT(40) DEF FleetActs
    <2>2. 0 \in Nat /\ 1 \in Nat /\ TRUE \in BOOLEAN /\ FALSE \in BOOLEAN
        OBVIOUS
    <2>3. (\E near \in SUBSET (Range(Board) \cap {coin}) : ChooseMarket(near))
             => \E near \in SUBSET Range(Board) : ChooseMarket(near)
        OBVIOUS
    <2> QED
        BY <1>0, <2>1, <2>2, <2>3, StartTickKeepsInv, ChoosingKeepsInv, AgentsKeepInv, DyingInTurnKeepsInv,
           PlatformKeepsFleet
<1>3. CASE HealthActs
    <2>1. \/ StartTick(TRUE, FALSE, {}, {})
          \/ DecideBetting \/ ChooseMarket({})
          \/ \E p \in Names : SitsOut(p) \/ Places(p) \/ \E named \in BOOLEAN : DoesNotPlace(p, named)
          \/ \E kind, agent, market : Logs(kind, agent, market)
          \/ HourPasses
        BY <1>3, ZenonT(40) DEF HealthActs, PlacesAndLogs
    <2>2. ASSUME NEW kind, NEW agent, NEW market, Logs(kind, agent, market) PROVE FleetInv'
        <3>1. /\ counter' = counter + 1
              /\ UNCHANGED <<failures, tripped, quarantined, storedBreaker, turn, strandedRun, strandedOn, lapses>>
            BY <2>2 DEF Logs, losses
        <3>2. counter' \in Nat
            BY <1>0, <3>1 DEF FleetInv, FleetTypeOK
        <3> QED
            BY <1>0, <3>1, <3>2, FleetStutters
    <2>3. HourPasses => UNCHANGED fleetVars
        BY DEF HourPasses
    <2>4. TRUE \in BOOLEAN /\ FALSE \in BOOLEAN /\ {} \in SUBSET Range(Board)
        OBVIOUS
    <2>5. StartTick(TRUE, FALSE, {}, {}) => FleetInv'
        BY <1>0, <2>4, StartTickKeepsInv
    <2>6. DecideBetting \/ ChooseMarket({}) => FleetInv'
        BY <1>0, <2>4, ChoosingKeepsInv
    <2> QED
        BY <1>0, <1>1, <2>1, <2>2, <2>3, <2>5, <2>6, AgentsKeepInv
<1>4. UNCHANGED fleetVars \/ which \in {"fleet", "health"}
    <2>1. CASE TimeGoesOn
        BY <2>1, ZenonT(40) DEF TimeGoesOn, compVars
    <2>2. ASSUME NEW c, Only(c) PROVE UNCHANGED fleetVars \/ which \in {"fleet", "health"}
        BY <2>2, ZenonT(40) DEF Only
    <2> QED
        BY <2>1, <2>2, OneComponentRuns, ZenonT(40) DEF ContractsOnly, FlowsOnly, PagesOnly, ServicesOnly
<1>5. which = "fleet" => FleetActs
    BY DEF PlatformNext, TimeGoesOn
<1>6. which = "health" => HealthActs
    BY DEF PlatformNext, TimeGoesOn
<1> QED
    BY <1>1, <1>2, <1>3, <1>4, <1>5, <1>6

LEMMA PlatformStutters == PlatformInv /\ UNCHANGED platformVars => PlatformInv'
<1> SUFFICES ASSUME PlatformInv, UNCHANGED platformVars PROVE PlatformInv'
    OBVIOUS
<1> USE DEF PlatformInv
<1>1. /\ which' = which /\ now' = now
      /\ UNCHANGED <<panelVars, registryVars, hookVars, fieldVars, registriesVars, betVars, creationVars, fleetVars>>
    BY ZenonT(40) DEF platformVars, compVars
<1>2. marketVars' = marketVars
    BY <1>1 DEF fieldVars
<1>3. PanelPart' /\ DirectoriesPart' /\ MarketPart' /\ BetsPart' /\ CreationPart'
    BY <1>1, <1>2, PanelNextInv, DirectoryNextInv, MarketNextInv, BetStepsKeepInv, CreationStepsKeepInv
       DEF PanelPart, DirectoriesPart, MarketPart, BetsPart, CreationPart
<1>4. BondsHeld => BondsHeld'
    BY <1>1 DEF registryVars, BondsHeld, bonds
<1>5. FundsHeld => FundsHeld'
    BY <1>1 DEF hookVars, FundsHeld, unsettled
<1>6. AgentsPart' /\ HooksPart'
    BY <1>1, <1>4, <1>5, RegistryNextInv, HookNextInv DEF AgentsPart, HooksPart
<1>7. FleetInv'
    BY <1>1, FleetStepsKeepInv
<1>8. UNCHANGED driverVars /\ UNCHANGED fieldDriverVars
    BY ZenonT(40) DEF platformVars, compVars
<1>9. CataloguePart' /\ FieldingPart'
    <2>1. DriverNext /\ FieldDriverNext
        BY <1>1, <1>8, ZenonT(40) DEF DriverNext, FieldDriverNext
    <2> QED
        BY <1>1, <2>1, DriverNextInv, FieldStepsKeepInv DEF CataloguePart, FieldingPart
<1>10. UNCHANGED visitorVars /\ UNCHANGED connectorVars /\ UNCHANGED doorVars
    BY ZenonT(40) DEF platformVars, compVars
<1>11. SessionPart' /\ BettingPart' /\ FormPart' /\ ConnectPart' /\ SigningPart'
    <2>1. UNCHANGED walletVars /\ UNCHANGED <<createPageVars, mute>>
        BY <1>10 DEF visitorVars
    <2> QED
        BY <1>1, <1>10, <2>1, SessionStutters, PanelStutters, FormStutters, ConnectorStutters, DoorsStutter
           DEF SessionPart, BettingPart, FormPart, ConnectPart, SigningPart
<1>12. UNCHANGED queryVars /\ UNCHANGED mentionVars /\ UNCHANGED adapterVars
    BY ZenonT(40) DEF platformVars, compVars
<1>13. QueriesPart' /\ MentionsPart' /\ AdapterPart'
    <2>1. QueriesInv => QueriesInv'
        BY <1>1, <1>12, QueriesKeepInv
    <2> QED
        BY <1>1, <1>12, <2>1, MentionsKeepInv, AdapterKeepsInv DEF QueriesPart, MentionsPart, AdapterPart
<1> QED
    BY <1>3, <1>6, <1>7, <1>9, <1>11, <1>13

LEMMA PlatformInvariance == PlatformSpec => []PlatformInv
<1>1. PlatformInv /\ [PlatformNext]_platformVars => PlatformInv'
    BY PlatformStutters, ContractsKeepInv, FlowsKeepInv, DeploymentKeepsInv, PagesKeepInv,
       ServicesKeepInv, FleetKeepsInv DEF PlatformInv
<1> QED
    BY <1>1, PlatformInitInv, PTL DEF PlatformSpec

-----------------------------------------------------------------------------
\* In any behaviour of the platform a dispute pays out what it took in, the right side loses
\* nothing, and the off-chain arithmetic agrees with the contract's.
THEOREM PlatformDisputesPayRight == PlatformSpec => []DisputesPayRight
<1>1. PlatformInv => DisputesPayRight
    BY PanelInvConserves, PanelInvMakesWhole, PanelInvAgrees DEF PlatformInv, PanelPart, DisputesPayRight
<1> QED
    BY <1>1, PlatformInvariance, PTL

\* The bonds, the directories, the copy fees and the consumer's escrow always add up.
THEOREM PlatformBooksAddUp == PlatformSpec => []BooksAddUp
<1>1. RegistryInv /\ BondsHeld => EveryBondAccounted
    BY DEF RegistryInv, BondsHeld, bonds, EveryBondAccounted
<1>2. PlatformInv => BooksAddUp
    BY <1>1, FundsAreTheFunded, DirectoryInvExact DEF PlatformInv, AgentsPart, HooksPart, DirectoriesPart, BooksAddUp
<1> QED
    BY <1>2, PlatformInvariance, PTL

\* A market of either kind covers the claims still due, and pays what the off-chain manifest says.
THEOREM PlatformClaimsArePaid == PlatformSpec => []ClaimsArePaid
<1>1. PlatformInv => ClaimsArePaid
    BY MarketInvCovers, MarketInvMatches DEF PlatformInv, MarketPart, ClaimsArePaid
<1> QED
    BY <1>1, PlatformInvariance, PTL

\* The boards show escrows, once each, and miss only those somebody knows of.
THEOREM PlatformBoardsAreHonest == PlatformSpec => []BoardsAreHonest
<1>1. PlatformInv => BoardsAreHonest
    BY BetInvBacks, BetInvMissed, BetInvOnePayment DEF PlatformInv, BetsPart, BoardsAreHonest
<1> QED
    BY <1>1, PlatformInvariance, PTL

\* A created market was paid for once, and the boards list it if and only if the chain holds it,
\* but for what nobody could know.
THEOREM PlatformCreationIsHonest == PlatformSpec => []CreationIsHonest
<1>1. PlatformInv => CreationIsHonest
    BY CreationInvBuysOne, CreationInvIsOnChain DEF PlatformInv, CreationPart, CreationIsHonest
<1> QED
    BY <1>1, PlatformInvariance, PTL

\* What the deployment commands leave on chain is what they were run for, whatever transaction of
\* theirs is refused, reverts or dies with its process, and the money is there for it.
THEOREM PlatformDeploysWhole == PlatformSpec => []DeploymentIsWhole
<1>1. PlatformInv => DeploymentIsWhole
    BY DriverInvIsWhole, FieldDriverInvHolds DEF PlatformInv, CataloguePart, FieldingPart, DeploymentIsWhole
<1> QED
    BY <1>1, PlatformInvariance, PTL

\* A visitor's session, bets, bonds, wallets and signatures are what the pages said they were,
\* whoever signs in where, whatever the wallet, another tab or a reload does meanwhile, and
\* whatever the chain has become by the time it executes what was signed.
THEOREM PlatformServesVisitors == PlatformSpec => []VisitorsAreServed
<1>1. SessionInv => DialogHasAnEnd
    BY DEF SessionInv
<1>2. ConnectorInv => RouteCanWork /\ DemoIsTheLastResort /\ AnswerIsHeard /\ ShownAccountIsBacked
    BY DEF ConnectorInv
<1>3. PlatformInv => VisitorsAreServed
    BY <1>1, <1>2, PanelInvFollows, FormInvFollows, RefusalsFollow, SignersFollow, ZenonT(40)
       DEF PlatformInv, SessionPart, BettingPart, FormPart, ConnectPart, SigningPart, VisitorsAreServed
<1> QED
    BY <1>3, PlatformInvariance, PTL

\* A wire buys one read and only what moved buys it, a free tier is not overrun; a message stakes
\* once and its answer is true and kept; every transaction goes to its market's one contract, is
\* signed by its own and is told of as it went, whatever dies or is rewired in between.
THEOREM PlatformServesHonestly == PlatformSpec => []ServicesAreHonest
<1>1. PlatformInv => ServicesAreHonest
    BY QueriesInvReadsOnce, QueriesInvPaysForReads, QueriesInvReadsHonestPayers, QueriesInvBoundsTheTier,
       MentionsInvStakesOnce, MentionsInvRepliesTruly, MentionsInvStores,
       AdapterInvKeepsHomes, AdapterInvTakesBets, AdapterInvSigns, AdapterInvTells, ZenonT(40)
       DEF PlatformInv, QueriesPart, MentionsPart, AdapterPart, ServicesAreHonest
<1> QED
    BY <1>1, PlatformInvariance, PTL

\* Whatever the platform runs, the fleet's losses stay bounded.
THEOREM PlatformBoundsLosses == PlatformSpec => []LossesAreBounded
<1>1. PlatformInv => LossesAreBounded
    BY FleetInvBounds DEF PlatformInv
<1> QED
    BY <1>1, PlatformInvariance, PTL

=============================================================================
