--------------------------- MODULE WalletConnector ---------------------------
(***************************************************************************)
(* How one visit gets an account: lib/wallet-connector.ts over the         *)
(* CSPR.click SDK that config/csprclick.ts configures.  WalletSession      *)
(* keeps the session an attempt leaves; here is the attempt itself: which  *)
(* wallet the page takes to be in reach, the SDK's own way of sending a    *)
(* touch device to a download page, the account that is announced after    *)
(* connect() has returned, the accounts a phone shares, and the question   *)
(* whether CSPR.click knows the site's app id at all.                      *)
(***************************************************************************)
EXTENDS WalletSession, Sequences

CONSTANTS
    Visits,             \* the deployments, browsers and wallets considered
    Shared,             \* what a paired phone may share: accounts, Nobody for one without a key
    SettleAttempts      \* ACCOUNT_SETTLE_ATTEMPTS

CONNECT_ORDER == <<"casper-wallet", "metamask-snap", "walletconnect">>
REMOTE_ONLY_PROVIDERS == {"walletconnect"}

VARIABLES
    visit,      \* what this page finds, see VisitType
    tab,        \* the page: the SDK in it, the probe, the accounts it and the SDK hold
    login       \* the connection attempt

connectorVars == <<visit, tab, login>>

\* The ids are those configured, "none" for one that is not; issued are the ids CSPR.click
\* knows; active is the account the visitor's wallet would give, kept the one the SDK still
\* has from an earlier visit.
VisitType ==
    [network : {"testnet", "mainnet"}, testnet : STRING, mainnet : STRING, shared : STRING,
     issued : SUBSET STRING, project : BOOLEAN, injected : BOOLEAN, touch : BOOLEAN,
     inApp : BOOLEAN, metamask : BOOLEAN, asks : BOOLEAN, active : WalletKeys,
     kept : WalletKeys \cup {Nobody}]

\* A wallet's own browser carries its extension.
ASSUME VisitsArePossible == Visits \subseteq VisitType /\ \A v \in Visits : v.inApp => v.injected

\* One network's id is never used for the other.
resolveCsprClickAppId(network) ==
    IF visit[network] # "none" THEN visit[network] ELSE visit.shared

\* csprClickBootstrapScript: the id the SDK is initialised with, published on window.
bootId == resolveCsprClickAppId(visit.network)

csprClickAppId == bootId

freshTab(marked, kept) ==
    [sdk |-> "loading", probe |-> "asking", rejected |-> FALSE, newTab |-> FALSE,
     disarmed |-> FALSE, marked |-> marked, account |-> Nobody, session |-> kept]

noLogin ==
    [step |-> "idle", leg |-> "click", waited |-> FALSE, transport |-> "none", answer |-> "none",
     polls |-> 0, accounts |-> << >>, raw |-> << >>, pending |-> {}, result |-> "none"]

ConnectorInit ==
    /\ visit \in Visits
    /\ tab = freshTab(FALSE, visit.kept)
    /\ login = noLogin

-----------------------------------------------------------------------------
\* Without an id the page carries no script.  The configuration is inlined before the bundle
\* runs, so the bundle always finds the function it asks for; it may never arrive.
BundleRuns ==
    /\ tab.sdk = "loading" /\ csprClickAppId # "none"
    /\ tab' = [tab EXCEPT !.sdk = "loaded"]
    /\ UNCHANGED <<visit, login>>

\* What the registration endpoint may say of an id.
ProbeVerdicts(id) ==
    {"unauthorized", "server error", "unreachable"}
    \cup IF id \in visit.issued THEN {"ok"} ELSE {"wrong application id", "not found"}

\* Only a conclusive "no" demotes.
probeCsprClickAppId(says) ==
    /\ tab.probe = "asking" /\ csprClickAppId # "none"
    /\ says \in ProbeVerdicts(csprClickAppId)
    /\ tab' = [tab EXCEPT !.probe = "over", !.rejected = says \in {"wrong application id", "not found"}]
    /\ UNCHANGED <<visit, login>>

csprClickAvailable == tab.sdk = "loaded" /\ csprClickAppId # "none" /\ ~tab.rejected

-----------------------------------------------------------------------------
\* The SDK's IsPresent: a browser that looks like a phone counts as having the wallet, and
\* WalletConnect is always there.  A provider it does not know throws and is passed over.
isProviderPresent(p) ==
    CASE p = "casper-wallet" -> visit.injected \/ visit.touch
      [] p = "metamask-snap" -> visit.metamask
      [] OTHER -> TRUE

firstAvailableProvider(usable) ==
    LET here == {n \in usable : isProviderPresent(CONNECT_ORDER[n])}
    IN  IF here = {} THEN "none" ELSE CONNECT_ORDER[CHOOSE n \in here : \A m \in here : n <= m]

\* Without its project id WalletConnect is not offered.
detectWalletTransport ==
    IF ~visit.asks THEN "undetectable"
    ELSE firstAvailableProvider({n \in DOMAIN CONNECT_ORDER :
             visit.project \/ CONNECT_ORDER[n] \notin REMOTE_ONLY_PROVIDERS})

\* shouldRedirectToInAppBrowser, the first thing the SDK's connect() asks.
Redirects(wallet, disarmed) ==
    wallet = "casper-wallet" /\ visit.touch /\ ~visit.inApp /\ ~disarmed

\* An attempt ends; with an account, the page shows it.
ends(l, result) == [l EXCEPT !.step = "over", !.result = result]
shows(t, k) == [t EXCEPT !.account = k]

\* connect(): the wallet that is demonstrably in the page is spared the SDK's redirect.
connects(l) ==
    LET wallet == detectWalletTransport
        chosen == [l EXCEPT !.transport = wallet]
        viaExtension == wallet = "casper-wallet" /\ visit.injected
    IN  IF ~csprClickAvailable THEN login' = ends(l, "demo") /\ tab' = shows(tab, Demo)
        ELSE IF wallet = "none" THEN login' = ends(chosen, "no-wallet") /\ UNCHANGED tab
        ELSE IF wallet = "undetectable" THEN login' = [chosen EXCEPT !.step = "signing in"] /\ UNCHANGED tab
        ELSE IF wallet \in REMOTE_ONLY_PROVIDERS THEN login' = [chosen EXCEPT !.step = "pairing"] /\ UNCHANGED tab
        ELSE IF Redirects(wallet, viaExtension)
        THEN login' = [chosen EXCEPT !.step = "settling"] /\ tab' = [tab EXCEPT !.newTab = TRUE]
        ELSE login' = [chosen EXCEPT !.step = "prompting"] /\ tab' = [tab EXCEPT !.disarmed = viaExtension]

\* connectorForConnectAttempt: a click before the bundle has come waits for it, unless there
\* is nothing to wait for.
Clicks ==
    /\ login.step = "idle" /\ tab.account = Nobody
    /\ IF tab.sdk = "loading" /\ csprClickAppId # "none" /\ ~tab.rejected
       THEN login' = [login EXCEPT !.step = "waiting"] /\ UNCHANGED tab
       ELSE connects(login)
    /\ UNCHANGED visit

\* Back from the wallet's own browser: the marker goes first, whatever becomes of the attempt.
Resumes ==
    /\ tab.marked /\ login.step = "idle" /\ tab.account = Nobody
    /\ login' = [login EXCEPT !.step = "waiting", !.leg = "resume"]
    /\ tab' = [tab EXCEPT !.marked = FALSE]
    /\ UNCHANGED visit

\* whenCsprClickReady answers and the attempt goes on in the same turn.
SdkIsReady ==
    /\ login.step = "waiting" /\ csprClickAvailable
    /\ connects(login)
    /\ UNCHANGED visit

\* A click falls back to the demo account; a resume is over, never the demo.
WaitRunsOut ==
    /\ login.step = "waiting" /\ ~csprClickAvailable
    /\ IF login.leg = "resume" THEN login' = ends(login, "lost") /\ UNCHANGED tab
       ELSE connects([login EXCEPT !.waited = TRUE])
    /\ UNCHANGED visit

-----------------------------------------------------------------------------
\* The wallet's popup.  connect() resolves false for a refusal and nothing for the rest: the
\* account of an approval is announced later.  MetaMask hands its account back.
WalletAnswers(says) ==
    /\ login.step = "prompting"
    /\ says \in {"approved", "refused", "closed", "failed"}
    /\ tab' = LET undone == [tab EXCEPT !.disarmed = FALSE]
              IN  IF says = "approved" /\ login.transport # "casper-wallet"
                  THEN [undone EXCEPT !.session = visit.active, !.account = visit.active]
                  ELSE undone
    /\ login' = LET told == [login EXCEPT !.answer = says]
                IN  IF says = "failed" THEN ends(told, "failed")
                    ELSE IF says = "approved" /\ login.transport # "casper-wallet" THEN ends(told, "ok")
                    ELSE [told EXCEPT !.step = "settling"]
    /\ UNCHANGED visit

attemptsToSettle == IF visit.injected /\ login.transport = "casper-wallet" THEN SettleAttempts ELSE 1

\* accountAfterConnect, one look: a refusal is taken at its word; else what the SDK holds, else
\* the active key asked of the extension itself, which gives it to a site it is connected to.
accountAfterConnect ==
    /\ login.step = "settling"
    /\ IF login.answer = "refused" THEN login' = ends(login, "cancelled") /\ UNCHANGED tab
       ELSE IF tab.session # Nobody THEN login' = ends(login, "ok") /\ tab' = shows(tab, tab.session)
       ELSE IF visit.injected /\ login.answer = "approved"
       THEN login' = ends(login, "ok") /\ tab' = shows(tab, visit.active)
       ELSE IF login.polls + 1 < attemptsToSettle
       THEN login' = [login EXCEPT !.polls = @ + 1] /\ UNCHANGED tab
       ELSE login' = ends(login, "cancelled") /\ UNCHANGED tab
    /\ UNCHANGED visit

\* An SDK that cannot be asked what is here signs in its own way.
signIn(k) ==
    /\ login.step = "signing in"
    /\ LET account == IF k # Nobody THEN k ELSE tab.session
       IN  IF account = Nobody THEN login' = ends(login, "cancelled") /\ UNCHANGED tab
           ELSE login' = ends(login, "ok") /\ tab' = [tab EXCEPT !.account = account, !.session = account]
    /\ UNCHANGED visit

-----------------------------------------------------------------------------
\* account-list-updated: the accounts offered, and in step with them the SDK's own objects,
\* of which one completes the sign-in.  A single one is taken without asking.
PhoneShares(entries) ==
    /\ login.step = "pairing"
    /\ LET valid == SelectSeq(entries, LAMBDA k : k # Nobody)
       IN  login' = IF valid = << >> THEN ends(login, "failed")
                    ELSE IF Len(valid) = 1
                    THEN [login EXCEPT !.step = "choosing", !.pending = {<<valid[1], valid[1]>>}]
                    ELSE [login EXCEPT !.step = "choosing", !.accounts = valid, !.raw = valid]
    /\ UNCHANGED <<visit, tab>>

\* The picker stays up until a sign-in ends, and may be pressed again.
choose(i) ==
    /\ login.step = "choosing" /\ i \in DOMAIN login.accounts
    /\ login' = [login EXCEPT !.pending = @ \cup {<<login.raw[i], login.accounts[i]>>}]
    /\ UNCHANGED <<visit, tab>>

\* signInWithAccount ends: the SDK holds, and announces, the account of the object it was
\* given; the first to end settles the attempt.
SignedInWith(p) ==
    /\ p \in login.pending
    /\ tab' = [tab EXCEPT !.session = p[1], !.account = IF login.step = "choosing" THEN p[2] ELSE p[1]]
    /\ login' = LET done == [login EXCEPT !.pending = @ \ {p}]
                IN  IF login.step = "choosing" THEN ends(done, "ok") ELSE done
    /\ UNCHANGED visit

SignInFails(p) ==
    /\ p \in login.pending
    /\ login' = LET done == [login EXCEPT !.pending = @ \ {p}]
                IN  IF login.step = "choosing" THEN ends(done, "failed") ELSE done
    /\ UNCHANGED <<visit, tab>>

\* Declined on the phone, or the provider fails.
PairingFails(result) ==
    /\ login.step \in {"pairing", "choosing"} /\ result \in {"cancelled", "failed"}
    /\ login' = ends(login, result)
    /\ UNCHANGED <<visit, tab>>

\* What the SDK says of a session that ended clears the page, except of the demo account.
cleared(t) == [t EXCEPT !.session = Nobody, !.account = IF @ = Demo THEN Demo ELSE Nobody]

\* Given up by the visitor: the half-open session is dropped at best effort.
onAbort ==
    /\ login.step \in {"pairing", "choosing"}
    /\ login' = ends(login, "cancelled")
    /\ tab' \in {tab, cleared(tab)}
    /\ UNCHANGED visit

-----------------------------------------------------------------------------
\* Provider events, by what their names contain: "disconnected" also contains "connected".
ProviderEvents == {"connected", "unlocked", "activeKeyChanged", "locked", "disconnected"}
Announces(event) == event \in {"connected", "unlocked", "activeKeyChanged", "disconnected"}

parseCsprClickEvent(event, k) ==
    IF event = "disconnected" THEN "disconnected"
    ELSE IF k # Nobody /\ Announces(event) THEN "connected"
    ELSE "nothing"

\* An event of the wallet's, at any time, with or without a key riding on it: the SDK keeps
\* its own account by it, the page's standing subscription and a pairing under way read it.
WalletSays(event, k) ==
    /\ tab.sdk = "loaded" /\ event \in ProviderEvents
    /\ LET signal == parseCsprClickEvent(event, k)
           held == IF event = "disconnected" THEN Nobody
                   ELSE IF k # Nobody /\ event # "locked" THEN k ELSE tab.session
           shown == IF signal = "connected" THEN shows(tab, k)
                    ELSE IF signal = "disconnected" THEN cleared(tab) ELSE tab
       IN  /\ tab' = [shown EXCEPT !.session = held]
           /\ login' = IF signal = "connected" /\ login.step \in {"pairing", "choosing"}
                       THEN ends(login, "ok")
                       ELSE IF event = "disconnected" /\ login.answer = "approved"
                       THEN [login EXCEPT !.answer = "revoked"] ELSE login
    /\ UNCHANGED visit

\* The visitor whom the SDK sent to a new tab opens the site in the wallet's own browser.
OpensInWallet ==
    /\ tab.newTab /\ ~visit.inApp
    /\ visit' = [visit EXCEPT !.inApp = TRUE, !.injected = TRUE, !.kept = Nobody]
    /\ tab' = freshTab(TRUE, Nobody)
    /\ login' = noLogin

-----------------------------------------------------------------------------
\* The route taken is one that can work: only a browser without the extension is sent away,
\* even where the SDK takes it for a phone, and the SDK's redirect is off for no longer than
\* the call; a QR is shown only where pairing is configured; and "install a wallet" is said
\* only to a visitor who has no route at all.
RouteCanWork ==
    /\ tab.newTab => ~visit.injected
    /\ tab.disarmed => login.step = "prompting"
    /\ login.step \in {"pairing", "choosing"} => visit.project /\ ~visit.injected
    /\ login.result = "no-wallet" =>
          ~visit.injected /\ ~visit.touch /\ ~visit.metamask /\ ~visit.project

\* Nobody is signed in with the demo account where a wallet could have been: only without an
\* app id, with one CSPR.click does not know, or after the wait - and never on the way back
\* from the wallet.
DemoIsTheLastResort ==
    /\ tab.rejected => bootId \notin visit.issued
    /\ login.result = "demo" =>
          /\ login.leg = "click"
          /\ bootId = "none" \/ bootId \notin visit.issued \/ login.waited

\* What the visitor answered in the wallet is what the page acts on, however late the account
\* is announced and whatever account the SDK kept from before.
AnswerIsHeard ==
    /\ login.answer = "refused" => login.result \in {"none", "cancelled"}
    /\ login.answer = "approved" => login.result \in {"none", "ok"}

\* The account on the page is the one the SDK would sign with, or the approved one whose
\* announcement is still to come.
ShownAccountIsBacked ==
    tab.account \in WalletKeys =>
        tab.account \in {tab.session} \cup IF login.answer = "approved" THEN {visit.active} ELSE {}
=============================================================================
