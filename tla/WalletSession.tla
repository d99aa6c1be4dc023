---------------------------- MODULE WalletSession ----------------------------
(***************************************************************************)
(* The visitor's wallet session in one browser tab: the account store of   *)
(* components/wallet-context.tsx, the CSPR.click connector behind it       *)
(* (lib/wallet-connector.ts) and the subscription that is always mounted   *)
(* (components/wallet-resume.tsx).  The SDK loads late, may refuse the     *)
(* site's app id, keeps its own account across reloads and its provider    *)
(* instance not; another tab shares the stored session.                    *)
(***************************************************************************)
EXTENDS Naturals

CONSTANTS
    WalletKeys,     \* accounts of the visitor's wallets
    Demo,           \* DEMO_ACCOUNT
    Nobody,         \* no account
    Logins,       \* connection attempts, 1..n
    Routes          \* what detectWalletTransport may find: "extension", "pairing", "none"

ASSUME AccountsAreApart == Nobody \notin WalletKeys \cup {Demo} /\ Demo \notin WalletKeys
ASSUME NoLoginIsZero == 0 \notin Logins

VARIABLES
    sdk,            \* "loading" or "loaded": window.csprclick
    rejected,       \* csprClickAppIdRejection() # null
    sdkAccount,     \* the SDK's getActiveAccount(), which survives a reload
    provider,       \* the SDK holds a live provider instance in this page
    stored,         \* the session in localStorage
    memoryAccount,
    blocked,        \* localStorage throws
    route,
    dialog,         \* connectState.phase
    inFlight,       \* the attempt whose AbortController is current, 0 for none
    attempts        \* attempts[n]: "unused", "waiting" for the SDK, "open", "done"

walletVars == <<sdk, rejected, sdkAccount, provider, stored, memoryAccount, blocked, route,
                dialog, inFlight, attempts>>

WalletInit ==
    /\ sdk = "loading" /\ rejected = FALSE
    /\ sdkAccount = Nobody /\ provider = FALSE
    /\ stored = Nobody /\ memoryAccount = Nobody
    /\ blocked \in BOOLEAN /\ route \in Routes
    /\ dialog = "idle" /\ inFlight = 0
    /\ attempts = [n \in Logins |-> "unused"]

\* A page opened with k signed in already and the SDK loaded.
SignedIn(k) ==
    /\ sdk = "loaded" /\ rejected = FALSE
    /\ sdkAccount = k /\ provider \in BOOLEAN
    /\ stored = k /\ memoryAccount = k
    /\ blocked = FALSE /\ route = "extension"
    /\ dialog = "idle" /\ inFlight = 0
    /\ attempts = [n \in Logins |-> "unused"]

available == sdk = "loaded" /\ ~rejected

readWallet == IF blocked \/ stored = Nobody THEN memoryAccount ELSE stored

persistAccount(k) == memoryAccount' = k /\ stored' = IF blocked THEN stored ELSE k

keepSession == UNCHANGED <<stored, memoryAccount>>

-----------------------------------------------------------------------------
SdkLoads ==
    /\ sdk = "loading" /\ sdk' = "loaded"
    /\ UNCHANGED <<rejected, sdkAccount, provider, stored, memoryAccount, blocked, route, dialog,
                   inFlight, attempts>>

\* probeCsprClickAppId: a conclusive "no" demotes the connector for the life of the page.
ProbeRejects ==
    /\ ~rejected /\ rejected' = TRUE
    /\ UNCHANGED <<sdk, sdkAccount, provider, stored, memoryAccount, blocked, route, dialog,
                   inFlight, attempts>>

\* onAbort: a pairing nobody answered ends, and its half-open session is dropped at best
\* effort.  The extension's popup cannot be called back.
PairingAborted == inFlight # 0 /\ route = "pairing" /\ attempts[inFlight] = "open"
abort ==
    IF PairingAborted
    THEN sdkAccount' \in {Nobody, sdkAccount} ELSE UNCHANGED sdkAccount
afterAbort == IF PairingAborted THEN [attempts EXCEPT ![inFlight] = "done"] ELSE attempts

\* By the visitor, or by the page on the way back from the wallet's own browser.
Connect(n) ==
    /\ attempts[n] = "unused"
    /\ abort
    /\ attempts' = [afterAbort EXCEPT ![n] = "waiting"]
    /\ inFlight' = n /\ dialog' = "connecting"
    /\ keepSession /\ UNCHANGED <<sdk, rejected, provider, blocked, route>>

\* connectorForConnectAttempt answers: the SDK has come, its wait has run out, or there is
\* nothing to wait for.  Without it the demo account signs in at once.
AttemptGoesOn(n) ==
    /\ attempts[n] = "waiting"
    /\ IF n # inFlight
       THEN attempts' = [attempts EXCEPT ![n] = "done"] /\ keepSession /\ UNCHANGED <<dialog, inFlight>>
       ELSE IF ~available
       THEN /\ attempts' = [attempts EXCEPT ![n] = "done"] /\ inFlight' = 0
            /\ persistAccount(Demo) /\ dialog' = "idle"
       ELSE IF route = "none"
       THEN /\ attempts' = [attempts EXCEPT ![n] = "done"] /\ inFlight' = 0
            /\ dialog' = "error" /\ keepSession
       ELSE attempts' = [attempts EXCEPT ![n] = "open"] /\ keepSession /\ UNCHANGED <<dialog, inFlight>>
    /\ UNCHANGED <<sdk, rejected, sdkAccount, provider, blocked, route>>

\* Operators named Faulty... are not part of the model: each is the definition after it with
\* one plausible mistake, and shows that some property below notices it.
FaultyOutcome(n, k) ==
    /\ attempts' = [attempts EXCEPT ![n] = "done"]
    /\ IF n # inFlight THEN keepSession /\ UNCHANGED <<dialog, inFlight>>
       ELSE /\ inFlight' = 0
            /\ IF k = Nobody THEN keepSession ELSE persistAccount(k)
            /\ dialog' = IF k # Nobody /\ blocked THEN dialog ELSE "idle"

\* What connect() resolves with: k's account, or none when the visitor declined.  A
\* superseded or cancelled attempt changes nothing.
Outcome(n, k) ==
    /\ attempts' = [attempts EXCEPT ![n] = "done"]
    /\ IF n # inFlight THEN keepSession /\ UNCHANGED <<dialog, inFlight>>
       ELSE /\ inFlight' = 0 /\ dialog' = "idle"
            /\ IF k = Nobody THEN keepSession ELSE persistAccount(k)

\* accountAfterConnect: the popup was answered (its approval announced itself before), or not.
ConnectReturns(n) ==
    /\ attempts[n] = "open" /\ route = "extension"
    /\ \E k \in {sdkAccount, Nobody} : Outcome(n, k)
    /\ provider' = TRUE
    /\ UNCHANGED <<sdk, rejected, sdkAccount, blocked, route>>

ConnectFails(n) ==
    /\ attempts[n] = "open"
    /\ attempts' = [attempts EXCEPT ![n] = "done"]
    /\ IF n = inFlight THEN inFlight' = 0 /\ dialog' = "error" ELSE UNCHANGED <<dialog, inFlight>>
    /\ keepSession /\ UNCHANGED <<sdk, rejected, sdkAccount, provider, blocked, route>>

\* connectViaPairing: the QR, then the accounts a phone shares, then one of them signs in.
PairingMoves(n) ==
    /\ attempts[n] = "open" /\ route = "pairing" /\ n = inFlight
    /\ dialog' = CASE dialog = "connecting" -> "pairing" [] dialog = "pairing" -> "choosing"
                   [] OTHER -> dialog
    /\ dialog' # dialog
    /\ keepSession
    /\ UNCHANGED <<sdk, rejected, sdkAccount, provider, blocked, route, inFlight, attempts>>

PairingSignsIn(n, k) ==
    /\ attempts[n] = "open" /\ dialog \in {"pairing", "choosing"} /\ n = inFlight
    /\ sdkAccount' = k /\ provider' = TRUE
    /\ Outcome(n, k)
    /\ UNCHANGED <<sdk, rejected, blocked, route>>

CancelConnect ==
    /\ dialog # "idle"
    /\ abort /\ attempts' = afterAbort
    /\ inFlight' = 0 /\ dialog' = "idle"
    /\ keepSession /\ UNCHANGED <<sdk, rejected, provider, blocked, route>>

\* The local session ends first, whatever the SDK's own disconnect does.
Disconnect ==
    /\ readWallet # Nobody
    /\ persistAccount(Nobody)
    /\ sdkAccount' \in {Nobody, sdkAccount} /\ attempts' = afterAbort
    /\ inFlight' = 0 /\ dialog' = "idle"
    /\ UNCHANGED <<sdk, rejected, provider, blocked, route>>

-----------------------------------------------------------------------------
\* Connected, unlocked or switched in the wallet: announced on the SDK's event channel, to a
\* popup just approved as to a page that asked for nothing.
WalletAnnounces(k) ==
    /\ sdk = "loaded" /\ sdkAccount # k
    /\ sdkAccount' = k
    /\ provider' \in {provider, provider \/ \E n \in Logins : attempts[n] = "open"}
    /\ IF readWallet # k THEN persistAccount(k) ELSE keepSession
    /\ UNCHANGED <<sdk, rejected, blocked, route, dialog, inFlight, attempts>>

\* The wallet ends its session: only an account it backs goes with it.
WalletEnds ==
    /\ sdk = "loaded" /\ sdkAccount # Nobody
    /\ sdkAccount' = Nobody
    /\ IF readWallet \in WalletKeys THEN persistAccount(Nobody) ELSE keepSession
    /\ UNCHANGED <<sdk, rejected, provider, blocked, route, dialog, inFlight, attempts>>

\* A second tab connects or disconnects in the storage both share.
OtherTab(k) ==
    /\ ~blocked /\ stored # k /\ stored' = k
    /\ UNCHANGED <<sdk, rejected, sdkAccount, provider, memoryAccount, blocked, route, dialog,
                   inFlight, attempts>>

reloaded ==
    /\ sdk' = "loading" /\ rejected' = FALSE /\ provider' = FALSE
    /\ memoryAccount' = Nobody
    /\ dialog' = "idle" /\ inFlight' = 0
    /\ attempts' = [n \in Logins |-> IF attempts[n] = "unused" THEN "unused" ELSE "done"]
    /\ UNCHANGED <<sdkAccount, stored, blocked, route>>

-----------------------------------------------------------------------------
\* A dialog that waits has somebody to wait for: while it shows a spinner, a QR or the
\* account picker, one attempt is under way whose ending will change it - even when storage
\* is blocked, the attempt was superseded, or the SDK never loads.
DialogHasAnEnd ==
    dialog \in {"connecting", "pairing", "choosing"} =>
        inFlight # 0 /\ attempts[inFlight] \in {"waiting", "open"}
=============================================================================
