----------------------------- MODULE VisitorPages -----------------------------
(***************************************************************************)
(* What a visitor does with the session: the bet panel                     *)
(* (components/bet-panel.tsx) signs a bet with the visitor's own wallet or *)
(* has the operator escrow it, then polls it to a verdict; the create page *)
(* (app/create/page.tsx) pays a creation bond, or signs the creation       *)
(* itself, and follows it.  Answers come late, get lost or never come, and *)
(* the page may be left at any point.                                      *)
(***************************************************************************)
EXTENDS WalletSession

CONSTANTS
    Presses,        \* presses of the bet button
    Quotes,         \* previews of a market, 1..n
    Operator

ASSUME OperatorIsNoVisitor == Operator \notin WalletKeys \cup {Demo, Nobody}
ASSUME QuotesAreNumbered == Quotes \subseteq Nat \ {0}

VARIABLES
    bet,            \* bet[p]: how far the press got and for which account
    payer,          \* payer[p]: whose account escrowed p's stake
    fate,           \* fate[p]: p's transaction on chain
    onBoards,       \* presses the boards index
    unindexed,      \* presses an answer confirmed with indexed: false: the boards had closed
    marketIs,       \* open, closed to the boards, or shown so by the page too
    form,           \* where the create page stands
    quoted,         \* previews asked for so far
    bond,           \* the page remembers a bond (or a signed creation) of this preview
    bondFate,       \* bondFate[n]: the latest bond transfer, or the creation, of preview n
    paid,           \* paid[n]: transactions the wallet submitted for preview n
    opened,         \* previews whose market the server has opened or registered
    mute            \* history: previews and presses whose wallet submitted and reported an error

betPanelVars == <<bet, payer, fate, onBoards, unindexed, marketIs>>
createPageVars == <<form, quoted, bond, bondFate, paid, opened>>
visitorVars == <<walletVars, betPanelVars, createPageVars, mute>>

PagesInit ==
    /\ bet = [p \in Presses |-> [at |-> "unused", as |-> Nobody, signs |-> FALSE, code501 |-> FALSE]]
    /\ payer = [p \in Presses |-> Nobody]
    /\ fate = [p \in Presses |-> "none"]
    /\ onBoards = {} /\ unindexed = {} /\ marketIs = "open"
    /\ form = "blank" /\ quoted = 0 /\ bond = FALSE
    /\ bondFate = [n \in Quotes |-> "none"] /\ paid = [n \in Quotes |-> 0]
    /\ opened = {} /\ mute = {}

canSign == available /\ readWallet # Demo

At(p, s) == bet' = [bet EXCEPT ![p].at = s]
betting == \E p \in Presses : bet[p].at \in {"preparing", "preflight", "signing", "operator"}

FaultyConfirming == FALSE
confirming == \E p \in Presses : bet[p].at = "pending"

\* A new press takes the receipt, and with it the poll, away from an earlier one.
PlaceBet(p) ==
    /\ bet[p].at = "unused" /\ readWallet # Nobody
    /\ ~betting /\ ~confirming /\ marketIs # "shown"
    /\ bet' = [r \in Presses |->
          IF r = p THEN [at |-> IF canSign THEN "preparing" ELSE "operator", as |-> readWallet,
                         signs |-> canSign, code501 |-> FALSE]
          ELSE IF bet[r].at = "pending" THEN [bet[r] EXCEPT !.at = "superseded"] ELSE bet[r]]
    /\ UNCHANGED <<walletVars, payer, fate, onBoards, unindexed, marketIs, mute>>

\* bet/prepare answers: a transaction to sign, 501 (this deployment cannot), or an error.
BetPrepared(p) ==
    /\ bet[p].at = "preparing"
    /\ \/ marketIs = "open" /\ At(p, "preflight")
       \/ bet' = [bet EXCEPT ![p].at = "operator", ![p].code501 = TRUE]
       \/ At(p, "error")
    /\ UNCHANGED <<walletVars, payer, fate, onBoards, unindexed, marketIs, mute>>

\* prepareToSign, and the check send() repeats: the SDK's account must be the one that
\* pressed, and its provider must be live, or be brought to life, or nothing is sent.
PrepareToSign(p) ==
    /\ bet[p].at = "preflight"
    /\ \/ sdkAccount = bet[p].as /\ provider' = TRUE /\ At(p, "signing")
       \/ (sdkAccount # bet[p].as \/ ~provider) /\ UNCHANGED provider /\ At(p, "error")
    /\ UNCHANGED <<sdk, rejected, sdkAccount, stored, memoryAccount, blocked, route, dialog,
                   inFlight, attempts, payer, fate, onBoards, unindexed, marketIs, mute>>

WalletSigns(p) ==
    /\ bet[p].at = "signing"
    /\ fate' = [fate EXCEPT ![p] = "submitted"] /\ payer' = [payer EXCEPT ![p] = bet[p].as]
    /\ \/ At(p, "pending") /\ UNCHANGED mute
       \/ At(p, "error") /\ mute' = mute \cup {p}    \* an error, or no hash, came back
    /\ UNCHANGED <<walletVars, onBoards, unindexed, marketIs>>

FaultyDeclined(p) == At(p, "operator")
Declined(p) == At(p, "declined")

WalletDeclines(p) ==
    /\ bet[p].at = "signing" /\ Declined(p)
    /\ UNCHANGED <<walletVars, payer, fate, onBoards, unindexed, marketIs, mute>>

\* POST /api/chain/bet, which takes bets on an open market: submitted with a ticket to poll,
\* confirmed inline (the market may have closed to the boards meanwhile), or refused.  The answer
\* may be lost on the way.
OperatorPlaces(p) ==
    /\ bet[p].at = "operator"
    /\ \/ At(p, "error") /\ UNCHANGED <<payer, fate, onBoards, unindexed, marketIs>>
       \/ /\ marketIs = "open" /\ payer' = [payer EXCEPT ![p] = Operator]
          /\ \E answer \in {"pending", "confirmed"}, indexed, lost \in BOOLEAN :
                /\ fate' = [fate EXCEPT ![p] = IF answer = "pending" THEN "submitted" ELSE "executed"]
                /\ onBoards' = IF answer = "confirmed" /\ indexed THEN onBoards \cup {p} ELSE onBoards
                /\ unindexed' = IF answer = "confirmed" /\ ~indexed THEN unindexed \cup {p} ELSE unindexed
                /\ marketIs' = IF answer = "confirmed" /\ ~indexed THEN "closed" ELSE marketIs
                /\ At(p, IF lost THEN "error" ELSE answer)
    /\ UNCHANGED <<walletVars, mute>>

ChainDecides(p) ==
    /\ fate[p] = "submitted"
    /\ \E f \in {"executed", "reverted"} : fate' = [fate EXCEPT ![p] = f]
    /\ UNCHANGED <<walletVars, bet, payer, onBoards, unindexed, marketIs, mute>>

\* The deadline passes, or the market is settled; the page learns of it when it asks again.
BettingCloses ==
    /\ \/ marketIs = "open" /\ marketIs' = "closed"
       \/ marketIs = "closed" /\ marketIs' = "shown"
    /\ UNCHANGED <<walletVars, bet, payer, fate, onBoards, unindexed, mute>>

\* What bet/confirm does with an executed transaction: it is on the boards once, unless they
\* have closed.
ConfirmIndexes(p) ==
    /\ onBoards' = IF marketIs = "open" THEN onBoards \cup {p} ELSE onBoards
    /\ unindexed' = IF p \in onBoards' THEN unindexed ELSE unindexed \cup {p}

\* One poll of bet/confirm: pending and a dropped answer change nothing, a verdict ends the
\* poll, a refusal and the end of the window leave the receipt "unconfirmed".
PollVerdict(p) ==
    /\ bet[p].at = "pending"
    /\ \/ /\ fate[p] = "executed" /\ ConfirmIndexes(p)
          /\ At(p, "confirmed") \/ UNCHANGED bet
       \/ fate[p] = "reverted" /\ At(p, "failed") /\ UNCHANGED <<onBoards, unindexed>>
       \/ At(p, "unconfirmed") /\ UNCHANGED <<onBoards, unindexed>>
    /\ UNCHANGED <<walletVars, payer, fate, marketIs, mute>>

-----------------------------------------------------------------------------
\* app/create/page.tsx.  The preview button is there until a challenge is; a preview clears
\* whatever bond the page remembered.  selfCustodial: the wallet itself signs create_market.
RequestChallenge ==
    /\ form \in {"blank", "prepared"} /\ quoted + 1 \in Quotes
    /\ quoted' = quoted + 1 /\ bond' = FALSE
    /\ form' \in {"challenge", "prepared", "blank"}
    /\ form' = "prepared" => canSign
    /\ UNCHANGED <<walletVars, bondFate, paid, opened, mute>>

FaultyBondInHand == FALSE
BondInHand == bond

\* payAndCreate: a bond already paid for this challenge is presented again.
PayAndCreate ==
    /\ form = "challenge"
    /\ form' = IF BondInHand THEN "awaiting" ELSE "paying"
    /\ (form' = "paying") => canSign
    /\ UNCHANGED <<walletVars, quoted, bond, bondFate, paid, opened, mute>>

\* The wallet submits, declines, or submits and reports an error.  The prepared creation has
\* one hash: a node takes it once.
SignBond ==
    /\ form = "paying"
    /\ \/ form' = "challenge" /\ UNCHANGED <<bond, bondFate, paid, mute>>
       \/ /\ bondFate' = [bondFate EXCEPT ![quoted] = "submitted"]
          /\ paid' = [paid EXCEPT ![quoted] = @ + 1]
          /\ \/ form' = "awaiting" /\ bond' = TRUE /\ UNCHANGED mute
             \/ form' = "challenge" /\ mute' = mute \cup {quoted} /\ UNCHANGED bond
    /\ UNCHANGED <<walletVars, quoted, opened>>

\* awaitBond: the transfer executed, or it reverted, or the page stopped asking.
AwaitBond ==
    /\ form = "awaiting"
    /\ \/ bondFate[quoted] = "executed" /\ form' = "opening"
       \/ form' = "challenge"
    /\ UNCHANGED <<walletVars, quoted, bond, bondFate, paid, opened, mute>>

\* createMarket opens the market, or fails; either answer may be lost.
OpenMarket ==
    /\ form = "opening"
    /\ \/ form' = "challenge" /\ UNCHANGED opened
       \/ opened' = opened \cup {quoted} /\ form' \in {"created", "challenge"}
    /\ UNCHANGED <<walletVars, quoted, bond, bondFate, paid, mute>>

\* signAndCreate: asked again after an error the wallet is handed the same transaction, and
\* what a node has taken before it refuses.
SignAndCreate ==
    /\ form = "prepared" /\ canSign
    /\ \/ UNCHANGED <<form, bond, bondFate, paid, mute>>
       \/ /\ bondFate[quoted] = "none"
          /\ bondFate' = [bondFate EXCEPT ![quoted] = "submitted"]
          /\ paid' = [paid EXCEPT ![quoted] = @ + 1]
          /\ \/ form' = "finalizing" /\ bond' = TRUE /\ UNCHANGED mute
             \/ mute' = mute \cup {quoted} /\ UNCHANGED <<form, bond>>
    /\ UNCHANGED <<walletVars, quoted, opened>>

\* A poll of finalize: created, reverted, refused or dropped; only "pending" asks again.
FinalizePoll ==
    /\ form = "finalizing"
    /\ \/ form' = "prepared" /\ UNCHANGED opened
       \/ bondFate[quoted] = "executed" /\ opened' = opened \cup {quoted} /\ form' \in {"created", "prepared"}
    /\ UNCHANGED <<walletVars, quoted, bond, bondFate, paid, mute>>

BondDecided(n) ==
    /\ bondFate[n] = "submitted"
    /\ \E f \in {"executed", "reverted"} : bondFate' = [bondFate EXCEPT ![n] = f]
    /\ UNCHANGED <<walletVars, form, quoted, bond, paid, opened, mute>>

-----------------------------------------------------------------------------
\* The page is reloaded: what it was waiting for goes on without it.
Reload ==
    /\ reloaded
    /\ bet' = [p \in Presses |-> IF bet[p].at \in {"preparing", "preflight", "signing", "operator", "pending"}
                                 THEN [bet[p] EXCEPT !.at = "left"] ELSE bet[p]]
    /\ form' = "blank" /\ bond' = FALSE
    /\ UNCHANGED <<payer, fate, onBoards, unindexed, marketIs, quoted, bondFate, paid, opened, mute>>

-----------------------------------------------------------------------------
\* A press stakes for the account that pressed, from that account; the operator's money only
\* stands in where the page had no signer or the deployment answered 501, and never for a bet
\* the visitor declined to sign.
StakesAreTheVisitors ==
    \A p \in Presses :
        /\ payer[p] = Operator => ~bet[p].signs \/ bet[p].code501
        /\ payer[p] \notin {Nobody, Operator} => payer[p] = bet[p].as /\ bet[p].signs
        /\ bet[p].at = "declined" => payer[p] = Nobody

\* An escrow the boards miss has the panel still asking, or holding the server's word of it:
\* it is polled until the panel gives up in words, or until an answer says that the boards could
\* not take it, unless the page was left, or the wallet or the network hid the submission.  The
\* visitor reads that word as long as the page shows the market open: once it shows it closed
\* the panel renders neither receipt nor note (bet-panel.tsx:469).
EscrowsAreFollowed ==
    \A p \in Presses : (fate[p] = "executed" /\ p \notin onBoards) =>
        bet[p].at \in {"pending", "unconfirmed", "left", "error"} \/ p \in unindexed

\* One preview costs one bond: a retry presents the transfer it already made, unless the
\* wallet made it and said it had not.
OneBondPerPreview ==
    /\ \A n \in Quotes : paid[n] <= 1 \/ n \in mute
    /\ form \in {"awaiting", "opening", "finalizing"} => paid[quoted] >= 1

\* No page waits for a wallet that was never asked: the SDK's send() does not settle without
\* a live provider instance.
WalletWasAsked == \A p \in Presses : bet[p].at = "signing" => provider
=============================================================================
