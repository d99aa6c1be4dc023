----------------------------- MODULE BotMentions -----------------------------
(***************************************************************************)
(* The chat bots: the platform delivers a message to the webhook, again    *)
(* and to any server if it pleases, and the handler answers it once, from  *)
(* a ledger of message ids in the server's memory (lib/bot-webhook.ts,     *)
(* lib/bot-handler.ts, lib/bot-idempotency.ts), placing at most one bet    *)
(* through the x402 exchange an agent would run (lib/agent-bet.ts).  What  *)
(* was bet on another server a server knows from its last read of the      *)
(* store, which may be old, or may have failed                             *)
(* (adapters/persist/economy-state.ts).  When the 30 s of a read are over  *)
(* is not modelled: the next may start whenever.                           *)
(***************************************************************************)
EXTENDS BotCommands

CONSTANTS
    Bots,               \* the servers that run the webhook
    Mentions,           \* message ids
    TextOf,             \* TextOf[m]: what message m says
    MaxDeliveries       \* bound on the platform

Modes == {"demo", "legacy", "trustless", "closed"}

VARIABLES
    mode, secretSet,        \* how the deployment verifies payments, and its webhook secret
    boardOpen,              \* the market the messages bet on, in the mirror
    mentionLedger,          \* MENTION_LEDGER: "new", "pending" or the reply
    settlements,            \* settlements[b]: consumedPayments of server b
    booked,                 \* booked[b]: the settlements of the bets in its ledger
    storedBets,             \* those of the bets in the store
    answerDue,              \* answerDue[b]: what b's GET in flight will answer, if there is one
    lastHeard,              \* history, lastHeard[b]: what the store held as b last read it
    overwritten,            \* history: bets a read took from the only memory that had them
    botLife,
    deliveries

ledgerVars == <<booked, storedBets, answerDue, lastHeard, overwritten>>
mentionVars == <<mode, secretSet, boardOpen, mentionLedger, settlements, ledgerVars, botLife, deliveries>>

MentionsInit ==
    /\ mode \in Modes /\ secretSet \in BOOLEAN
    /\ boardOpen = TRUE
    /\ mentionLedger = [b \in Bots |-> [m \in Mentions |-> "new"]]
    /\ settlements = [b \in Bots |-> {}] /\ booked = [b \in Bots |-> {}]
    /\ storedBets = {} /\ overwritten = {}
    /\ answerDue = [b \in Bots |-> {}] /\ lastHeard = [b \in Bots |-> {}]
    /\ botLife = [b \in Bots |-> 0]
    /\ deliveries = <<>>

\* The settlement a bet mints: the same for whoever sends the same bet again.
BetOf(m) == parseBotCommand(TextOf[m])

\* Without a secret only the demo is open.
secretOk(signed) == IF secretSet THEN signed ELSE mode = "demo"

\* Operators named Faulty... are not part of the model: each is the definition after it with
\* one plausible mistake, and shows that some property below notices it.
FaultyClaimMention(b, m) == mentionLedger[b][m] \in {"new", "pending"}
claimMention(b, m) == mentionLedger[b][m] = "new"

\* The message arrives, on a server that has read the store lately or reads it now (BotReads,
\* BotHears): the id is claimed, and a message that was answered before is answered again with
\* the same words, one still being answered with none.
Deliver(b, m, signed) ==
    LET heard == mentionLedger[b][m]
        fresh == claimMention(b, m)
        step == CASE ~secretOk(signed) -> "unauthorized"
                  [] secretOk(signed) /\ fresh -> IF BetOf(m).kind = "bet" THEN "quoting" ELSE "replying"
                  [] secretOk(signed) /\ ~fresh -> IF heard = "pending" THEN "silent" ELSE "replying"
        reply == IF step # "replying" THEN "nothing" ELSE IF fresh THEN "info" ELSE heard
    IN
    /\ Len(deliveries) < MaxDeliveries
    /\ deliveries' = Append(deliveries,
          [bot |-> b, life |-> botLife[b], mention |-> m, fresh |-> fresh, step |-> step, reply |-> reply,
           escrow |-> "none", indexed |-> FALSE, unsaved |-> FALSE, knew |-> {}])
    /\ mentionLedger' = IF step = "unauthorized" \/ ~fresh THEN mentionLedger
                        ELSE [mentionLedger EXCEPT ![b][m] = IF step = "replying" THEN "info" ELSE "pending"]
    /\ UNCHANGED <<mode, secretSet, boardOpen, settlements, ledgerVars, botLife>>

\* finalizeMention, with the reply about to be sent.
Concludes(i, reply, indexed) ==
    LET d == deliveries[i] IN
    /\ mentionLedger' = [mentionLedger EXCEPT ![d.bot][d.mention] = reply]
    /\ deliveries' = [deliveries EXCEPT ![i].step = "replying", ![i].reply = reply, ![i].indexed = indexed]

\* The unpaid agentBet, then settle: which the trustless rail refuses to do for a bettor, so
\* the claim is released and the message excused.
QuoteBet(i) ==
    LET d == deliveries[i] IN
    /\ d.step = "quoting"
    /\ CASE mode = "closed" \/ ~boardOpen -> Concludes(i, "refused", FALSE)
         [] mode = "trustless" /\ boardOpen ->
              /\ mentionLedger' = [mentionLedger EXCEPT ![d.bot][d.mention] = "new"]
              /\ deliveries' = [deliveries EXCEPT ![i].step = "replying", ![i].reply = "excused"]
         [] OTHER -> deliveries' = [deliveries EXCEPT ![i].step = "paying"] /\ UNCHANGED mentionLedger
    /\ UNCHANGED <<mode, secretSet, boardOpen, settlements, ledgerVars, botLife>>

FaultySettledBefore(b, s) == FALSE
settledBefore(b, s) == s \in settlements[b] \cup booked[b]

\* The paid agentBet, up to placeBet.  The settlement is the same for every repetition of a bet.
Pay(i) ==
    LET d == deliveries[i] IN
    /\ d.step = "paying"
    /\ IF ~boardOpen \/ settledBefore(d.bot, BetOf(d.mention))
       THEN Concludes(i, "refused", FALSE)
       ELSE /\ deliveries' = [deliveries EXCEPT ![i].step = "placing", ![i].escrow = "submitted",
                                                ![i].knew = lastHeard[d.bot]]
            /\ UNCHANGED mentionLedger
    /\ UNCHANGED <<mode, secretSet, boardOpen, settlements, ledgerVars, botLife>>

\* The network decides, whether or not anybody still waits.
EscrowLands(i) ==
    /\ deliveries[i].escrow = "submitted"
    /\ \E end \in {"executed", "reverted"} : deliveries' = [deliveries EXCEPT ![i].escrow = end]
    /\ UNCHANGED <<mode, secretSet, boardOpen, mentionLedger, settlements, ledgerVars, botLife>>

\* placeBet returns: the settlement is burnt, the bet booked if the mirror still takes it, or
\* has it already.
EscrowPlaced(i) ==
    LET d == deliveries[i]
        indexed == boardOpen \/ BetOf(d.mention) \in booked[d.bot]
    IN
    /\ d.step = "placing" /\ d.escrow = "executed"
    /\ settlements' = [settlements EXCEPT ![d.bot] = @ \cup {BetOf(d.mention)}]
    /\ booked' = IF indexed THEN [booked EXCEPT ![d.bot] = @ \cup {BetOf(d.mention)}] ELSE booked
    /\ Concludes(i, "placed", indexed)
    /\ UNCHANGED <<mode, secretSet, boardOpen, storedBets, answerDue, lastHeard, overwritten, botLife>>

\* placeBet throws: it reverted, was never accepted, or nobody heard of it in time.
EscrowFails(i) ==
    /\ deliveries[i].step = "placing" /\ deliveries[i].escrow # "executed"
    /\ Concludes(i, "refused", FALSE)
    /\ UNCHANGED <<mode, secretSet, boardOpen, settlements, ledgerVars, botLife>>

\* persistEconomyState on server b: the store is merged into memory and put back; refused for good
\* it leaves memory merged, and a store that cannot be read leaves all as it is.
FlushOf(b, lands) ==
    /\ \/ /\ booked' = [booked EXCEPT ![b] = @ \cup storedBets]
          /\ lastHeard' = [lastHeard EXCEPT ![b] = storedBets]
       \/ ~lands /\ UNCHANGED <<booked, lastHeard>>
    /\ storedBets' = IF lands THEN storedBets \cup booked[b] ELSE storedBets
    /\ UNCHANGED <<answerDue, overwritten>>

FaultyAwaitsFlush(d) == FALSE
\* The webhook flushes, and waits for it, for the delivery that placed the bet only.
AwaitsFlush(d) == d.fresh /\ d.reply = "placed"

\* The reply goes out and the platform is told 200, whatever came of the flush; or it does not,
\* the webhook answers 500 and asks for none.
SendReply(i) ==
    LET d == deliveries[i] IN
    /\ d.step = "replying"
    /\ \/ /\ AwaitsFlush(d)
          /\ \E lands \in BOOLEAN :
                /\ FlushOf(d.bot, lands)
                /\ deliveries' = [deliveries EXCEPT ![i].step = "answered", ![i].unsaved = ~lands]
       \/ ~AwaitsFlush(d) /\ deliveries' = [deliveries EXCEPT ![i].step = "answered"] /\ UNCHANGED ledgerVars
       \/ deliveries' = [deliveries EXCEPT ![i].step = "unanswered"] /\ UNCHANGED ledgerVars
    /\ UNCHANGED <<mode, secretSet, boardOpen, mentionLedger, settlements, botLife>>

\* The flush recordBet asked for, or any other the server makes.
BotFlushes(b) ==
    /\ \E lands \in BOOLEAN : FlushOf(b, lands)
    /\ UNCHANGED <<mode, secretSet, boardOpen, mentionLedger, settlements, botLife, deliveries>>

\* A server reads the store: at a request, if it holds nothing unflushed and its last read is
\* old; at the start of a tick, whatever it holds.
BotReads(b) ==
    /\ answerDue[b] = {} /\ answerDue' = [answerDue EXCEPT ![b] = {storedBets}]
    /\ UNCHANGED <<mode, secretSet, boardOpen, mentionLedger, settlements, booked, storedBets, lastHeard,
                   overwritten, botLife, deliveries>>

\* ... and the answer replaces what it knew; or none comes, and it goes on with what it had.
BotHears(b) ==
    /\ answerDue[b] # {} /\ answerDue' = [answerDue EXCEPT ![b] = {}]
    /\ \/ UNCHANGED <<booked, lastHeard, overwritten>>
       \/ \E bets \in answerDue[b] :
             /\ booked' = [booked EXCEPT ![b] = bets] /\ lastHeard' = [lastHeard EXCEPT ![b] = bets]
             /\ overwritten' = overwritten \cup (booked[b] \ storedBets)
    /\ UNCHANGED <<mode, secretSet, boardOpen, mentionLedger, settlements, storedBets, botLife, deliveries>>

MarketCloses ==
    /\ boardOpen /\ boardOpen' = FALSE
    /\ UNCHANGED <<mode, secretSet, mentionLedger, settlements, ledgerVars, botLife, deliveries>>

BotDies(b) ==
    /\ botLife' = [botLife EXCEPT ![b] = @ + 1]
    /\ mentionLedger' = [mentionLedger EXCEPT ![b] = [m \in Mentions |-> "new"]]
    /\ settlements' = [settlements EXCEPT ![b] = {}] /\ booked' = [booked EXCEPT ![b] = {}]
    /\ answerDue' = [answerDue EXCEPT ![b] = {}] /\ lastHeard' = [lastHeard EXCEPT ![b] = {}]
    /\ deliveries' = [i \in DOMAIN deliveries |->
          IF deliveries[i].bot = b /\ deliveries[i].step \in {"quoting", "paying", "placing", "replying"}
          THEN [deliveries[i] EXCEPT !.step = "lost"] ELSE deliveries[i]]
    /\ UNCHANGED <<mode, secretSet, boardOpen, storedBets, overwritten>>

-----------------------------------------------------------------------------
Together(d, e) == d.bot = e.bot /\ d.life = e.life

\* However often a message is delivered it stakes once on a server while that lives; and no
\* server stakes what it heard, when it last read the store, that another had staked.  Elsewhere
\* a redelivery may stake again: on a server that read the store before the first bet came to it,
\* or that was recycled.
OneMessageOneBet ==
    \A i, j \in DOMAIN deliveries : LET d == deliveries[i]  e == deliveries[j] IN
        /\ i # j /\ d.mention = e.mention /\ d.escrow # "none" /\ e.escrow # "none" => ~Together(d, e)
        /\ e.escrow # "none" => BetOf(e.mention) \notin e.knew

\* Who is told that a bet was placed has one in the vault; who is told it was refused has none
\* that this server heard of.
RepliesAreTrue ==
    \A i \in DOMAIN deliveries : LET d == deliveries[i] IN
        /\ d.reply = "placed" => \E j \in DOMAIN deliveries :
              Together(d, deliveries[j]) /\ deliveries[j].mention = d.mention /\ deliveries[j].escrow = "executed"
        /\ d.reply = "refused" => \A j \in DOMAIN deliveries :
              Together(d, deliveries[j]) /\ deliveries[j].mention = d.mention => deliveries[j].reply # "placed"

\* A bet that was booked and whose delivery was answered is stored, and survives the server; but
\* for one whose flush failed, or that a read took from memory before it was flushed.
AnsweredBetsAreStored ==
    \A i \in DOMAIN deliveries : LET d == deliveries[i] IN
        d.indexed /\ d.step = "answered" => BetOf(d.mention) \in storedBets \cup overwritten \/ d.unsaved
=============================================================================
