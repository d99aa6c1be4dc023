----------------------------- MODULE BetPlacement -----------------------------
(***************************************************************************)
(* How a bet reaches the chain and then the boards: an agent's x402 bet    *)
(* and a fleet agent's own escrow (lib/agent-bet.ts), an operator-signed   *)
(* bet that blocks, and one that is submitted, ticketed and polled         *)
(* (app/api/chain/bet).  A transaction may execute long after its caller   *)
(* gave up on it, and a status read may say "pending" whatever happened.   *)
(*                                                                         *)
(* Every instance has a settlement ledger of its own.  A bet enters the    *)
(* ledger of the instance that recorded it, reaches the store with a flush *)
(* and the others with their next read of the store, which replaces what   *)
(* they held; a recycled instance starts empty.  A GET is read at one step *)
(* and applied at a later one; a flush (GET, merge, CAS) is one step here  *)
(* and several in EconomyPersistence.  Two things are not modelled: when   *)
(* the 30 s of hydrateEconomyState run out (a read may start whenever) and *)
(* the faults that make a flush fall open to a blind SET.                  *)
(***************************************************************************)
EXTENDS Naturals, FiniteSets

CONSTANTS
    Requests, Payments, Instances, Pollers,
    Path,           \* Path[r]: "x402", "fleet", "operator" or "ticket"
    PaymentOf,      \* PaymentOf[r]: the payment an x402 request presents
    AskedOf         \* AskedOf[k]: the instance that answers poller k

ASSUME PathAssumption ==
    /\ Path \in [Requests -> {"x402", "fleet", "operator", "ticket"}]
    /\ AskedOf \in [Pollers -> Instances]

VARIABLES
    pc,             \* pc[r]: where the request stands
    tx,             \* tx[r]: its escrow transaction, on chain
    chainOpen,      \* the vault still takes bets on the market
    consumed,       \* consumed[i]: consumedPayments of instance i
    ledger,         \* ledger[i]: its entry of the market, in memory
    storedLedger,   \* the entry in the store
    dirty,          \* instances whose memory is not flushed
    hydrating,        \* hydrating[i]: what a GET of i in flight will answer, if there is one
    poll,           \* poll[r][k]: how far poller k of a ticket has come
    letIn,          \* letIn[r]: the instance that let r in, once one has
    lastRead,       \* history, lastRead[i]: keys the store held as i last read it
    forgotten,      \* history: requests let in by an instance that was recycled since
    unheard,        \* history: requests whose caller gave up without an answer
    raced,          \* history: requests let in while their payment had another one in flight
    unsaved,        \* history: told indexed although the flush they waited for failed
    overruled,      \* history: stakes a merge left out for the other entry
    replaced        \* history: bets a re-read took from a memory while only it had them

chainVars == <<tx, chainOpen>>
bookVars == <<storedLedger, dirty, hydrating, lastRead, overruled, replaced>>
callVars == <<pc, poll, letIn, unsaved>>
betVars == <<chainVars, bookVars, callVars, consumed, ledger, forgotten, unheard, raced>>

Nothing == [keys |-> {}, stakes |-> [r \in Requests |-> 0], settled |-> FALSE]

BetInit ==
    /\ pc = [r \in Requests |-> "new"]
    /\ tx = [r \in Requests |-> "none"] /\ chainOpen = TRUE
    /\ consumed = [i \in Instances |-> {}]
    /\ ledger = [i \in Instances |-> Nothing] /\ storedLedger = Nothing
    /\ dirty = {} /\ hydrating = [i \in Instances |-> {}]
    /\ poll = [r \in Requests |-> [k \in Pollers |-> "idle"]]
    /\ letIn = [r \in Requests |-> {}] /\ lastRead = [i \in Instances |-> {}]
    /\ forgotten = {} /\ unheard = {} /\ raced = {} /\ unsaved = {}
    /\ overruled = {} /\ replaced = {}

\* The key recordBet burns: the payment, the escrow's own hash, or none at all.
dedupeKey(r) ==
    CASE Path[r] = "x402" -> {<<"x402", PaymentOf[r]>>}
      [] Path[r] \in {"fleet", "ticket"} -> {<<Path[r], r>>}
      [] Path[r] = "operator" -> {}

SameBet(r) == IF Path[r] = "x402" THEN {s \in Requests : Path[s] = "x402" /\ PaymentOf[s] = PaymentOf[r]}
              ELSE {r}

\* What instance i knows of a payment: its own set, and its own copy of the ledger.
spent(r, i) ==
    /\ Path[r] = "x402"
    /\ PaymentOf[r] \in consumed[i] \/ dedupeKey(r) \subseteq ledger[i].keys

\* Validated against the instance's mirror, then handed to the node; the check of a payment
\* and the submission are one step, its burning is not.
Submit(r, i) ==
    /\ pc[r] = "new"
    /\ ~ledger[i].settled
    /\ ~spent(r, i)
    /\ tx' = [tx EXCEPT ![r] = "submitted"]
    /\ letIn' = [letIn EXCEPT ![r] = {i}]
    /\ \/ pc' = [pc EXCEPT ![r] = IF Path[r] = "ticket" THEN "ticketed" ELSE "placing"] /\ UNCHANGED unheard
       \/ pc' = [pc EXCEPT ![r] = "failed"] /\ unheard' = unheard \cup {r}
    /\ raced' = IF \E s \in SameBet(r) \ {r} : pc[s] = "placing" /\ letIn[s] = {i} THEN raced \cup {r} ELSE raced
    /\ UNCHANGED <<chainOpen, bookVars, poll, unsaved, consumed, ledger, forgotten>>

\* The network: the vault takes the escrow while its market is open.
Execute(r) ==
    /\ tx[r] = "submitted"
    /\ tx' = [tx EXCEPT ![r] = IF chainOpen THEN "executed" ELSE "reverted"]
    /\ UNCHANGED <<chainOpen, bookVars, callVars, consumed, ledger, forgotten, unheard, raced>>

ChainCloses ==
    /\ chainOpen /\ chainOpen' = FALSE
    /\ UNCHANGED <<tx, bookVars, callVars, consumed, ledger, forgotten, unheard, raced>>

\* Operators named Faulty... are not part of the model: each is the definition after it with
\* one plausible mistake, and shows that some property below notices it.
FaultyAlreadyRecorded(entry, r) == FALSE
AlreadyRecorded(entry, r) == dedupeKey(r) # {} /\ dedupeKey(r) \subseteq entry.keys

\* ledgerRecordBet at instance i: at most once per key, before the status check; it throws
\* (the bet is missed) once the instance's entry is settled.
ledgerRecordBet(i, r, outcome) ==
    IF AlreadyRecorded(ledger[i], r)
    THEN outcome = "recorded" /\ UNCHANGED ledger
    ELSE IF ~ledger[i].settled
    THEN /\ outcome = "recorded"
         /\ ledger' = [ledger EXCEPT ![i].keys = @ \cup dedupeKey(r), ![i].stakes[r] = @ + 1]
    ELSE outcome = "missed" /\ UNCHANGED ledger

\* placeBet came back: an x402 payment is burnt here, and the bet recorded.  recordBet asks
\* for a flush; the agent routes wait for one even when it threw.
Placed(r) == \E i \in letIn[r], outcome \in {"recorded", "missed"} :
    /\ pc[r] = "placing"
    /\ tx[r] = "executed"
    /\ consumed' = IF Path[r] # "x402" THEN consumed ELSE [consumed EXCEPT ![i] = @ \cup {PaymentOf[r]}]
    /\ ledgerRecordBet(i, r, outcome) /\ pc' = [pc EXCEPT ![r] = outcome]
    /\ dirty' = IF outcome = "recorded" \/ Path[r] \in {"x402", "fleet"} THEN dirty \cup {i} ELSE dirty
    /\ UNCHANGED <<chainVars, storedLedger, hydrating, lastRead, overruled, replaced, poll, letIn, unsaved,
                   forgotten, unheard, raced>>

Told(outcome) == IF outcome = "recorded" THEN "indexed" ELSE "unindexed"

\* The caller is answered after the flush it waited for, whatever came of that flush.
Answer(r) == \E i \in letIn[r] :
    /\ pc[r] \in {"recorded", "missed"}
    /\ pc' = [pc EXCEPT ![r] = Told(@)]
    /\ unsaved' = IF pc[r] = "recorded" /\ i \in dirty THEN unsaved \cup {r} ELSE unsaved
    /\ UNCHANGED <<chainVars, bookVars, poll, letIn, consumed, ledger, forgotten, unheard, raced>>

\* placeBet threw: reverted, or still pending when the window ran out (an unreadable
\* node looks pending too).
PlaceFailed(r) ==
    /\ pc[r] = "placing"
    /\ pc' = [pc EXCEPT ![r] = "failed"]
    /\ unheard' = IF tx[r] = "reverted" THEN unheard ELSE unheard \cup {r}
    /\ UNCHANGED <<chainVars, bookVars, poll, letIn, unsaved, consumed, ledger, forgotten, raced>>

\* One poll of /confirm: ask the node, in a later step record what it said, and answer.
PollChain(r, k) ==
    /\ pc[r] \in {"ticketed", "indexed", "unindexed"}
    /\ Path[r] = "ticket"
    /\ poll[r][k] = "idle"
    /\ \/ tx[r] = "executed" /\ poll' = [poll EXCEPT ![r][k] = "confirmed"] /\ UNCHANGED pc
       \/ tx[r] = "reverted" /\ pc' = [pc EXCEPT ![r] = "failed"] /\ UNCHANGED poll
    /\ UNCHANGED <<chainVars, bookVars, letIn, unsaved, consumed, ledger, forgotten, unheard, raced>>

PollIndex(r, k) == \E outcome \in {"recorded", "missed"} :
    /\ poll[r][k] = "confirmed"
    /\ ledgerRecordBet(AskedOf[k], r, outcome) /\ poll' = [poll EXCEPT ![r][k] = outcome]
    /\ dirty' = IF outcome = "recorded" THEN dirty \cup {AskedOf[k]} ELSE dirty
    /\ UNCHANGED <<chainVars, storedLedger, hydrating, lastRead, overruled, replaced, pc, letIn, unsaved,
                   consumed, forgotten, unheard, raced>>

PollAnswer(r, k) ==
    /\ poll[r][k] \in {"recorded", "missed"}
    /\ pc' = [pc EXCEPT ![r] = Told(poll[r][k])]
    /\ poll' = [poll EXCEPT ![r][k] = "idle"]
    /\ unsaved' = IF poll[r][k] = "recorded" /\ AskedOf[k] \in dirty THEN unsaved \cup {r} ELSE unsaved
    /\ UNCHANGED <<chainVars, bookVars, letIn, consumed, ledger, forgotten, unheard, raced>>

\* The ticket outlived its hour before any poll was told "confirmed".
TicketExpires(r) ==
    /\ pc[r] = "ticketed"
    /\ \A k \in Pollers : poll[r][k] = "idle"
    /\ pc' = [pc EXCEPT ![r] = "expired"]
    /\ UNCHANGED <<chainVars, bookVars, poll, letIn, unsaved, consumed, ledger, forgotten, unheard, raced>>

\* An instance settles the market in its own memory.
Settle(i) ==
    /\ ~ledger[i].settled
    /\ ledger' = [ledger EXCEPT ![i].settled = TRUE]
    /\ dirty' = dirty \cup {i}
    /\ UNCHANGED <<chainVars, storedLedger, hydrating, lastRead, overruled, replaced, callVars, consumed,
                   forgotten, unheard, raced>>

\* pickLedgerEntry may keep entry e whole and drop f: a settled one beats an open one, then
\* the larger pool wins.  Which is larger depends on the amounts, which are not modelled.
MayOutweigh(e, f) ==
    IF e.settled # f.settled THEN e.settled
    ELSE e.stakes = f.stakes \/ \E q \in Requests : e.stakes[q] > f.stakes[q]

BetsIn(entry) == {q \in Requests : entry.stakes[q] > 0}

\* persistEconomyState: the store's entry is merged into memory - one of the two whole, the
\* keys of both - and put back.  Refused for good (its conflicts are exhausted), it leaves
\* memory merged and dirty; if the store cannot be read, nothing happens at all.
Flush(i) == \E won, other \in {ledger[i], storedLedger} :
    LET merged == [won EXCEPT !.keys = ledger[i].keys \cup storedLedger.keys] IN
    /\ i \in dirty
    /\ {won, other} = {ledger[i], storedLedger} /\ MayOutweigh(won, other)
    /\ ledger' = [ledger EXCEPT ![i] = merged]
    /\ lastRead' = [lastRead EXCEPT ![i] = storedLedger.keys]
    /\ \/ /\ storedLedger' = merged /\ dirty' = dirty \ {i}
          /\ overruled' = overruled \cup (BetsIn(other) \ BetsIn(won))
       \/ /\ UNCHANGED <<storedLedger, dirty>>
          /\ overruled' = overruled \cup (BetsIn(ledger[i]) \ BetsIn(won))
    /\ UNCHANGED <<chainVars, hydrating, replaced, callVars, consumed, forgotten, unheard, raced>>

\* A GET is sent: for a request when the last read is older than its time to live, at the
\* start of a tick always, whatever is unflushed.
ReadStore(i) ==
    /\ hydrating[i] = {}
    /\ hydrating' = [hydrating EXCEPT ![i] = {storedLedger}]
    /\ UNCHANGED <<chainVars, storedLedger, dirty, lastRead, overruled, replaced, callVars, consumed, ledger,
                   forgotten, unheard, raced>>

\* Bets only instance i has: the stake or its key is in its memory and not in the store.
OnlyWith(i) ==
    {q \in Requests : \/ ledger[i].stakes[q] > storedLedger.stakes[q]
                      \/ ~(dedupeKey(q) \cap ledger[i].keys \subseteq storedLedger.keys)}

\* Its answer replaces memory, and what was recorded since it was sent.
Hydrate(i) == \E entry \in hydrating[i] :
    /\ ledger' = [ledger EXCEPT ![i] = entry]
    /\ lastRead' = [lastRead EXCEPT ![i] = entry.keys]
    /\ hydrating' = [hydrating EXCEPT ![i] = {}]
    /\ replaced' = replaced \cup OnlyWith(i)
    /\ UNCHANGED <<chainVars, storedLedger, dirty, overruled, callVars, consumed, forgotten, unheard, raced>>

\* A recycled instance loses its spent payments, its ledger, what it had not flushed and its
\* requests in flight; whoever polled it polls again.
Restart(i) ==
    LET dead == {r \in Requests : letIn[r] = {i} /\ pc[r] \in {"placing", "recorded", "missed"}} IN
    /\ consumed' = [consumed EXCEPT ![i] = {}]
    /\ ledger' = [ledger EXCEPT ![i] = Nothing]
    /\ dirty' = dirty \ {i}
    /\ hydrating' = [hydrating EXCEPT ![i] = {}] /\ lastRead' = [lastRead EXCEPT ![i] = {}]
    /\ pc' = [r \in Requests |-> IF r \in dead THEN "failed" ELSE pc[r]]
    /\ unheard' = unheard \cup dead
    /\ poll' = [r \in Requests |-> [k \in Pollers |-> IF AskedOf[k] = i THEN "idle" ELSE poll[r][k]]]
    /\ forgotten' = forgotten \cup {r \in Requests : letIn[r] = {i}}
    /\ UNCHANGED <<chainVars, storedLedger, overruled, replaced, letIn, unsaved, raced>>

BetNext ==
    \/ ChainCloses
    \/ \E i \in Instances : Settle(i) \/ Flush(i) \/ ReadStore(i) \/ Hydrate(i) \/ Restart(i)
    \/ \E r \in Requests :
          \/ \E i \in Instances : Submit(r, i)
          \/ Execute(r)
          \/ Placed(r)
          \/ PlaceFailed(r)
          \/ Answer(r)
          \/ TicketExpires(r)
          \/ \E k \in Pollers : PollChain(r, k) \/ PollIndex(r, k) \/ PollAnswer(r, k)

BetSpec == BetInit /\ [][BetNext]_betVars

-----------------------------------------------------------------------------
\* No ledger, in the store or in an instance's memory, ever shows a stake no escrow backs, or
\* shows one twice - not after two polls of one ticket at two instances, not after one
\* payment was taken by two, not after a restart, a merge or a re-read (ledgerRecordBet's
\* dedupe key, which stays with the stake it stands for).
BoardsShowOnlyEscrows == \A entry \in {storedLedger} \cup {ledger[i] : i \in Instances} :
    \A r \in Requests :
        /\ entry.stakes[r] > 0 => tx[r] = "executed"
        /\ \A q, s \in SameBet(r) : entry.stakes[q] + (IF q = s THEN 0 ELSE entry.stakes[s]) <= 1

OnTheBoards(r) == SameBet(r) \cap BetsIn(storedLedger) # {}

\* An escrow the store does not show is never one its caller had reason to think is there: it
\* is still on its way, was reported unindexed or unanswered, or its ticket expired; or it
\* was told indexed, and then the flush it waited for had failed, or a merge kept the other
\* instance's pools whole, or a re-read replaced it in memory before its flush.  An agent
\* told it failed for certain has nothing on chain.
MissedEscrowsAreKnown ==
    \A r \in Requests :
        /\ pc[r] = "indexed" => tx[r] = "executed"
        /\ tx[r] = "executed" /\ pc[r] = "failed" => r \in unheard
        /\ tx[r] = "executed" /\ ~OnTheBoards(r) =>
              \/ pc[r] \in {"placing", "recorded", "missed", "ticketed", "unindexed", "expired"}
              \/ r \in unheard \cup unsaved
              \/ SameBet(r) \cap (overruled \cup replaced) # {}

\* One payment settles one bet per instance (consumedPayments), but for what the check before
\* the awaited chain call cannot see: a second request let in while the first was in flight,
\* an escrow that executed after its caller gave up, an instance recycled in between.
\* Between instances only the store's keys stand guard: a bet told indexed has its key there
\* unless its flush failed or a re-read replaced it, and an instance that has read a key
\* refuses its payment from then on.
OnePaymentOneBet ==
    /\ \A r, s \in Requests :
          r # s /\ s \in SameBet(r) /\ tx[r] = "executed" /\ tx[s] = "executed" /\ letIn[r] = letIn[s]
              => {r, s} \cap (raced \cup unheard \cup forgotten) # {}
    /\ \A r \in Requests :
          pc[r] = "indexed" /\ r \notin unsaved /\ SameBet(r) \cap replaced = {} => dedupeKey(r) \subseteq storedLedger.keys
    /\ \A i \in Instances : lastRead[i] \subseteq ledger[i].keys \cap storedLedger.keys
=============================================================================
