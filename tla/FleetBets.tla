------------------------------ MODULE FleetBets ------------------------------
(***************************************************************************)
(* The Prophet fleet's half of a tick: what the purses allow               *)
(* (core/cadence.ts), whether the paid-but-not-placed breaker is open      *)
(* (agent/bet-breaker.ts), which market the round trades and each agent's  *)
(* turn on it (agent/prophet.ts), and the quarantine of a market the chain *)
(* will always refuse (agent/market-quarantine.ts).  Money is counted in   *)
(* turns: what one escrow, or one agent's turn, costs; a round costs the   *)
(* treasury PerTick of them.                                               *)
(*                                                                         *)
(* The breaker and the quarantine live in the instance's memory.  A        *)
(* logged action starts a flush and a tick ends with one, but a failure    *)
(* and a quarantine start none, and every look at the markets may re-read  *)
(* the store once its thirty seconds are over and replace them             *)
(* (adapters/persist/economy-state.ts).  One instance runs the ticks, one  *)
(* at a time; an answer of the store that is late, an instance that starts *)
(* with the store down, and writers that merge are EconomyPersistence's.   *)
(* What is counted here is what ticks strand: an agent run by hand, and    *)
(* the fleet's first bet on a market it creates, obey no breaker.          *)
(***************************************************************************)
EXTENDS Integers, Sequences, FiniteSetsExt, Functions

CONSTANTS
    Fleet,              \* the prophets, in roster order
    SelfSigned,         \* those whose own key signs the escrow
    Board,              \* the open base markets, in list order
    PerTick,            \* prophetsPerTick
    TripThreshold,      \* BREAKER_TRIP_THRESHOLD
    BettingFloor, CreationFloor, SeedingFloor,   \* rounds of runway, smallest first
    FullPurse,          \* bound: turns a refilled purse holds
    MaxTicks            \* bound on ticks

ASSUME ListsAssumption == Fleet \in Seq(Range(Fleet)) /\ Board \in Seq(Range(Board))
ASSUME FleetAssumption ==
    /\ PerTick \in 1 .. Len(Fleet)
    /\ TripThreshold \in Nat \ {0}
    /\ BettingFloor \in Nat /\ CreationFloor \in Nat /\ SeedingFloor \in Nat
    /\ BettingFloor <= CreationFloor /\ CreationFloor <= SeedingFloor

VARIABLES
    treasury, purse,    \* runway, in turns
    misrouted,          \* markets whose contract refuses every bet: UnknownMarket, UnknownOutcome
    failures, tripped, quarantined,             \* in memory
    counter,            \* actions ever logged: nextRoundSeq
    storedBreaker,      \* <<failures, tripped, quarantined, counter>> as last flushed
    unflushed,          \* an action was logged that no flush has stored: dirty
    turn,               \* the tick: its stage, turns left, market and round
    ticks,              \* ticks begun
    strandedRun,        \* history: stakes paid for and not placed since the breaker was last cleared
    strandedOn,         \* history: the same on each quarantined market, since its last release
    lapses              \* history: times the instance forgot what it had learnt of the breaker or a payment

memory == <<failures, tripped, quarantined, counter>>
chainSide == <<treasury, purse, misrouted>>
losses == <<strandedRun, strandedOn>>
fleetVars == <<chainSide, memory, storedBreaker, unflushed, turn, ticks, losses, lapses>>

Names == Range(Fleet)
noTurn == [stage |-> "none", left |-> 0, target |-> {}, seq |-> 0]

FleetInit ==
    /\ treasury = SeedingFloor * PerTick /\ purse = [p \in Names |-> FullPurse]
    /\ misrouted \in SUBSET Range(Board)
    /\ failures = 0 /\ tripped = FALSE /\ quarantined = {}
    /\ counter = 0 /\ storedBreaker = <<0, FALSE, {}, 0>> /\ unflushed = FALSE
    /\ turn = noTurn /\ ticks = 0
    /\ strandedRun = 0 /\ strandedOn = [m \in Range(Board) |-> 0]
    /\ lapses = 0

\* Seeding stops first, creation next, betting last; betting asks the richest purse, and the
\* treasury only while some agent's escrow is the treasury's to sign.
planCadence ==
    LET best == Max(Range(purse))
        rounds == treasury \div PerTick
        allowBets == best >= BettingFloor /\ (Names \subseteq SelfSigned \/ rounds >= BettingFloor)
        allowCreation == rounds >= CreationFloor
    IN  [bets |-> allowBets, creation |-> allowCreation, seeding |-> rounds >= SeedingFloor,
         cadence |-> CASE ~allowBets /\ ~allowCreation -> "paused"
                       [] allowBets # allowCreation -> "minimal"
                       [] allowBets /\ allowCreation /\ rounds < SeedingFloor -> "reduced"
                       [] OTHER -> "full"]

\* The markets a round may trade, by their place in the list; the round number goes round them.
openMarkets(near) == {i \in DOMAIN Board : Board[i] \notin quarantined \cup near}
selectRoundTarget(open, seq) ==
    Board[CHOOSE i \in open : Cardinality({j \in open : j < i}) = seq % Cardinality(open)]
agentAt(i) == Fleet[((turn.seq + i) % Len(Fleet)) + 1]

\* Operators named Faulty... are not part of the model: each is the definition after it with
\* one plausible mistake, and shows that some property below notices it.
FaultyBettingHalted == failures > TripThreshold
bettingHalted == tripped

\* The store takes the memory's place: what it never held of the breaker is gone.
Differs == failures # storedBreaker[1] \/ tripped # storedBreaker[2] \/ quarantined # storedBreaker[3]
Lapse == lapses' = IF Differs THEN lapses + 1 ELSE lapses
Restored ==
    /\ failures' = storedBreaker[1] /\ tripped' = storedBreaker[2]
    /\ quarantined' = storedBreaker[3] /\ counter' = storedBreaker[4]

\* A tick begins with a re-read it forces, whatever is unflushed, and that may fail; then the
\* operator who asked for it may have the breaker reset and markets released, their routing
\* fixed or not.  Neither starts a flush.
StartTick(read, reset, released, fixed) ==
    LET seen == IF read THEN storedBreaker ELSE memory
        freed == released \cap seen[3] IN
    /\ turn = noTurn /\ ticks < MaxTicks
    /\ fixed \subseteq freed /\ misrouted' = misrouted \ fixed
    /\ failures' = IF reset THEN 0 ELSE seen[1]
    /\ tripped' = (~reset /\ seen[2])
    /\ quarantined' = seen[3] \ released
    /\ counter' = seen[4]
    /\ IF read THEN Lapse ELSE UNCHANGED lapses
    /\ strandedRun' = IF reset THEN 0 ELSE strandedRun
    /\ strandedOn' = [m \in Range(Board) |-> IF m \in freed THEN 0 ELSE strandedOn[m]]
    /\ ticks' = ticks + 1
    /\ turn' = [stage |-> "started", left |-> PerTick, target |-> {}, seq |-> seen[4]]
    /\ UNCHANGED <<treasury, purse, storedBreaker, unflushed>>

\* Throttled or halted, no agent moves.
DecideBetting ==
    /\ turn.stage = "started"
    /\ turn' = IF bettingHalted \/ ~planCadence.bets THEN [turn EXCEPT !.stage = "betting", !.left = 0]
               ELSE [turn EXCEPT !.stage = "let"]
    /\ UNCHANGED <<chainSide, memory, storedBreaker, unflushed, ticks, losses, lapses>>

\* The round's market, passing over those about to lock.
ChooseMarket(near) ==
    LET open == openMarkets(near) IN
    /\ turn.stage = "let"
    /\ turn' = IF open = {} THEN [turn EXCEPT !.stage = "betting", !.left = 0]
               ELSE [turn EXCEPT !.stage = "betting", !.target = {selectRoundTarget(open, turn.seq)}]
    /\ UNCHANGED <<chainSide, memory, storedBreaker, unflushed, ticks, losses, lapses>>

IsTurnOf(p) == turn.stage = "betting" /\ turn.left > 0 /\ p = agentAt(PerTick - turn.left)
TurnOver == turn' = [turn EXCEPT !.left = @ - 1]

\* An unfunded agent, or one whose transfer fails, sits the round out.
SitsOut(p) ==
    /\ IsTurnOf(p) /\ TurnOver
    /\ UNCHANGED <<chainSide, memory, storedBreaker, unflushed, ticks, losses, lapses>>

\* The stake is escrowed, by the agent or by the treasury it just paid: recordPlacement, and the
\* logged action starts a flush.
Places(p) ==
    /\ IsTurnOf(p) /\ TurnOver
    /\ purse[p] > 0 /\ turn.target \cap misrouted = {}
    /\ p \notin SelfSigned => treasury > 0
    /\ purse' = [purse EXCEPT ![p] = @ - 1]
    /\ treasury' = IF p \in SelfSigned THEN treasury ELSE treasury - 1
    /\ failures' = 0 /\ tripped' = FALSE /\ strandedRun' = 0
    /\ counter' = counter + 1 /\ unflushed' = TRUE
    /\ UNCHANGED <<misrouted, quarantined, storedBreaker, ticks, strandedOn, lapses>>

\* It is not: a self-signed escrow costs gas and strands nothing, an operator's strands the
\* stake already paid (recordPaidNotPlaced).  Only a revert that names the market's or the
\* outcome's absence quarantines the market; a timeout on it tells nothing.
DoesNotPlace(p, named) ==
    LET paid == p \notin SelfSigned
        faulty == IF named THEN turn.target ELSE {} IN
    /\ IsTurnOf(p) /\ TurnOver
    /\ purse[p] > 0 /\ faulty \subseteq misrouted
    /\ purse' = [purse EXCEPT ![p] = @ - 1]
    /\ treasury' \in {treasury, IF paid /\ treasury > 0 THEN treasury - 1 ELSE treasury}
    /\ failures' = IF paid THEN failures + 1 ELSE failures
    /\ tripped' = (tripped \/ (paid /\ failures + 1 >= TripThreshold))
    /\ quarantined' = quarantined \cup faulty
    /\ strandedRun' = IF paid THEN strandedRun + 1 ELSE strandedRun
    /\ strandedOn' = [m \in Range(Board) |-> IF paid /\ m \in turn.target \cap quarantined'
                                             THEN strandedOn[m] + 1 ELSE strandedOn[m]]
    /\ UNCHANGED <<misrouted, counter, storedBreaker, unflushed, ticks, lapses>>

\* The tick ends, after what the arbiter and the round rollover logged, with a flush that lands
\* or is refused.
EndTick(logged, lands) ==
    /\ turn.stage = "betting" /\ turn.left = 0 /\ turn' = noTurn
    /\ counter' = counter + logged
    /\ unflushed' = ~lands
    /\ UNCHANGED <<chainSide, failures, tripped, quarantined, ticks, losses, lapses>>
    /\ storedBreaker' = IF lands THEN memory' ELSE storedBreaker

\* The flush of a logged action lands, and stores the memory as it is by then.
FlushLands ==
    /\ unflushed /\ unflushed' = FALSE
    /\ storedBreaker' = memory
    /\ UNCHANGED <<chainSide, memory, turn, ticks, losses, lapses>>

\* Anything that reads the economy re-reads the store, in mid-tick as between ticks.
Rereads ==
    /\ ~unflushed /\ Differs
    /\ Restored /\ Lapse
    /\ UNCHANGED <<chainSide, storedBreaker, unflushed, turn, ticks, losses>>

\* The platform kills the instance, or recycles it; the next one starts from the store.
InstanceDies ==
    /\ turn # noTurn \/ memory # storedBreaker
    /\ turn' = noTurn /\ unflushed' = FALSE
    /\ Restored /\ Lapse
    /\ UNCHANGED <<chainSide, storedBreaker, ticks, losses>>

\* It may die in an agent's turn, the stake paid and nothing recorded of it.
DiesInTurn(p) ==
    /\ IsTurnOf(p) /\ turn' = noTurn /\ unflushed' = FALSE
    /\ p \notin SelfSigned /\ purse[p] > 0
    /\ purse' = [purse EXCEPT ![p] = @ - 1]
    /\ strandedRun' = strandedRun + 1
    /\ strandedOn' = [m \in Range(Board) |-> IF m \in turn.target \cap quarantined
                                             THEN strandedOn[m] + 1 ELSE strandedOn[m]]
    /\ Restored /\ lapses' = lapses + 1
    /\ UNCHANGED <<treasury, misrouted, storedBreaker, ticks>>

Refill ==
    /\ turn = noTurn
    /\ treasury + Max(Range(purse)) < SeedingFloor * PerTick + FullPurse
    /\ treasury' = SeedingFloor * PerTick /\ purse' = [p \in Names |-> FullPurse]
    /\ UNCHANGED <<misrouted, memory, storedBreaker, unflushed, turn, ticks, losses, lapses>>

FleetNext ==
    \/ \E read, reset \in BOOLEAN, released \in SUBSET Range(Board) : \E fixed \in SUBSET released :
          StartTick(read, reset, released, fixed)
    \/ DecideBetting
    \/ \E near \in SUBSET Range(Board) : ChooseMarket(near)
    \/ \E p \in Names : SitsOut(p) \/ Places(p) \/ DiesInTurn(p) \/ \E named \in BOOLEAN : DoesNotPlace(p, named)
    \/ \E logged \in Nat, lands \in BOOLEAN : EndTick(logged, lands)
    \/ FlushLands \/ Rereads \/ InstanceDies \/ Refill

FleetSpec == FleetInit /\ [][FleetNext]_fleetVars

-----------------------------------------------------------------------------
\* A bounded loss repeated on a cron is an unbounded loss: between two clearings of the
\* breaker the ticks strand at most TripThreshold - 1 stakes and one tick's worth more, and a
\* market whose fault has been named strands at most one tick's worth until it is released -
\* and as much again for each time the instance forgot: the store took the place of a memory
\* that had learnt more, in mid-tick or at the start of a tick whose predecessor's flush was
\* refused, or the instance died with what it had learnt or with a payment nobody recorded.
LossesAreBounded ==
    /\ strandedRun <= (TripThreshold - 1 + PerTick) * (1 + lapses)
    /\ \A m \in Range(Board) : strandedOn[m] <= PerTick * (1 + lapses)
=============================================================================
