----------------------------- MODULE EconomyTick -----------------------------
(***************************************************************************)
(* One turn of the economy around the arbiter's sweep (agent/economy.ts):  *)
(* the rollover that opens the current round of a recurring market and     *)
(* backfills the two before it (agent/round-rollover.ts), and the flush    *)
(* that ends the tick.  The planner may refuse to pay for a create, a      *)
(* create may fail or execute unheard, and time does not wait for ticks.   *)
(***************************************************************************)
EXTENDS Arbiter

CONSTANTS BackfillRounds, Creates

ASSUME BackfillIsNat == BackfillRounds \in Nat

\* core/round-schedule: the current round is a function of the time alone.
currentRound ==
    /\ round < MaxRound
    /\ round' = round + 1
    /\ UNCHANGED <<answer, onChain, mirror, stored, hook, late, worker, sweep, asked>>

\* Past rounds are registered in the mirror only; the current one is created in the vault
\* first.  create is that call's fate: refused by the planner, the vault or the node
\* ("skipped"), confirmed ("opened"), or executed after its caller gave up ("unheard").
rollMaturedRounds(create) ==
    LET backfill == {r \in Rounds : r < round /\ round <= r + BackfillRounds /\ mirror[r] = "absent"}
        opened == {r \in {round} : create = "opened" /\ mirror[r] = "absent"}
    IN  /\ sweep.on = "rollover"
        /\ create \in Creates
        /\ create \in {"opened", "unheard"} => onChain[round] = "absent" /\ mirror[round] = "absent"
        /\ onChain' = IF create \in {"opened", "unheard"} THEN [onChain EXCEPT ![round] = "open"] ELSE onChain
        /\ mirror' = [m \in Markets |-> IF m \in backfill \cup opened THEN "unsettled" ELSE mirror[m]]
        /\ stored' = mirror'
        /\ sweep' = [sweep EXCEPT !.on = "off"]
        /\ UNCHANGED <<answer, hook, late, worker, round, asked>>

-----------------------------------------------------------------------------
\* The tick, the operator and time, in any order and for ever.
TickNext ==
    \/ StartSweep \/ SweepEnds \/ Killed \/ currentRound
    \/ \E i \in 1 .. Len(storeList) : decide(i)
    \/ \E w \in Workers :
          \/ ResolveLands(w) \/ chainAlreadySettled(w) \/ ResolveFails(w)
          \/ settle(w) \/ FinishResolution(w)
    \/ \E m \in Markets, v \in Answers :
          LateExecutes(m, v) \/ OperatorDecides(m, v) \/ AnswerMoves(m, v)
    \/ \E create \in Creates : rollMaturedRounds(create)

TickSpec == ArbiterInit /\ [][TickNext]_arbiterVars
=============================================================================
