----------------------------- MODULE MCSettlement -----------------------------
(***************************************************************************)
(* TLC instances of Arbiter and EconomyTick.  "catalogue": two listed      *)
(* markets, one of which cannot be decided, an operator, answers that      *)
(* move, and no rounds.  "rounds": a recurring market beside a catalogue   *)
(* that cannot be decided, its rounds opened or only listed, swept, and at *)
(* most one of those that mature not decidable.                            *)
(***************************************************************************)
EXTENDS EconomyTick, TLC

CONSTANTS m1, m2, Focus

VARIABLES
    which,      \* what this behaviour is about
    bound       \* kills and operator calls so far

TheCatalogue == <<m1, m2>>

SettlementInit ==
    /\ which \in Focus /\ bound = 0
    /\ ArbiterInit
    /\ \A m \in Markets : answer[m] \in {"unknown", "yes"}
    /\ IF which = "catalogue" THEN \A m \in Markets : (answer[m] = "yes") <=> m = m2
       ELSE /\ \A m \in Listed \cup {MaxRound} : answer[m] = "unknown"
            /\ Cardinality({r \in 0 .. MaxRound - 1 : answer[r] = "unknown"}) <= 1

Free(c) == which = c /\ UNCHANGED <<which, bound>>
Costs(c, n) == which = c /\ bound < n /\ bound' = bound + 1 /\ UNCHANGED which

SweepStep == StartSweep \/ SweepEnds \/ \E i \in 1 .. Len(storeList) : decide(i)
CronStep ==
    \/ ResolveLands("cron") \/ chainAlreadySettled("cron") \/ ResolveFails("cron")
    \/ settle("cron") \/ FinishResolution("cron")
Rollover == \E fate \in Creates : (which = "catalogue" => fate = "skipped") /\ rollMaturedRounds(fate)
Answered(m) ==
    /\ At("cron", "decided") /\ worker["cron"].on = m
    /\ ResolveLands("cron") \/ chainAlreadySettled("cron")

SettlementNext ==
    \E c \in {"catalogue", "rounds"} :
       \/ Free(c) /\ StartSweep
       \/ \E i \in 1 .. Len(storeList) : Free(c) /\ decide(i)
       \/ \E w \in Workers : Free(c) /\ ResolveLands(w)
       \/ \E w \in Workers : Free(c) /\ chainAlreadySettled(w)
       \/ \E w \in Workers : Free(c) /\ ResolveFails(w)
       \/ \E w \in Workers : Free(c) /\ settle(w)
       \/ \E w \in Workers : Free(c) /\ FinishResolution(w)
       \/ \E m \in Markets, v \in Outcomes : Free(c) /\ LateExecutes(m, v)
       \/ Free(c) /\ SweepEnds
       \/ c = "catalogue" /\ Costs(c, 2) /\ Killed
       \/ \E v \in Outcomes : c = "catalogue" /\ Costs(c, 2) /\ OperatorDecides(m2, v)
       \/ \E v \in {"no", "void"} : c = "catalogue" /\ Free(c) /\ AnswerMoves(m2, v)
       \/ c = "rounds" /\ Free(c) /\ currentRound
       \/ Free(c) /\ Rollover

settlementVars == <<which, bound, arbiterVars>>

\* A tick is fired for ever, every awaited call of it returns, and a resolve that is retried
\* for ever is answered in the end.  Nothing is assumed of the operator, nor of time, of
\* answers or of late transactions.
SettlementSpec ==
    /\ SettlementInit /\ [][SettlementNext]_settlementVars
    /\ WF_arbiterVars(SweepStep \/ CronStep \/ Rollover)
    /\ \A m \in Markets : SF_arbiterVars(Answered(m))
=============================================================================
