------------------------------- MODULE Arbiter -------------------------------
(***************************************************************************)
(* How a matured market settles: the arbiter decides it, posts the answer  *)
(* to the vault, settles the mirror, and notifies bound contracts          *)
(* (agent/arbiter.ts), in a sweep of every locked market inside a time     *)
(* budget; an operator may resolve any market beside it                    *)
(* (app/api/chain/resolve).  A resolve may execute after its sender gave   *)
(* up, a tick may be killed, and what it settled is stored only at its     *)
(* end.  The markets are the catalogue's and the rounds 0, 1, ... of one   *)
(* recurring market (module EconomyTick opens those).                      *)
(***************************************************************************)
EXTENDS Naturals, Sequences, FiniteSets

CONSTANTS
    Catalogue,      \* the catalogue's matured markets, in list order
    MaxRound,       \* bound: last round of the recurring market
    Outcomes,       \* outcome keys
    SweepBudget     \* resolutions one sweep has time to start

ASSUME ArbiterAssumption == MaxRound \in Nat /\ SweepBudget \in Nat \ {0}

Rounds == 0 .. MaxRound
Listed == {Catalogue[i] : i \in 1 .. Len(Catalogue)}
Markets == Listed \cup Rounds

ASSUME CatalogueIsAList == Catalogue \in Seq(Listed)
\* No outcome is named like a state of a market.
ASSUME OutcomesAreNames == Outcomes \cap {"absent", "open", "unsettled", "none", "void", "unknown"} = {}

Answers == Outcomes \cup {"void"}
Workers == {"cron", "operator"}

VARIABLES
    answer,         \* answer[m]: what decide would say now ("unknown": not yet decidable)
    onChain,        \* onChain[m]: "absent", "open" or the outcome resolved on chain
    mirror,         \* mirror[m]: "absent", "unsettled" or the answer settled, in memory
    stored,         \* the mirror as last flushed
    hook,           \* hook[m]: the outcome bound contracts were told, or "none"
    late,           \* <<m, outcome>> resolves submitted, given up on, still in the mempool
    worker,         \* worker[w]: what w is doing
    round,          \* the current round
    sweep,          \* [on, at, tried]: the tick's phase, list position, resolutions started
    asked           \* history: asked[m]: the answers ever taken for m

arbiterVars == <<answer, onChain, mirror, stored, hook, late, worker, round, sweep, asked>>

idle == [at |-> "idle"]
At(w, at) == worker[w].at = at

ArbiterInit ==
    /\ answer \in [Markets -> Answers \cup {"unknown"}]
    /\ onChain = [m \in Markets |-> IF m \in Rounds THEN "absent" ELSE "open"]
    /\ mirror = [m \in Markets |-> IF m \in Rounds THEN "absent" ELSE "unsettled"]
    /\ stored = mirror
    /\ hook = [m \in Markets |-> "none"]
    /\ late = {} /\ round = 0
    /\ worker = [w \in Workers |-> idle]
    /\ sweep = [on |-> "off", at |-> 1, tried |-> 0]
    /\ asked = [m \in Markets |-> {}]

\* store.list: the catalogue in order, then the created rounds, oldest first.
storeList == Catalogue \o [i \in 1 .. MaxRound + 1 |-> i - 1]
locked(m) == mirror[m] = "unsettled" /\ (m \in Rounds => m < round)

StartSweep ==
    /\ sweep.on = "off" /\ At("cron", "idle")
    /\ sweep' = [on |-> "sweep", at |-> 1, tried |-> 0]
    /\ UNCHANGED <<answer, onChain, mirror, stored, hook, late, worker, round, asked>>

\* The next locked market: decided, or left locked because nothing can decide it yet.
NextLocked(i) ==
    /\ i \in sweep.at .. Len(storeList)
    /\ locked(storeList[i])
    /\ \A j \in sweep.at .. i - 1 : ~locked(storeList[j])

decide(i) ==
    LET m == storeList[i] IN
    /\ sweep.on = "sweep" /\ At("cron", "idle")
    /\ sweep.tried < SweepBudget
    /\ NextLocked(i)
    /\ IF answer[m] = "unknown"
       THEN sweep' = [sweep EXCEPT !.at = i + 1] /\ UNCHANGED <<worker, asked>>
       ELSE /\ sweep' = [sweep EXCEPT !.at = i + 1, !.tried = @ + 1]
            /\ worker' = [worker EXCEPT !["cron"] = [at |-> "decided", on |-> m, ans |-> answer[m]]]
            /\ asked' = [asked EXCEPT ![m] = @ \cup {answer[m]}]
    /\ UNCHANGED <<answer, onChain, mirror, stored, hook, late, round>>

\* The operator asserts an outcome of a market with no settlement yet.
OperatorDecides(m, v) ==
    /\ At("operator", "idle")
    /\ v \in Outcomes /\ mirror[m] = "unsettled"
    /\ worker' = [worker EXCEPT !["operator"] = [at |-> "decided", on |-> m, ans |-> v]]
    /\ asked' = [asked EXCEPT ![m] = @ \cup {v}]
    /\ UNCHANGED <<answer, onChain, mirror, stored, hook, late, round, sweep>>

\* The resolve executed, or the answer is void and nothing is sent at all.
ResolveLands(w) ==
    LET m == worker[w].on  v == worker[w].ans IN
    /\ At(w, "decided")
    /\ v = "void" \/ onChain[m] = "open"
    /\ onChain' = IF v = "void" THEN onChain ELSE [onChain EXCEPT ![m] = v]
    /\ worker' = [worker EXCEPT ![w].at = "resolved"]
    /\ UNCHANGED <<answer, mirror, stored, hook, late, round, sweep, asked>>

\* Operators named Faulty... are not part of the model: each is the definition after it with
\* one plausible mistake, and shows that some property below notices it.
FaultyAfterAlreadySettled(w) == idle
AfterAlreadySettled(w) == IF w = "cron" THEN [worker[w] EXCEPT !.at = "resolved"] ELSE idle

\* AlreadySettled: the sweep goes on to settle the mirror, the operator's route answers 502.
chainAlreadySettled(w) ==
    /\ At(w, "decided")
    /\ worker[w].ans # "void" /\ onChain[worker[w].on] \in Outcomes
    /\ worker' = [worker EXCEPT ![w] = AfterAlreadySettled(w)]
    /\ UNCHANGED <<answer, onChain, mirror, stored, hook, late, round, sweep, asked>>

FaultyAfterFailure(w) == IF w = "cron" THEN [worker[w] EXCEPT !.at = "resolved"] ELSE idle
AfterFailure(w) == idle

\* Every other failure ends this market's attempt: no such market, a node that refuses, a
\* confirmation window that ran out with the resolve still pending.
ResolveFails(w) ==
    LET m == worker[w].on IN
    /\ At(w, "decided")
    /\ worker[w].ans # "void"
    /\ late' \in {late, IF onChain[m] = "open" THEN late \cup {<<m, worker[w].ans>>} ELSE late}
    /\ worker' = [worker EXCEPT ![w] = AfterFailure(w)]
    /\ UNCHANGED <<answer, onChain, mirror, stored, hook, round, sweep, asked>>

LateExecutes(m, v) ==
    /\ <<m, v>> \in late
    /\ late' = late \ {<<m, v>>}
    /\ onChain' = IF onChain[m] = "open" THEN [onChain EXCEPT ![m] = v] ELSE onChain
    /\ UNCHANGED <<answer, mirror, stored, hook, worker, round, sweep, asked>>

\* ledgerSettle: the first settlement stands.
settle(w) ==
    LET m == worker[w].on IN
    /\ At(w, "resolved")
    /\ mirror' = IF mirror[m] = "unsettled" THEN [mirror EXCEPT ![m] = worker[w].ans] ELSE mirror
    /\ worker' = [worker EXCEPT ![w].at = "settled"]
    /\ UNCHANGED <<answer, onChain, stored, hook, late, round, sweep, asked>>

\* Reputation, evidence and anchoring, then the hooks: told once per market, of this worker's
\* own answer, never of a void; any step may fail and none is retried.  The operator's route
\* stops at the reputation and flushes.
FinishResolution(w) ==
    LET m == worker[w].on  v == worker[w].ans IN
    /\ At(w, "settled")
    /\ \/ hook' = IF w = "cron" /\ v # "void" /\ hook[m] = "none" THEN [hook EXCEPT ![m] = v] ELSE hook
       \/ UNCHANGED hook
    /\ stored' = IF w = "operator" THEN mirror ELSE stored
    /\ worker' = [worker EXCEPT ![w] = idle]
    /\ UNCHANGED <<answer, onChain, mirror, late, round, sweep, asked>>

\* The list is exhausted, or the time budget is; what is left waits for the next tick.
SweepEnds ==
    /\ sweep.on = "sweep" /\ At("cron", "idle")
    /\ sweep.tried = SweepBudget \/ \A i \in sweep.at .. Len(storeList) : ~locked(storeList[i])
    /\ sweep' = [on |-> "rollover", at |-> 1, tried |-> 0]
    /\ UNCHANGED <<answer, onChain, mirror, stored, hook, late, worker, round, asked>>

\* An attestation is published; a board the answer is read from moves.
AnswerMoves(m, v) ==
    /\ v \in Answers \ {answer[m]}
    /\ answer' = [answer EXCEPT ![m] = v]
    /\ UNCHANGED <<onChain, mirror, stored, hook, late, worker, round, sweep, asked>>

\* The platform kills the instance: whatever was not flushed is gone.
Killed ==
    /\ sweep.on # "off" \/ ~At("operator", "idle")
    /\ mirror' = stored
    /\ worker' = [w \in Workers |-> idle]
    /\ sweep' = [on |-> "off", at |-> 1, tried |-> 0]
    /\ UNCHANGED <<answer, onChain, stored, hook, late, round, asked>>

-----------------------------------------------------------------------------
\* The mirror pays on an outcome only once the vault has resolved the market; and where every
\* answer ever taken for a market is the same one, the vault, the mirror and the contracts
\* told can hold no other - through retries, kills, late resolves and the operator.
OneAnswerOneSettlement ==
    \A m \in Markets :
        /\ mirror[m] \in Outcomes => onChain[m] \in Outcomes
        /\ \A v \in Answers : asked[m] = {v} =>
              /\ onChain[m] \in {"absent", "open", v}
              /\ mirror[m] \in {"absent", "unsettled", v}
              /\ hook[m] \in {"none", v}

\* Rounds listed before m that no sweep can settle: they can be on the boards, but the vault has
\* no market to resolve.  Each takes a resolution of every sweep, to fail.
Hopeless(m) ==
    {r \in Rounds : m \in Rounds /\ r \in 0 .. m - 1 /\ onChain[r] = "absent" /\ stored[r] \notin Answers}

\* A market that has matured, is on the stored boards and in the vault, and can be decided is
\* settled in the end, whatever fails now and then, while fewer rounds are hopeless before it
\* than a sweep has time for.  With as many it is never tried: nothing takes a hopeless round
\* out of the sweep's list (agent/arbiter.ts:327-353), which starts from the first at every tick.
EveryMaturedMarketSettles ==
    \A m \in Markets :
        (/\ stored[m] = "unsettled" /\ (m \in Rounds => m < round)
         /\ onChain[m] # "absent" /\ answer[m] # "unknown"
         /\ Cardinality(Hopeless(m)) < SweepBudget)
            ~> (stored[m] \in Answers)
=============================================================================
