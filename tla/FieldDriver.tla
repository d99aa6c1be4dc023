------------------------------ MODULE FieldDriver ------------------------------
(***************************************************************************)
(* The field-... commands of contracts/bin/catalogue.rs over a FieldMarket *)
(* contract: install it, fill its field in batches against the deploy      *)
(* plan, freeze it, settle it.  The plan may be published anew between two *)
(* commands, and a process may die after any transaction it sent.          *)
(***************************************************************************)
EXTENDS FieldMarket

CONSTANTS
    Plans,          \* candidate sets the deploy plan may publish
    BatchSize,      \* REGISTER_BATCH_SIZE
    Evidence        \* the hash of the evidence given to field-resolve

\* Committed evidence is a hash, never the empty string that stands for none.
ASSUME EvidenceIsAHash == Evidence # ""

VARIABLES
    installed,
    plan,           \* the manifest's outcomeKeys, now
    running,        \* the running command: [cmd, missing] or [cmd, evidence]
    sealed,         \* history: the plan field-freeze froze the market against
    unexplained     \* history: why a settled market may have no evidence

fieldDriverVars == <<installed, plan, running, sealed, unexplained>>

Resting == [cmd |-> "none"]

FieldDriverInit ==
    /\ installed = FALSE /\ plan \in Plans /\ running = Resting
    /\ sealed = {} /\ unexplained = FALSE

DeployField ==
    /\ ~installed /\ installed' = TRUE
    /\ UNCHANGED <<plan, running, sealed, unexplained, fieldVars, now>>

Republish(P) ==
    /\ plan # P /\ plan' = P
    /\ UNCHANGED <<installed, running, sealed, unexplained, fieldVars, now>>

StartFieldRegister ==
    /\ installed /\ running = Resting /\ ~frozen
    /\ running' = [cmd |-> "register", missing |-> plan \ keys]
    /\ UNCHANGED <<installed, plan, sealed, unexplained, fieldVars, now>>

\* One chunk of what was missing when the command began; afterwards the process may be gone.
RegisterChunk(K) ==
    /\ running.cmd = "register"
    /\ K \subseteq running.missing
    /\ Cardinality(K) = Min({BatchSize, Cardinality(running.missing)})
    /\ K # {}
    /\ RegisterCandidates(K)
    /\ \/ running' = [running EXCEPT !.missing = @ \ K]
       \/ running' = Resting
    /\ UNCHANGED <<installed, plan, sealed, unexplained>>

FieldRegisterEnds ==
    /\ running.cmd = "register"
    /\ running' = Resting
    /\ UNCHANGED <<installed, plan, sealed, unexplained, fieldVars, now>>

FaultyMatches == Cardinality(keys) = Cardinality(plan)
Matches == Cardinality(keys) = Cardinality(plan) /\ plan \subseteq keys

FieldFreeze ==
    /\ installed /\ running = Resting
    /\ Matches
    /\ FreezeField
    /\ sealed' = plan
    /\ UNCHANGED <<installed, plan, running, unexplained>>

\* field-resolve names the winner, then commits the evidence it was given, if any.
ResolveField(k, evidence) ==
    /\ installed /\ running = Resting
    /\ FieldResolve(k)
    /\ \/ running' = IF evidence = "" THEN Resting ELSE [cmd |-> "evidence"]
       \/ running' = Resting
    /\ unexplained' = (running' = Resting)
    /\ UNCHANGED <<installed, plan, sealed>>

CommitEvidence ==
    /\ running.cmd = "evidence"
    /\ CommitBundle(Evidence)
    /\ running' = Resting
    /\ UNCHANGED <<installed, plan, sealed, unexplained>>

EvidenceFails ==
    /\ running.cmd = "evidence"
    /\ running' = Resting /\ unexplained' = TRUE
    /\ UNCHANGED <<installed, plan, sealed, fieldVars, now>>

\* Bets come whenever the contract takes them.
StakeOnField(a, k, x) ==
    /\ installed /\ FieldBet(a, k, x)
    /\ UNCHANGED fieldDriverVars

-----------------------------------------------------------------------------
\* The field that opens for betting is exactly the one the plan published when it was frozen,
\* though batches are lost and retried and the plan changes between the commands.
FrozenFieldIsPublished == frozen => keys = sealed /\ sealed \in Plans

\* A market field-resolve settled has its evidence, unless none was given or the process died
\* between the two transactions.
SettledFieldIsExplained ==
    (phase # "open" /\ running.cmd # "evidence") => bundle # "" \/ unexplained
=============================================================================
