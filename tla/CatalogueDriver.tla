---------------------------- MODULE CatalogueDriver ----------------------------
(***************************************************************************)
(* contracts/bin/catalogue.rs: the command an operator runs to put the     *)
(* deploy plan's markets on chain, one transaction after the other from    *)
(* one purse.  The node holds a transaction's whole gas limit up front and     *)
(* charges what it used plus a quarter of the rest; a revert burns the     *)
(* limit.  Any transaction may be refused, revert, or execute while its    *)
(* answer is lost; each ends the process, and the operator starts it anew. *)
(***************************************************************************)
EXTENDS Integers, Sequences, FiniteSetsExt

CONSTANTS
    Slugs,              \* the markets of the deploy plan
    Sample,             \* SKIP_REGISTER: the slug the bootstrap registered already
    SeedOutcomes,       \* the outcomes a market is seeded on
    Agents,             \* accounts fleet-fund refills
    GasLimit, GasUsed,  \* motes per kind of transaction
    FirstCreate,        \* what the first create_market on a fresh vault uses
    Bond, Stake, Refuel,
    MinPerMarket,       \* MIN_MOTES_PER_MARKET
    Purses              \* balances the deployer may start with

ASSUME GasIsLimited ==
    /\ \A kind \in {"install", "create", "register", "bet", "transfer"} :
          GasLimit[kind] \in Nat /\ GasUsed[kind] \in 0..GasLimit[kind]
    /\ FirstCreate \in GasUsed["create"]..GasLimit["create"]

\* Every market of the plan has outcomes, and attached amounts are motes.
ASSUME PlanAssumption ==
    /\ IsFiniteSet(Slugs) /\ IsFiniteSet(Agents)
    /\ IsFiniteSet(SeedOutcomes) /\ SeedOutcomes # {}
    /\ {Bond, Stake, Refuel} \cup Purses \subseteq Nat

VARIABLES
    treasury_motes,     \* the deployer's balance
    vaultLive,          \* HUNCH_VAULT_V2
    entry,              \* entry[s]: the factory's entry, "none", "v1" or "vault"
    inVault,            \* market_exists
    packages,           \* packages[s]: ParimutuelMarket installs for s
    seeded,             \* seeded[s][o]: house bets on s in the vault
    job,                \* the running command
    stopped,            \* history: slugs a process died on
    repaired,           \* history: slugs create-v2 was run for
    starved             \* history: a budgeted command was refused for want of funds

driverVars == <<treasury_motes, vaultLive, entry, inVault, packages, seeded, job, stopped, repaired, starved>>

Idle == [cmd |-> "none", todo |-> {}, slug |-> Sample, at |-> "idle", left |-> {}, budgeted |-> FALSE]

DriverInit ==
    /\ treasury_motes \in Purses
    /\ vaultLive = FALSE
    /\ entry = [s \in Slugs |-> IF s = Sample THEN "v1" ELSE "none"]
    /\ inVault = {}
    /\ packages = [s \in Slugs |-> 0]
    /\ seeded = [s \in Slugs |-> [o \in SeedOutcomes |-> 0]]
    /\ job = Idle
    /\ stopped = {} /\ repaired = {} /\ starved = FALSE

-----------------------------------------------------------------------------
net_cost(used, limit) == used + ((limit - used) * 25) \div 100
net(kind) == net_cost(GasUsed[kind], GasLimit[kind])

FaultyHeadroom(kinds) == 0
Headroom(kinds) == Max({GasLimit[kind] : kind \in kinds})

\* plan-cost: the balance it recommends for n markets, and the seed stakes, which it leaves to
\* the operator to add.
recommended(mode, n) ==
    LET bets == n * Cardinality(SeedOutcomes)
        installs == IF mode = "v1" THEN n * net("install")
                    ELSE net_cost(FirstCreate, GasLimit["create"]) + (n - 1) * net("create") + n * Bond
        kinds == {IF mode = "v1" THEN "install" ELSE "create", "register", "bet"}
    IN  installs + n * net("register") + bets * net("bet") + Headroom(kinds) + bets * Stake

Begin(cmd, todo, at, left, budgeted) ==
    /\ job = Idle
    /\ job' = [cmd |-> cmd, todo |-> todo, slug |-> Sample, at |-> at, left |-> left, budgeted |-> budgeted]

\* The commands.  catalogue and catalogue-v2 take any selection of the plan.
StartCatalogue(mode, selection) ==
    /\ mode = "v2" => vaultLive
    /\ Begin(mode, selection, "next", {}, treasury_motes >= recommended(mode, Cardinality(selection)))
    /\ UNCHANGED <<treasury_motes, vaultLive, entry, inVault, packages, seeded, stopped, repaired, starved>>

\* Skips only what the vault has, and leaves an entry of the factory alone.
StartCreateV2(s) ==
    /\ vaultLive /\ job = Idle
    /\ repaired' = IF s \in inVault THEN repaired ELSE repaired \cup {s}
    /\ job' = IF s \in inVault THEN Idle
              ELSE [Idle EXCEPT !.cmd = "create-v2", !.slug = s, !.at = "create",
                                !.budgeted = treasury_motes >= recommended("v2", 1)]
    /\ UNCHANGED <<treasury_motes, vaultLive, entry, inVault, packages, seeded, stopped, starved>>

\* Refused outright unless the install and the set_vault after it are affordable.
StartVaultDeploy ==
    /\ ~vaultLive
    /\ treasury_motes >= GasLimit["install"] + GasLimit["register"]
    /\ Begin("vault-deploy", {}, "vault", {}, TRUE)
    /\ UNCHANGED <<treasury_motes, vaultLive, entry, inVault, packages, seeded, stopped, repaired, starved>>

StartFleetFund ==
    /\ treasury_motes >= Cardinality(Agents) * (Refuel + GasLimit["transfer"])
    /\ Begin("fleet-fund", {}, "fund", Agents, TRUE)
    /\ UNCHANGED <<treasury_motes, vaultLive, entry, inVault, packages, seeded, stopped, repaired, starved>>

\* The loop over the manifest: v1 stops below its floor; v2 passes over what the vault or the
\* factory already has.
FaultySkipped(s) == s \in inVault
Skipped(s) == s \in inVault \/ entry[s] # "none"

NextSlug(s) ==
    /\ job.at = "next" /\ s \in job.todo
    /\ job' = IF job.cmd = "v1" /\ treasury_motes < MinPerMarket THEN Idle
              ELSE IF job.cmd = "v2" /\ Skipped(s) THEN [job EXCEPT !.todo = @ \ {s}]
              ELSE [job EXCEPT !.todo = @ \ {s}, !.slug = s,
                               !.at = IF job.cmd = "v1" THEN "install" ELSE "create"]
    /\ UNCHANGED <<treasury_motes, vaultLive, entry, inVault, packages, seeded, stopped, repaired, starved>>

JobDone ==
    /\ job.at = "next" /\ job.todo = {}
    /\ job' = Idle
    /\ UNCHANGED <<treasury_motes, vaultLive, entry, inVault, packages, seeded, stopped, repaired, starved>>

-----------------------------------------------------------------------------
\* The transaction the job is about to send, and the motes attached to it.
Sends == CASE job.at \in {"install", "vault"} -> [kind |-> "install", value |-> 0]
           [] job.at = "create" -> [kind |-> "create", value |-> Bond]
           [] job.at \in {"register", "set_vault"} -> [kind |-> "register", value |-> 0]
           [] job.at = "seed" -> [kind |-> "bet", value |-> Stake]
           [] job.at = "fund" -> [kind |-> "transfer", value |-> Refuel]

Sending == job.at \notin {"idle", "next"}
Affordable == treasury_motes >= GasLimit[Sends.kind] + Sends.value

Used == IF job.at = "create" /\ inVault = {} THEN FirstCreate ELSE GasUsed[Sends.kind]

\* It executes, and the job goes on to j - or its answer is lost and the process ends.
Executes(j) ==
    /\ Sending /\ Affordable
    /\ treasury_motes' = treasury_motes - net_cost(Used, GasLimit[Sends.kind]) - Sends.value
    /\ \/ job' = j /\ UNCHANGED stopped
       \/ job' = Idle /\ stopped' = stopped \cup {job.slug}

AfterMarket == IF job.cmd = "create-v2" THEN Idle ELSE [job EXCEPT !.at = "next"]

Seeding == [job EXCEPT !.at = "seed", !.left = SeedOutcomes]

DeployMarket ==
    /\ job.at = "install"
    /\ Executes(IF job.slug = Sample THEN Seeding ELSE [job EXCEPT !.at = "register"])
    /\ packages' = [packages EXCEPT ![job.slug] = @ + 1]
    /\ UNCHANGED <<vaultLive, entry, inVault, seeded, repaired, starved>>

DeployVault ==
    /\ job.at = "vault"
    /\ Executes([job EXCEPT !.at = "set_vault"])
    /\ vaultLive' = TRUE
    /\ UNCHANGED <<entry, inVault, packages, seeded, repaired, starved>>

\* An older factory has no set_vault: its refusal is noted and nothing more.
SetFactoryVault ==
    /\ job.at = "set_vault"
    /\ Executes(Idle)
    /\ UNCHANGED <<vaultLive, entry, inVault, packages, seeded, repaired, starved>>

CreateMarket ==
    /\ job.at = "create"
    /\ Executes(IF entry[job.slug] # "none" THEN Seeding ELSE [job EXCEPT !.at = "register"])
    /\ inVault' = inVault \cup {job.slug}
    /\ UNCHANGED <<vaultLive, entry, packages, seeded, repaired, starved>>

\* The factory refuses a DuplicateId.
RegisterEntry ==
    /\ job.at = "register" /\ entry[job.slug] = "none"
    /\ Executes(Seeding)
    /\ entry' = [entry EXCEPT ![job.slug] = IF job.cmd = "v1" THEN "v1" ELSE "vault"]
    /\ UNCHANGED <<vaultLive, inVault, packages, seeded, repaired, starved>>

SeedOne(o) ==
    /\ job.at = "seed" /\ o \in job.left
    /\ Executes(IF job.left = {o} THEN AfterMarket ELSE [job EXCEPT !.left = @ \ {o}])
    /\ seeded' = IF job.cmd = "v1" THEN seeded ELSE [seeded EXCEPT ![job.slug][o] = @ + 1]
    /\ UNCHANGED <<vaultLive, entry, inVault, packages, repaired, starved>>

\* A failed transfer is printed and the loop goes on.
FundOne(a) ==
    /\ job.at = "fund" /\ a \in job.left
    /\ job' = IF job.left = {a} THEN Idle ELSE [job EXCEPT !.left = @ \ {a}]
    /\ IF Affordable
       THEN treasury_motes' = treasury_motes - GasLimit["transfer"] - Refuel /\ UNCHANGED starved
       ELSE starved' = TRUE /\ UNCHANGED treasury_motes
    /\ UNCHANGED <<vaultLive, entry, inVault, packages, seeded, stopped, repaired>>

\* Refused before execution: the node does not take what the deployer cannot cover.
TxRefused ==
    /\ Sending /\ job.at # "fund" /\ ~Affordable
    /\ starved' = (starved \/ job.budgeted)
    /\ job' = Idle /\ stopped' = stopped \cup {job.slug}
    /\ UNCHANGED <<treasury_motes, vaultLive, entry, inVault, packages, seeded, repaired>>

\* Out of gas, or a duplicate registration: the limit is gone.  set_vault may revert quietly.
TxReverts ==
    /\ Sending /\ job.at # "fund" /\ Affordable
    /\ treasury_motes' = treasury_motes - GasLimit[Sends.kind]
    /\ job' = Idle
    /\ stopped' = IF job.at = "set_vault" THEN stopped ELSE stopped \cup {job.slug}
    /\ UNCHANGED <<vaultLive, entry, inVault, packages, seeded, repaired, starved>>

-----------------------------------------------------------------------------
\* A slug with a live v1 contract gets no twin in the vault, whose bond and seeds nothing
\* routes to, unless the operator asked for the repair or a process died on the slug between
\* two of its transactions.
NoTwins == \A s \in inVault : entry[s] = "v1" => s \in repaired \cup stopped

\* A market in the vault without its entry or its seeds is one a process died on, or is
\* working on: no run that ends by itself leaves one.
HalfMadeIsKnown ==
    \A s \in inVault : (entry[s] = "none" \/ \E o \in SeedOutcomes : seeded[s][o] = 0) =>
        s \in stopped \/ (job.at # "idle" /\ job.slug = s)

\* However often the commands are run again, no outcome is seeded twice in the vault.
SeededOnce == \A s \in Slugs, o \in SeedOutcomes : seeded[s][o] <= 1

\* A command begun with what plan-cost recommends and the seed stakes beside it, or past its
\* own check of the balance, is never refused half way for want of funds.
BudgetedRunsFinish == ~starved
=============================================================================
