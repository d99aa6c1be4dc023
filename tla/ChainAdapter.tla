----------------------------- MODULE ChainAdapter -----------------------------
(***************************************************************************)
(* The live chain adapter (adapters/casper/real-chain.ts behind            *)
(* lib/container.ts): where a market's calls go under the addresses the    *)
(* operator configured (adapters/casper/deploy-plan.ts), whose key signs   *)
(* them (adapters/casper/fleet-keys.ts), and what a caller is told of a    *)
(* transaction it submitted (adapters/casper/confirm.ts).  The operator    *)
(* may redeploy with other addresses while transactions are in flight.     *)
(***************************************************************************)
EXTENDS Naturals, Sequences, FiniteSetsExt

CONSTANTS
    Listings, FieldSlugs,   \* the markets' slugs, and those with a field too wide for a vault
    Prophets, Visitors,     \* who bets: agents of the fleet, people with a wallet
    Wirings,                \* the environments an operator deploys
    Catalogued,             \* slugs the vault holds from the start
    MaxSent                 \* bound on transactions

ASSUME AdapterAssumption == FieldSlugs \subseteq Listings /\ Catalogued \subseteq Listings

VARIABLES
    wiring,         \* the deployed environment: see Wirings
    sent            \* the transactions, in the order they were built

adapterVars == <<wiring, sent>>

Server == "operator"
Judge == "oracle"

\* An agent's name has a prefix that no account, and neither key of the operator's, begins with.
ASSUME NamesAreApart == Prophets \cap Visitors = {} /\ {Server, Judge} \cap (Prophets \cup Visitors) = {}
ASSUME WiringsAreSets == \A w \in Wirings : w.vaultV2 \in BOOLEAN

nowhere == [contract |-> "none", id |-> "none"]

\* A wiring is [addrs, vaultV2, fallback, field, registry, hook, bettorKey, oracleKey, seed, keyed]:
\* the slugs with a package of their own, which contracts and keys are set, and the agents
\* with a key of their own.
AdapterInit == wiring \in Wirings /\ sent = << >>

\* Operators named Faulty... are not part of the model: each is the definition after it with
\* one plausible mistake, and shows that some property below notices it.
FaultyTarget(s, w) ==
    CASE w.vaultV2 -> [contract |-> "v2", id |-> s]
      [] ~w.vaultV2 /\ s \in w.addrs -> [contract |-> s, id |-> "none"]
      [] OTHER -> nowhere

\* A wide field has one home or none; then a package of its own, the vault, the thin slice.
resolveMarketTarget(s, w) ==
    CASE s \in FieldSlugs -> IF w.field THEN [contract |-> "field", id |-> "none"] ELSE nowhere
      [] s \notin FieldSlugs /\ s \in w.addrs -> [contract |-> s, id |-> "none"]
      [] s \notin FieldSlugs \cup w.addrs /\ w.vaultV2 -> [contract |-> "v2", id |-> s]
      [] s \notin FieldSlugs \cup w.addrs /\ ~w.vaultV2 /\ w.fallback -> [contract |-> "thin_slice", id |-> "none"]
      [] OTHER -> nowhere

\* realChainOptionsFromEnv: nothing is built, not even for a visitor to sign, without both.
configured(w) == w.bettorKey /\ (w.vaultV2 \/ w.fallback \/ w.field \/ w.addrs # {})

canSelfSign(who) == who \in Prophets /\ (wiring.seed \/ who \in wiring.keyed)
FaultySignerKeyFor(who) == Server
signerKeyFor(who) == IF canSelfSign(who) THEN who ELSE Server
resolverKey == IF wiring.oracleKey THEN Judge ELSE Server

\* The plan of a call (its entry point, its contract and, in a vault, the market's id) and what
\* becomes of the transaction built from it.
planned(call, s, at, by, signer, step) ==
    [call |-> call, slug |-> s, at |-> at, by |-> by, signer |-> signer, wired |-> wiring, step |-> step, told |-> "nothing"]

\* A transaction is built and, unless it is for a wallet to sign, submitted.
Builds(call, s, at, by, signer, step) ==
    /\ Len(sent) < MaxSent
    /\ configured(wiring) /\ at # nowhere
    /\ sent' = Append(sent, planned(call, s, at, by, signer, step))
    /\ UNCHANGED wiring

PlaceOrSubmitBet(who, s) == Builds("bet", s, resolveMarketTarget(s, wiring), who, signerKeyFor(who), "submitted")
buildBetTransaction(who, s) == Builds("bet", s, resolveMarketTarget(s, wiring), who, who, "unsigned")

\* Creation names the vault itself, and the bare slug.
Vault(s) == IF wiring.vaultV2 THEN [contract |-> "v2", id |-> s] ELSE nowhere
createMarketOnChain(s) == Builds("create_market", s, Vault(s), Server, Server, "submitted")
buildCreateMarketTransaction(who, s) == Builds("create_market", s, Vault(s), who, who, "unsigned")

buildTransferTransaction(who) ==
    Builds("transfer", "none", [contract |-> "treasury", id |-> "none"], who, who, "unsigned")
buildAgentRegistration(who) ==
    Builds("register", "none", IF wiring.registry THEN [contract |-> "registry", id |-> "none"] ELSE nowhere, who, who, "unsigned")

resolveOnChain(s) == Builds("resolve", s, resolveMarketTarget(s, wiring), Judge, resolverKey, "submitted")

\* What follows a resolve that was told to have landed: the two hashes, on a vault only, and
\* the hook.  Each is skipped or swallowed, never raised.
Landed(call, s) == \E i \in DOMAIN sent : sent[i].call = call /\ sent[i].slug = s /\ sent[i].told = "confirmed"

FaultyAnchorTarget(s) == resolveMarketTarget(s, wiring)
AnchorTarget(s) == LET t == resolveMarketTarget(s, wiring) IN IF t.id = "none" THEN nowhere ELSE t

anchorResolution(s) ==
    /\ Landed("resolve", s) /\ ~\E i \in DOMAIN sent : sent[i].call = "commit" /\ sent[i].told = "nothing"
    /\ Builds("commit", s, AnchorTarget(s), Judge, resolverKey, "submitted")
dispatchResolution(s) ==
    /\ Landed("resolve", s)
    /\ Builds("dispatch", s, IF wiring.hook THEN [contract |-> "hook", id |-> s] ELSE nowhere, Judge, resolverKey, "submitted")

\* The visitor's wallet: signed, and handed to a node.
WalletSubmitsTx(i) ==
    /\ sent[i].step = "unsigned"
    /\ sent' = [sent EXCEPT ![i].step = "submitted"]
    /\ UNCHANGED wiring

Executed(call, at) == \E i \in DOMAIN sent : sent[i].call = call /\ sent[i].at = at /\ sent[i].step = "executed"

\* What a contract accepts, of what the adapter sends it: the vault knows the markets created in
\* it, a settled market takes nothing, only the vault keeps hashes, and a hook fires once.
Accepts(call, at) ==
    CASE call = "bet" -> (at.contract = "v2" => at.id \in Catalogued \/ Executed("create_market", at))
                         /\ ~Executed("resolve", at)
      [] call = "resolve" -> ~Executed("resolve", at)
      [] call = "create_market" -> at.id \notin Catalogued /\ ~Executed(call, at)
      [] call = "commit" -> at.contract = "v2"
      [] call = "dispatch" -> ~Executed(call, at)
      [] OTHER -> TRUE

\* A block: the contract accepts the call, or it reverts for that or for the gas.
BlockIncludes(i) ==
    /\ sent[i].step = "submitted"
    /\ \E end \in {"executed", "reverted"} :
          /\ end = "executed" => Accepts(sent[i].call, sent[i].at)
          /\ sent' = [sent EXCEPT ![i].step = end]
    /\ UNCHANGED wiring

\* One readExecution, of confirm's poll or of checkTransaction: a node that cannot be asked, or
\* knows no result, says "pending".
FaultyReadOutcome(i) == IF sent[i].step \in {"submitted", "executed"} THEN "confirmed" ELSE "reverted"
readExecutionOutcome(i) ==
    CASE sent[i].step = "executed" -> "confirmed"
      [] sent[i].step = "reverted" -> "reverted"
      [] OTHER -> "pending"

LookUp(i) ==
    /\ sent[i].step # "unsigned" /\ sent[i].told \in {"nothing", "pending"}
    /\ readExecutionOutcome(i) # "pending"
    /\ sent' = [sent EXCEPT ![i].told = readExecutionOutcome(i)]
    /\ UNCHANGED wiring

\* The confirmation window closes, or a poll is answered, with nothing known.
WindowCloses(i) ==
    /\ sent[i].step # "unsigned" /\ sent[i].told = "nothing"
    /\ sent' = [sent EXCEPT ![i].told = "pending"]
    /\ UNCHANGED wiring

\* A redeploy with another environment.
Rewire(w) == w # wiring /\ wiring' = w /\ UNCHANGED sent

-----------------------------------------------------------------------------
Concerning(s) == {i \in DOMAIN sent : sent[i].call \in {"bet", "resolve"} /\ sent[i].slug = s /\ sent[i].step = "executed"}

\* A market's stakes and its settlement are in one contract under one id, across redeploys that
\* only add contracts: but for a market that lived on the thin slice when the vault was added,
\* or was given a package of its own.  A wide field is never anywhere but in the field contract.
MarketsHaveOneHome ==
    \A s \in Listings : \A i, j \in Concerning(s) :
        LET u == sent[i].wired  w == sent[j].wired IN
        /\ s \in FieldSlugs => sent[i].at.contract = "field"
        /\ (s \in u.addrs <=> s \in w.addrs) /\ (u.vaultV2 <=> w.vaultV2) => sent[i].at = sent[j].at
        /\ s \in u.addrs \cap w.addrs => sent[i].at = sent[j].at
        /\ sent[i].at # sent[j].at =>
              \/ s \in (u.addrs \ w.addrs) \cup (w.addrs \ u.addrs)
              \/ "thin_slice" \in {sent[i].at.contract, sent[j].at.contract} /\ u.vaultV2 # w.vaultV2

\* A market that was created at runtime is where its bets go, for as long as the vault is
\* configured and nobody lists a package for its slug.
CreatedMarketsTakeBets ==
    \A i \in DOMAIN sent : sent[i].call = "create_market" /\ sent[i].step = "executed" =>
        LET s == sent[i].slug IN
        wiring.vaultV2 /\ s \notin wiring.addrs \cup FieldSlugs => resolveMarketTarget(s, wiring) = sent[i].at

\* The account on chain is who the app says bet: the visitor, for what a wallet signed; the agent
\* itself, wherever the fleet was counted as paying for itself; the operator for nobody's agent
\* or visitor but those it holds no key for.  What a wallet is asked to sign is never signed here.
SignersAreThemselves ==
    \A i \in DOMAIN sent : LET t == sent[i] IN
        /\ t.by \in Prophets /\ t.call = "bet" => (t.signer = t.by <=> t.wired.seed \/ t.by \in t.wired.keyed)
        /\ t.call \in {"register", "transfer"} => t.signer = t.by
        /\ t.signer \in Visitors \cup Prophets => t.signer = t.by
        /\ t.signer = Judge => t.call \in {"resolve", "commit", "dispatch"}

\* Nobody is told that something happened which did not: a window that closes says "pending", and
\* is right to, since the transaction may still execute.  No hash is sent to a contract that
\* cannot keep it, and a hook is told once, after the settlement landed.
NobodyIsOvertold ==
    \A i \in DOMAIN sent : LET t == sent[i] IN
        /\ t.told = "confirmed" => t.step = "executed"
        /\ t.told = "reverted" => t.step = "reverted"
        /\ t.call = "commit" => t.at.contract = "v2"
        /\ t.call \in {"commit", "dispatch"} =>
              \E j \in 1 .. i - 1 : sent[j].call = "resolve" /\ sent[j].slug = t.slug /\ sent[j].step = "executed"
=============================================================================
