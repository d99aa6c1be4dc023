----------------------------- MODULE MarketCreation -----------------------------
(***************************************************************************)
(* How a community market comes to exist: paid for with an x402 bond and   *)
(* opened by the operator (lib/market-create.ts), or opened by the         *)
(* creator's own wallet and registered from a signed ticket                *)
(* (app/api/markets/create/prepare and finalize).  The slug carries the    *)
(* number of created markets, which the economy's own markets keep moving; *)
(* a create may execute after its caller gave up; an instance keeps the    *)
(* bonds it spent in memory and merges them with the store by union.       *)
(***************************************************************************)
EXTENDS Naturals, FiniteSets

CONSTANTS
    Attempts, Hosts,
    ClaimBy,        \* ClaimBy[a]: the question a asks, under its resolution rule
    BondBy,         \* BondBy[a]: the bond a pays with; NoBond for a wallet's own creation
    HostOf,         \* HostOf[a]: the instance that serves a
    NoBond

ASSUME HostsServe == HostOf \in [Attempts -> Hosts]
ASSUME BondsFollowTheRule ==
    \A a, b \in Attempts : BondBy[a] = BondBy[b] /\ BondBy[a] # NoBond => ClaimBy[a] = ClaimBy[b]

VARIABLES
    step,           \* step[a]: where the attempt stands
    seq,            \* seq[a]: the created-markets count it was composed at
    create,         \* create[a]: its create_market transaction, on chain
    mirrored,       \* attempts whose market addCreatedMarket registered
    others,         \* markets the economy itself created (rounds, genesis)
    bondsSpent,     \* bondsSpent[h]: consumedBondPayments of instance h
    bondsStored,    \* the consumedBonds slice of the stored envelope
    silent          \* history: attempts whose caller never learnt the transaction's fate

creationVars == <<step, seq, create, mirrored, others, bondsSpent, bondsStored, silent>>

CreationInit ==
    /\ step = [a \in Attempts |-> "idle"]
    /\ seq = [a \in Attempts |-> 0]
    /\ create = [a \in Attempts |-> "none"]
    /\ mirrored = {} /\ others = 0
    /\ bondsSpent = [h \in Hosts |-> {}] /\ bondsStored = {}
    /\ silent = {}

slug(a) == <<ClaimBy[a], seq[a]>>
createdCount == Cardinality(mirrored) + others
findDuplicate(a) == \E b \in mirrored : ClaimBy[b] = ClaimBy[a]

\* Hydrate, refuse a question that is already on the boards, compose at the count of the
\* moment.  A wallet's creation leaves with a signed ticket.
composeForCreation(a) ==
    /\ step[a] = "idle"
    /\ ~findDuplicate(a)
    /\ seq' = [seq EXCEPT ![a] = createdCount]
    /\ step' = [step EXCEPT ![a] = IF BondBy[a] = NoBond THEN "prepared" ELSE "composed"]
    /\ bondsSpent' = [bondsSpent EXCEPT ![HostOf[a]] = @ \cup bondsStored]
    /\ UNCHANGED <<create, mirrored, others, bondsStored, silent>>

\* Operators named Faulty... are not part of the model: each is the definition after it with
\* one plausible mistake, and shows that some property below notices it.
FaultyBondIsSpent(a) == BondBy[a] \in bondsStored
BondIsSpent(a) == BondBy[a] \in bondsSpent[HostOf[a]]

\* Step 2 of createMarket: check and claim the bond with no await between, then submit.
ClaimBond(a) ==
    /\ step[a] = "composed"
    /\ IF BondIsSpent(a)
       THEN step' = [step EXCEPT ![a] = "refused"] /\ UNCHANGED <<create, bondsSpent>>
       ELSE /\ step' = [step EXCEPT ![a] = "creating"]
            /\ create' = [create EXCEPT ![a] = "submitted"]
            /\ bondsSpent' = [bondsSpent EXCEPT ![HostOf[a]] = @ \cup {BondBy[a]}]
    /\ UNCHANGED <<seq, mirrored, others, bondsStored, silent>>

WalletSubmits(a) ==
    /\ step[a] = "prepared" /\ create[a] = "none"
    /\ create' = [create EXCEPT ![a] = "submitted"]
    /\ UNCHANGED <<step, seq, mirrored, others, bondsSpent, bondsStored, silent>>

\* create_market in the vault: a slug exists at most once.
ExecuteCreate(a) ==
    /\ create[a] = "submitted"
    /\ create' = [create EXCEPT ![a] =
          IF \E b \in Attempts : create[b] = "executed" /\ slug(b) = slug(a)
          THEN "reverted" ELSE "executed"]
    /\ UNCHANGED <<step, seq, mirrored, others, bondsSpent, bondsStored, silent>>

\* addCreatedMarket throws on a slug the mirror already lists.
registerComposedMarket(a) ==
    IF \E b \in mirrored : slug(b) = slug(a)
    THEN step' = [step EXCEPT ![a] = "conflict"] /\ UNCHANGED mirrored
    ELSE step' = [step EXCEPT ![a] = "created"] /\ mirrored' = mirrored \cup {a}

\* The create confirmed: register the market and flush before answering 201.
Created(a) ==
    /\ step[a] = "creating" /\ create[a] = "executed"
    /\ registerComposedMarket(a)
    /\ bondsStored' = bondsStored \cup bondsSpent[HostOf[a]]
    /\ UNCHANGED <<seq, create, others, bondsSpent, silent>>

\* It reverted, or its window ran out with the transaction still pending: either way the
\* claim on the bond is released.
CreateFailed(a) ==
    /\ step[a] = "creating"
    /\ step' = [step EXCEPT ![a] = "failed"]
    /\ bondsSpent' = [bondsSpent EXCEPT ![HostOf[a]] = @ \ {BondBy[a]}]
    /\ silent' = IF create[a] = "reverted" THEN silent ELSE silent \cup {a}
    /\ UNCHANGED <<seq, create, mirrored, others, bondsStored>>

\* finalize: ask the chain about the ticket's transaction; register what it executed, unless
\* an earlier poll (or a sibling instance) already did.
Finalize(a) ==
    /\ step[a] = "prepared"
    /\ \/ create[a] = "reverted" /\ step' = [step EXCEPT ![a] = "failed"] /\ UNCHANGED mirrored
       \/ /\ create[a] = "executed"
          /\ IF \E b \in mirrored : slug(b) = slug(a)
             THEN step' = [step EXCEPT ![a] = "created"] /\ UNCHANGED mirrored
             ELSE registerComposedMarket(a)
    /\ UNCHANGED <<seq, create, others, bondsSpent, bondsStored, silent>>

\* verifyCreationTicket: past its hour a ticket registers nothing.
CreationTicketExpires(a) ==
    /\ step[a] = "prepared"
    /\ step' = [step EXCEPT ![a] = "expired"]
    /\ UNCHANGED <<seq, create, mirrored, others, bondsSpent, bondsStored, silent>>

\* A round or a genesis market is registered: every later slug moves.
EconomyCreates ==
    /\ others' = others + 1
    /\ UNCHANGED <<step, seq, create, mirrored, bondsSpent, bondsStored, silent>>

\* Any other route of the instance persists the envelope while a create is in flight.
Snapshot(h) ==
    /\ bondsSpent[h] \ bondsStored # {}
    /\ bondsStored' = bondsStored \cup bondsSpent[h]
    /\ UNCHANGED <<step, seq, create, mirrored, others, bondsSpent, silent>>

HostRestarts(h) ==
    /\ \E a \in Attempts : HostOf[a] = h /\ step[a] \in {"composed", "creating"}
    /\ bondsSpent' = [bondsSpent EXCEPT ![h] = bondsStored]
    /\ step' = [a \in Attempts |-> IF HostOf[a] = h /\ step[a] \in {"composed", "creating"}
                                   THEN "failed" ELSE step[a]]
    /\ silent' = silent \cup {a \in Attempts : HostOf[a] = h /\ step[a] = "creating"}
    /\ UNCHANGED <<seq, create, mirrored, others, bondsStored>>

CreationNext ==
    \/ EconomyCreates
    \/ \E h \in Hosts : Snapshot(h) \/ HostRestarts(h)
    \/ \E a \in Attempts :
          \/ composeForCreation(a)
          \/ ClaimBond(a)
          \/ WalletSubmits(a)
          \/ ExecuteCreate(a)
          \/ Created(a)
          \/ CreateFailed(a)
          \/ Finalize(a)
          \/ CreationTicketExpires(a)

CreationSpec == CreationInit /\ [][CreationNext]_creationVars

-----------------------------------------------------------------------------
SameBond(a, b) == a # b /\ BondBy[a] # NoBond /\ BondBy[a] = BondBy[b]

\* A bond buys one market: two markets opened by one instance for one bond need a create
\* whose fate its caller never learnt (the claim is taken with no await after the check and
\* released only on failure).  A released bond is spendable again at once; only a snapshot
\* taken while its create was in flight keeps it spent although nothing was opened.
BondBuysOneMarket ==
    /\ \A a, b \in Attempts :
          (SameBond(a, b) /\ HostOf[a] = HostOf[b] /\ create[a] = "executed" /\ create[b] = "executed")
             => a \in silent \/ b \in silent
    /\ \A h \in Hosts : \A b \in bondsSpent[h] \ bondsStored :
          \E a \in Attempts : BondBy[a] = b /\ HostOf[a] = h /\ step[a] = "creating"

\* The boards list a created market only if the chain holds it, under the attempt whose
\* transaction opened it; and a market the chain holds and the boards miss is one whose
\* creator is still being served, was never answered, or let the ticket expire.
CreatedMarketsAreOnChain ==
    /\ \A a \in mirrored : create[a] = "executed"
    /\ \A a \in Attempts : (create[a] = "executed" /\ a \notin mirrored) =>
          step[a] \in {"creating", "prepared", "expired"} \/ a \in silent
=============================================================================
