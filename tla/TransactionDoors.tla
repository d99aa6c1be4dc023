--------------------------- MODULE TransactionDoors ---------------------------
(***************************************************************************)
(* The four doors that hand a visitor's wallet a transaction to sign       *)
(* (app/api/markets/create/prepare, markets/create/bond, agents/register,  *)
(* chain/bet/prepare) and the contracts' own guards behind them.  A door   *)
(* refuses what it can see is doomed, because a revert after signing costs *)
(* the visitor real gas; between the answer and the block that executes it *)
(* days pass, and what only the chain knows may be another thing.          *)
(*                                                                         *)
(* A text is its length, in the units JavaScript counts and in bytes; an   *)
(* account is [of, spelled]; motes are in steps of half a CSPR.            *)
(***************************************************************************)
EXTENDS Naturals, FiniteSets

CONSTANTS
    Errands,        \* deployments and the requests made of them, [site, request]
    Faces,          \* what the chain may hold that the doors cannot see
    Horizon,        \* MAX_PUBLIC_DEADLINE_HORIZON_MS, in days
    LastDay         \* bound: the days that pass

\* A text takes no fewer bytes than units; the platform's own oracle is configured by account.
IsText(t) == t.units \in Nat /\ t.bytes \in Nat /\ t.bytes >= t.units
IsRequest(f) ==
    \/ /\ f.door = "create" /\ IsText(f.claim) /\ f.feeBps \in Nat /\ f.deadline \in Nat
       /\ f.keys.count \in Nat /\ f.keys.longest \in Nat
    \/ f.door = "bond"
    \/ f.door = "register" /\ IsText(f.name) /\ IsText(f.uri) /\ f.amount \in Nat
    \/ f.door = "bet" /\ f.amount \in Nat
ASSUME ErrandsAreRequests == \A e \in Errands :
    /\ IsRequest(e.request)
    /\ e.site.bond \in Nat /\ e.site.listed.deadline \in Nat
    /\ e.site.approved.of = "nobody" \/ e.site.approved.spelled \in {"account_hash", "key"}
ASSUME HorizonIsDays == Horizon \in Nat

VARIABLES
    errand,     \* the request
    facing,     \* the chain, an element of Faces
    day,        \* the clock of the servers and of the blocks
    slip        \* the request's way: [step, answer, call, shown, end]

doorVars == <<errand, facing, day, slip>>

NATIVE_TRANSFER_MINIMUM == 5
MAX_QUESTION_LEN == 200
MAX_OUTCOME_LEN == 32
MAX_PUBLIC_FEE_BPS == 500
BPS_DENOMINATOR == 10000
MAX_NAME_LEN == 64
MAX_URI_LEN == 256
Unlimited == 1000000

nothing == [to |-> "nobody"]
freshSlip == [step |-> "asked", answer |-> 0, call |-> nothing, shown |-> <<>>, end |-> {}]

DoorsInit ==
    /\ errand \in Errands
    /\ facing \in Faces
    /\ day = 0
    /\ slip = freshSlip

site == errand.site
request == errand.request

\* The shapes a public key is asked to have; only a key itself makes a transaction.
LooksLikeKey(a) == a.spelled \in {"key", "long_key"}
HexAfterTag(a) == a.spelled \in {"key", "long_key", "short_key"}

\* normalizeAccountId: a key and the account hash it gives are one account.
normalizeAccountId(a) ==
    IF a.spelled \in {"key", "account_hash"} THEN [of |-> a.of, spelled |-> "account_hash"] ELSE a

-----------------------------------------------------------------------------
\* What a market would be called: the claim and the question mark it may lack.
Title(f) == IF f.claim.asks THEN [units |-> f.claim.units, bytes |-> f.claim.bytes]
            ELSE [units |-> f.claim.units + 1, bytes |-> f.claim.bytes + 1]

\* composeMarket's and validateRecipe's bounds; keys are [count, distinct, longest].
Composes(f) ==
    /\ f.claim.units \in 1 .. 200 /\ Title(f).bytes <= MAX_QUESTION_LEN
    /\ f.source \notin {"internal", "attested"}
    /\ f.feeBps <= MAX_PUBLIC_FEE_BPS
    /\ f.keys.count \in 2 .. 8 /\ f.keys.distinct /\ f.keys.longest \in 1 .. MAX_OUTCOME_LEN

\* What a request that names no oracle is given.
BoundOracle == IF request.oracle.of = "nobody" THEN site.approved ELSE request.oracle

\* composeForCreation on a live chain, in its order; a deadline is a day, 0 for no date.
Composed ==
    CASE BoundOracle.of = "nobody" -> 400
      [] normalizeAccountId(BoundOracle) = normalizeAccountId(request.signer) -> 400
      [] BoundOracle.spelled \notin {"account_hash", "key", "long_key"} -> 400
      [] site.approved.of = "nobody" -> 503
      [] normalizeAccountId(BoundOracle) # normalizeAccountId(site.approved) -> 400
      [] request.deadline <= day -> 400
      [] request.deadline > day + Horizon -> 400
      [] ~Composes(request) -> 400
      [] OTHER -> 200

creationBondPaymentBlocker == site.bond < NATIVE_TRANSFER_MINIMUM

\* POST markets/create/prepare, up to the composer's question to the model.
CreateDoor ==
    CASE ~LooksLikeKey(request.signer) -> 400
      [] ~site.real -> 501
      [] ~site.secret -> 500
      [] creationBondPaymentBlocker -> 503
      [] OTHER -> Composed

\* ... and from its answer on: the caps again, on the clock of that moment.
Capped ==
    IF request.feeBps > MAX_PUBLIC_FEE_BPS \/ request.deadline > day + Horizon \/ request.deadline <= day
       \/ Title(request).units > MAX_QUESTION_LEN
    THEN 400 ELSE 200

\* POST markets/create/bond.
BondDoor ==
    CASE ~LooksLikeKey(request.signer) -> 400
      [] ~site.real \/ site.payTo = "nobody" -> 501
      [] creationBondPaymentBlocker -> 503
      [] OTHER -> 200

\* POST agents/register: lengths are the units of a trimmed text.
RegisterDoor ==
    CASE request.name.units \notin 1 .. MAX_NAME_LEN \/ request.uri.units > MAX_URI_LEN -> 400
      [] request.amount = 0 -> 400
      [] request.signer.spelled # "key" -> 400
      [] ~site.real \/ ~site.registry -> 501
      [] OTHER -> 200

\* caps.ts: only an audit raises the cap, and then by age.
currentMaxBet ==
    IF site.network # "mainnet" THEN Unlimited ELSE IF site.audit # "audited" THEN 2 * 25
    ELSE IF site.age < 30 THEN 2 * 100 ELSE IF site.age < 90 THEN 2 * 500 ELSE Unlimited

\* The boards' market: locked from its deadline on whatever is stored.
effectiveStatus(m) == IF m.status = "open" /\ day >= m.deadline THEN "locked" ELSE m.status

\* validateBetRequest against the boards, then POST chain/bet/prepare.
BetDoor ==
    CASE request.amount = 0 \/ request.amount > currentMaxBet -> 400
      [] request.market = "unlisted" \/ request.outcome \notin site.listed.outcomes -> 400
      [] effectiveStatus(site.listed) # "open" -> 409
      [] ~HexAfterTag(request.signer) -> 400
      [] ~site.real -> 501
      [] ~site.secret -> 500
      [] OTHER -> 200

\* The transaction a door builds: who signs and pays, what it carries, and what it says.
Plan ==
    [to |-> CASE request.door = "create" -> "vault" [] request.door = "bet" -> "vault"
              [] request.door = "bond" -> site.payTo [] OTHER -> "registry",
     from |-> request.signer.of,
     carries |-> IF request.door \in {"create", "bond"} THEN site.bond ELSE request.amount,
     says |-> request]

\* Building throws where there is no contract to call or no such key; the bond's transfer also
\* below the floor.
Buildable ==
    /\ request.signer.spelled = "key"
    /\ request.door = "create" => site.vault
    /\ request.door = "bond" => site.bond >= NATIVE_TRANSFER_MINIMUM

Answers(status) ==
    slip' = IF status # 200 THEN [slip EXCEPT !.step = "over", !.answer = status]
            ELSE IF ~Buildable THEN [slip EXCEPT !.step = "over", !.answer = 502]
            ELSE [slip EXCEPT !.step = "offered", !.answer = 200, !.call = Plan, !.shown = <<facing, day>>]

AskDoor ==
    /\ slip.step = "asked"
    /\ IF request.door = "create" /\ CreateDoor = 200 THEN slip' = [slip EXCEPT !.step = "composing"]
       ELSE Answers(CASE request.door = "create" -> CreateDoor [] request.door = "bond" -> BondDoor
                      [] request.door = "register" -> RegisterDoor [] OTHER -> BetDoor)
    /\ UNCHANGED <<errand, facing, day>>

CreationComposed ==
    /\ slip.step = "composing"
    /\ Answers(Capped)
    /\ UNCHANGED <<errand, facing, day>>

\* Only the account a transaction names can sign it.
VisitorSigns(account) ==
    /\ slip.step = "offered"
    /\ slip' = [slip EXCEPT !.step = IF account = slip.call.from THEN "signed" ELSE "over"]
    /\ UNCHANGED <<errand, facing, day>>

-----------------------------------------------------------------------------
When(holds, error) == IF holds THEN {error} ELSE {}

\* The vault's refusals of a create_market by somebody who is not its admin.
CreateRefusals(c, face, today) ==
    LET f == c.says
        asked == IF f.oracle.of = "nobody" THEN site.approved.of ELSE f.oracle.of
    IN  When(~face.open, "CreationClosed")
        \cup When(face.taken, "MarketExists")
        \cup When(f.keys.count < 2, "InvalidOutcomeCount")
        \cup When(f.feeBps >= BPS_DENOMINATOR, "InvalidFee")
        \cup When(f.deadline <= today, "InvalidDeadline")
        \cup When(Title(f).bytes \notin 1 .. MAX_QUESTION_LEN \/ f.keys.count > 8
                  \/ f.keys.longest \notin 1 .. MAX_OUTCOME_LEN, "InvalidField")
        \cup When(~f.keys.distinct, "DuplicateOutcome")
        \cup When(f.source = "internal", "ReservedCategory")
        \cup When(asked = c.from, "SelfOracle")
        \cup When(asked \notin face.oracles, "OracleNotApproved")
        \cup When(f.feeBps > MAX_PUBLIC_FEE_BPS, "FeeTooHigh")
        \cup When(f.deadline > today + Horizon, "DeadlineTooFar")
        \cup When(~face.room, "CreatorMarketCapReached")
        \cup When(c.carries < face.least, "InsufficientBond")

\* The registry's: a text's length is its bytes.
RegisterRefusals(c, face) ==
    LET f == c.says
    IN  When(face.joined, "AlreadyRegistered")
        \cup When(f.name.bytes \notin 1 .. MAX_NAME_LEN \/ f.uri.bytes > MAX_URI_LEN, "InvalidProfile")
        \cup When(c.carries < face.least, "InsufficientBond")

\* A bet's: the vault's market is the one the boards list, if it was created, and closes when
\* they do or before.
BetRefusals(c, face, today) ==
    When(~face.taken, "UnknownMarket")
    \cup When(~face.betting \/ today >= site.listed.deadline, "MarketClosed")
    \cup When(c.says.outcome \notin site.listed.outcomes, "UnknownOutcome")
    \cup When(c.carries = 0, "ZeroStake")

\* A transfer is refused by the node itself.
TransferRefusals(c) == When(c.carries < NATIVE_TRANSFER_MINIMUM, "InsufficientTransfer")

Refusals(c, face, today) ==
    CASE c.says.door = "create" -> CreateRefusals(c, face, today)
      [] c.says.door = "register" -> RegisterRefusals(c, face)
      [] c.says.door = "bet" -> BetRefusals(c, face, today)
      [] OTHER -> TransferRefusals(c)

SignedExecutes ==
    /\ slip.step = "signed"
    /\ slip' = [slip EXCEPT !.step = "executed", !.end = Refusals(slip.call, facing, day)]
    /\ UNCHANGED <<errand, facing, day>>

\* Other people's transactions, and the admin's.
ChainTurns(face) ==
    /\ slip.step \in {"offered", "signed"} /\ facing = slip.shown[1] /\ face # facing
    /\ facing' = face
    /\ UNCHANGED <<errand, day, slip>>

DayPasses ==
    /\ slip.step \in {"composing", "offered", "signed"} /\ day < LastDay
    /\ day' = day + 1
    /\ UNCHANGED <<errand, facing, slip>>

-----------------------------------------------------------------------------
OnlyTheChainKnows ==
    {"CreationClosed", "MarketExists", "OracleNotApproved", "CreatorMarketCapReached",
     "InsufficientBond", "AlreadyRegistered", "UnknownMarket"}

\* Nobody pays gas for a refusal that was there to be seen: what the contract refuses of a signed
\* transaction is what only the chain knows, or was in order when the door answered (a deadline
\* that passed, a market that closed).  But the registration door counts characters where the
\* contract counts bytes: a name or address beyond ASCII can pass it and be refused.
RefusalsAreNews ==
    slip.step = "executed" =>
        LET seen == Refusals(slip.call, slip.shown[1], slip.shown[2]) IN
        \A why \in slip.end \ OnlyTheChainKnows :
            \/ why \notin seen
            \/ why = "MarketClosed" /\ ~slip.shown[1].betting /\ site.listed.status = "open"
            \/ why = "InvalidProfile" /\ (request.name.bytes > request.name.units \/ request.uri.bytes > request.uri.units)

\* The account that signs is the one whose money is at stake and who gets it back: the caller the
\* vault refunds the bond to, the registry slashes, and the bet pays, is who asked, and never the
\* market's oracle; a bond goes to the treasury in full; and no bet a door offers is over the cap,
\* which age alone never raises.
SignersOweThemselves ==
    slip.step \in {"offered", "signed", "executed"} =>
        LET c == slip.call IN
        /\ c.from = request.signer.of /\ request.signer.spelled = "key"
        /\ request.door = "create" => BoundOracle.of = site.approved.of /\ BoundOracle.of # c.from
        /\ request.door = "bond" => c.to = site.payTo /\ c.to # "nobody" /\ c.carries >= NATIVE_TRANSFER_MINIMUM
        /\ request.door = "bet" /\ site.network = "mainnet" /\ site.audit # "audited" => c.carries <= 50
=============================================================================
