----------------------------- MODULE FieldMarket -----------------------------
(***************************************************************************)
(* contracts/src/field_market.rs: a parimutuel market over a field of      *)
(* candidates the admin registers in batches and then freezes; betting     *)
(* opens with the freeze.  The recipe is committed before the first stake, *)
(* the evidence after the settlement.                                      *)
(***************************************************************************)
EXTENDS ParimutuelMarket

CONSTANT Hashes

VARIABLES
    frozen,
    recipe, bundle,     \* committed hashes, Unset while none
    fieldAtFreeze       \* history: the field when it was frozen

fieldVars == <<marketVars, frozen, recipe, bundle, fieldAtFreeze>>

\* The field starts empty and unfrozen.
FieldInit == MarketInit({}) /\ frozen = FALSE /\ recipe = Unset /\ bundle = Unset /\ fieldAtFreeze = {}

FaultyFieldOpen == total_pool = 0
FieldOpen == ~frozen

\* A batch may repeat keys already in the field: a lost receipt is retried.
RegisterCandidates(K) ==
    /\ FieldOpen
    /\ keys' = keys \cup K
    /\ UNCHANGED <<phase, stake_on, winner, snapshot, claimed, pot, cashed, quote, frozen, recipe, bundle,
                   fieldAtFreeze, now>>

FreezeField ==
    /\ FieldOpen
    /\ Cardinality(keys) >= 2
    /\ frozen' = TRUE
    /\ fieldAtFreeze' = keys
    /\ UNCHANGED <<marketVars, recipe, bundle, now>>

FieldBet(a, k, x) == frozen /\ Bet(a, k, x) /\ UNCHANGED <<frozen, recipe, bundle, fieldAtFreeze>>
FieldResolve(k) == frozen /\ Resolve(k) /\ UNCHANGED <<frozen, recipe, bundle, fieldAtFreeze>>
FieldVoid == Void /\ UNCHANGED <<frozen, recipe, bundle, fieldAtFreeze>>
FieldClaim(a) == Claim(a) /\ UNCHANGED <<frozen, recipe, bundle, fieldAtFreeze>>

CommitRecipe(h) ==
    /\ total_pool = 0
    /\ recipe' = h
    /\ UNCHANGED <<marketVars, frozen, bundle, fieldAtFreeze, now>>

CommitBundle(h) ==
    /\ phase # "open"
    /\ bundle' = h
    /\ UNCHANGED <<marketVars, frozen, recipe, fieldAtFreeze, now>>

FieldNext ==
    \/ Tick /\ UNCHANGED fieldVars
    \/ FreezeField
    \/ FieldVoid
    \/ \E K \in SUBSET Keys : RegisterCandidates(K)
    \/ \E h \in Hashes : CommitRecipe(h) \/ CommitBundle(h)
    \/ \E k \in Keys : FieldResolve(k)
    \/ \E a \in Accounts : FieldClaim(a) \/ \E k \in Keys, x \in Amounts : FieldBet(a, k, x)

FieldSpec == (now = 0 /\ FieldInit) /\ [][FieldNext]_<<now, fieldVars>>

-----------------------------------------------------------------------------
\* Once a stake has landed the candidates cannot change, and the winner is one of them
\* (freeze_field, bet, resolve).
CandidatesStand ==
    /\ \A a \in Accounts, k \in Keys : stake_on[a][k] > 0 => frozen /\ keys' = fieldAtFreeze
    /\ winner' # Unset => winner' \in fieldAtFreeze /\ frozen
    /\ winner # Unset => winner' = winner

\* The field and the rule bettors saw are the ones that settle (commit_recipe as well).
BettorsRulesHold == [][CandidatesStand /\ (total_pool > 0 => recipe' = recipe)]_fieldVars
=============================================================================
