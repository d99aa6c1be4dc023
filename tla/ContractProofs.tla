---------------------------- MODULE ContractProofs ----------------------------
(***************************************************************************)
(* Proofs about the contracts beside the vault, for any accounts, markets, *)
(* outcomes, stakes, bonds, fees and windows: the agent registry, the hook *)
(* and the escrows bound to it, the directories, the single market, the    *)
(* market over a frozen field and the commands that deploy one, the        *)
(* dispute panel.  Every sum over accounts or outcomes rests on            *)
(* SumTheorems, so these sets are finite.                                  *)
(***************************************************************************)
EXTENDS AgentRegistry, ResolutionHooks, Registries, FieldDriver, DisputePanel, SumTheorems

-----------------------------------------------------------------------------
(***************************************************************************)
(* AGENT REGISTRY                                                          *)
(***************************************************************************)

\* An agent that has not registered owes nothing; one that stopped waits for the cooldown
\* that was in force when it did.
RecordsAgree ==
    \A a \in Accounts :
        /\ info[a].status = "none" => info[a].bond = 0 /\ info[a].slashed = 0 /\ returned[a] = 0
        /\ info[a].status = "deactivating" => info[a].withdrawable_at = left[a].at + left[a].cooldown

RegistryInv == RegistryTypeOK /\ now \in Nat /\ BondsConserved /\ RecordsAgree

AgentInfo == [status : AgentStatuses, bond : Nat, slashed : Nat, withdrawable_at : Nat]
-----------------------------------------------------------------------------
(***************************************************************************)
(* The inductive invariant, one lemma per operation                        *)
(***************************************************************************)

LEMMA RegistryInitInv == now = 0 /\ RegistryInit => RegistryInv
<1> SUFFICES ASSUME now = 0, RegistryInit PROVE RegistryInv
  OBVIOUS
<1>1. RegistryTypeOK
  BY BondsAndCooldownsAreNat DEF RegistryInit, RegistryTypeOK, AgentStatuses
<1> QED
  BY <1>1 DEF RegistryInit, RegistryInv, BondsConserved, RecordsAgree

LEMMA RegisterInv ==
    ASSUME RegistryInv, NEW a \in Accounts, NEW x \in Nat, Register(a, x)
    PROVE  RegistryInv'
<1>1. [status |-> "active", bond |-> x, slashed |-> 0, withdrawable_at |-> 0] \in AgentInfo
  BY DEF AgentInfo, AgentStatuses
<1>2. RegistryTypeOK'
  BY <1>1 DEF RegistryInv, RegistryTypeOK, Register, AgentInfo
<1>3. BondsConserved'
  BY DEF RegistryInv, RegistryTypeOK, BondsConserved, RecordsAgree, Register
<1>4. RecordsAgree'
  BY DEF RegistryInv, RegistryTypeOK, RecordsAgree, Register
<1> QED
  BY <1>2, <1>3, <1>4 DEF RegistryInv, Register

LEMMA DeactivateInv ==
    ASSUME RegistryInv, NEW a \in Accounts, Deactivate(a)
    PROVE  RegistryInv'
<1> DEFINE r == [info[a] EXCEPT !.status = "deactivating", !.withdrawable_at = now + cooldown_ms]
<1>1. /\ info[a] \in AgentInfo /\ now \in Nat /\ cooldown_ms \in Nat
      /\ info \in [Accounts -> AgentInfo] /\ left \in [Accounts -> [at : Nat, cooldown : Nat]]
  BY DEF RegistryInv, RegistryTypeOK, AgentInfo
<1>2. /\ r \in AgentInfo /\ r.status = "deactivating" /\ r.withdrawable_at = now + cooldown_ms
      /\ r.bond = info[a].bond /\ r.slashed = info[a].slashed
  <2> DEFINE stopped == [info[a] EXCEPT !.status = "deactivating"]
  <2>1. /\ stopped \in AgentInfo /\ stopped.status = "deactivating"
        /\ stopped.bond = info[a].bond /\ stopped.slashed = info[a].slashed
    BY <1>1 DEF AgentInfo, AgentStatuses
  <2>2. now + cooldown_ms \in Nat
    BY <1>1
  <2>3. r = [stopped EXCEPT !.withdrawable_at = now + cooldown_ms]
    OBVIOUS
  <2> HIDE DEF stopped, r
  <2> QED
    BY <2>1, <2>2, <2>3 DEF AgentInfo
<1>3. info' = [info EXCEPT ![a] = r]
  BY <1>1 DEF Deactivate, AgentInfo
<1> HIDE DEF r
<1>4. RegistryTypeOK'
  BY <1>1, <1>2, <1>3, ZenonT(40) DEF RegistryInv, RegistryTypeOK, Deactivate, AgentInfo
<1>5. BondsConserved'
  BY <1>1, <1>2, <1>3 DEF RegistryInv, BondsConserved, Deactivate
<1>6. RecordsAgree'
  BY <1>1, <1>2, <1>3 DEF RegistryInv, RecordsAgree, Deactivate
<1> QED
  BY <1>4, <1>5, <1>6 DEF RegistryInv, Deactivate

LEMMA WithdrawInv ==
    ASSUME RegistryInv, NEW a \in Accounts, WithdrawBond(a)
    PROVE  RegistryInv'
<1> DEFINE r == [info[a] EXCEPT !.bond = 0, !.status = "withdrawn"]
<1>1. /\ info[a] \in AgentInfo /\ info \in [Accounts -> AgentInfo]
      /\ returned \in [Accounts -> Nat] /\ registry \in Int
  BY DEF RegistryInv, RegistryTypeOK, AgentInfo
<1>2. r \in AgentInfo /\ r.status = "withdrawn" /\ r.bond = 0 /\ r.slashed = info[a].slashed
  BY <1>1 DEF AgentInfo, AgentStatuses
<1>3. info' = [info EXCEPT ![a] = r]
  BY <1>1 DEF WithdrawBond, AgentInfo
<1>4. info[a].bond \in Nat /\ info[a].slashed \in Nat
  BY <1>1 DEF AgentInfo
<1> HIDE DEF r
<1>5. RegistryTypeOK'
  BY <1>1, <1>2, <1>3, <1>4 DEF RegistryInv, RegistryTypeOK, WithdrawBond, AgentInfo
<1>6. BondsConserved'
  BY <1>1, <1>2, <1>3, <1>4 DEF RegistryInv, BondsConserved, WithdrawBond
<1>7. RecordsAgree'
  BY <1>1, <1>2, <1>3 DEF RegistryInv, RecordsAgree, WithdrawBond
<1> QED
  BY <1>5, <1>6, <1>7 DEF RegistryInv, WithdrawBond

LEMMA SlashInv ==
    ASSUME RegistryInv, NEW a \in Accounts, NEW x \in Nat, Slash(a, x)
    PROVE  RegistryInv'
<1> DEFINE r == TakeFrom(info[a], x)
<1>1. /\ info[a] \in AgentInfo /\ info \in [Accounts -> AgentInfo] /\ registry \in Int
      /\ returned \in [Accounts -> Nat] /\ posted \in [Accounts -> Nat]
  BY DEF RegistryInv, RegistryTypeOK, AgentInfo
<1>2. info[a].bond \in Nat /\ info[a].slashed \in Nat /\ x <= info[a].bond
  BY <1>1 DEF AgentInfo, Slash
<1>3. /\ r.status = info[a].status /\ r.bond = info[a].bond - x /\ r.slashed = info[a].slashed + x
      /\ r.withdrawable_at = info[a].withdrawable_at
  BY <1>1 DEF TakeFrom, AgentInfo
<1>4. r \in AgentInfo
  <2> DEFINE lower == [info[a] EXCEPT !.bond = @ - x]
  <2>1. info[a].bond - x \in Nat /\ info[a].slashed + x \in Nat
    BY <1>2
  <2>2. lower \in AgentInfo
    BY <1>1, <2>1 DEF AgentInfo
  <2>3. r = [lower EXCEPT !.slashed = info[a].slashed + x]
    BY <1>1 DEF TakeFrom, AgentInfo
  <2> HIDE DEF lower, r
  <2> QED
    BY <2>1, <2>2, <2>3 DEF AgentInfo
<1>5. info' = [info EXCEPT ![a] = r]
  BY DEF Slash
<1> HIDE DEF r
<1>6. RegistryTypeOK'
  BY <1>1, <1>4, <1>5 DEF RegistryInv, RegistryTypeOK, Slash, AgentInfo
<1>7. BondsConserved'
  BY <1>1, <1>2, <1>3, <1>5 DEF RegistryInv, BondsConserved, Slash
<1>8. RecordsAgree'
  BY <1>1, <1>3, <1>5 DEF RegistryInv, RecordsAgree, Slash
<1> QED
  BY <1>6, <1>7, <1>8 DEF RegistryInv, Slash

LEMMA RegistryStutter == RegistryInv /\ UNCHANGED <<now, registryVars>> => RegistryInv'
  BY DEF RegistryInv, RegistryTypeOK, BondsConserved, RecordsAgree, registryVars

\* Every step keeps the invariant.
LEMMA RegistryNextInv == RegistryInv /\ [RegistryNext]_<<now, registryVars>> => RegistryInv'
<1> SUFFICES ASSUME RegistryInv, [RegistryNext]_<<now, registryVars>> PROVE RegistryInv'
  OBVIOUS
<1>1. CASE RegistryTick
  BY <1>1 DEF RegistryTick, Tick, registryVars, RegistryInv, RegistryTypeOK, BondsConserved, RecordsAgree
<1>2. CASE \E m \in Bonds : SetMinBond(m)
  BY <1>2, BondsAndCooldownsAreNat DEF SetMinBond, RegistryInv, RegistryTypeOK, BondsConserved, RecordsAgree
<1>3. CASE \E c \in Cooldowns : SetCooldown(c)
  BY <1>3, BondsAndCooldownsAreNat DEF SetCooldown, RegistryInv, RegistryTypeOK, BondsConserved, RecordsAgree
<1>4. CASE \E a \in Accounts : Deactivate(a)
  BY <1>4, DeactivateInv
<1>5. CASE \E a \in Accounts : WithdrawBond(a)
  BY <1>5, WithdrawInv
<1>6. CASE \E a \in Accounts, x \in Amounts \cup {0} : Register(a, x) \/ Slash(a, x)
  BY <1>6, RegisterInv, SlashInv, AmountsArePositive
<1>7. CASE UNCHANGED <<now, registryVars>>
  BY <1>7, RegistryStutter
<1> QED
  BY <1>1, <1>2, <1>3, <1>4, <1>5, <1>6, <1>7 DEF RegistryNext

LEMMA RegistryInvariance == RegistrySpec => []RegistryInv
  BY RegistryInitInv, RegistryNextInv, PTL DEF RegistrySpec

-----------------------------------------------------------------------------
(***************************************************************************)
(* The registry's purse                                                    *)
(***************************************************************************)

bonds == [a \in Accounts |-> info[a].bond]
BondsHeld == registry = SumFunction(bonds)

\* A step that moves one bond and the purse by as much keeps them equal.
LEMMA OneBondMoves ==
    ASSUME RegistryInv, RegistryInv', BondsHeld, NEW a \in Accounts,
           \A c \in Accounts \ {a} : info'[c] = info[c],
           registry' = registry + (info'[a].bond - info[a].bond)
    PROVE  BondsHeld'
<1>1. \A c \in Accounts : info[c].bond \in Int /\ info'[c].bond \in Int
  BY DEF RegistryInv, RegistryTypeOK
<1> DEFINE f == bonds
           g == bonds'
<1>2. DOMAIN f = Accounts /\ DOMAIN g = Accounts /\ \A c \in Accounts : f[c] = info[c].bond /\ g[c] = info'[c].bond
  BY DEF bonds
<1>3. registry = SumFunction(f)
  BY DEF BondsHeld
<1>4. BondsHeld' <=> registry' = SumFunction(g)
  BY DEF BondsHeld
<1> HIDE DEF f, g
<1>5. SumFunction(g) = SumFunction(f) + (g[a] - f[a])
  BY <1>1, <1>2, AccountsAreFinite, SumFunctionUpdate
<1> QED
  BY <1>2, <1>3, <1>4, <1>5

LEMMA BondsHeldNext ==
    ASSUME RegistryInv, RegistryInv', BondsHeld, RegistryNext
    PROVE  BondsHeld'
<1>1. /\ info \in [Accounts -> AgentInfo] /\ registry \in Int
      /\ \A a \in Accounts : info[a] \in AgentInfo /\ info[a].bond \in Nat
  BY DEF RegistryInv, RegistryTypeOK, AgentInfo
<1>2. CASE UNCHANGED <<info, registry>>
  BY <1>2 DEF BondsHeld, bonds
<1>3. ASSUME NEW a \in Accounts, Deactivate(a) PROVE BondsHeld'
  <2>1. info'[a].bond = info[a].bond /\ \A c \in Accounts \ {a} : info'[c] = info[c]
    BY <1>1, <1>3 DEF Deactivate, AgentInfo
  <2>2. registry' = registry + (info'[a].bond - info[a].bond)
    BY <1>1, <1>3, <2>1 DEF Deactivate
  <2> QED
    BY <2>1, <2>2, OneBondMoves
<1>4. ASSUME NEW a \in Accounts, WithdrawBond(a) PROVE BondsHeld'
  <2>1. info'[a].bond = 0 /\ \A c \in Accounts \ {a} : info'[c] = info[c]
    BY <1>1, <1>4 DEF WithdrawBond, AgentInfo
  <2>2. registry' = registry + (info'[a].bond - info[a].bond)
    BY <1>1, <1>4, <2>1 DEF WithdrawBond
  <2> QED
    BY <2>1, <2>2, OneBondMoves
<1>5. ASSUME NEW a \in Accounts, NEW x \in Amounts \cup {0}, Register(a, x) PROVE BondsHeld'
  <2>1. info'[a].bond = x /\ \A c \in Accounts \ {a} : info'[c] = info[c]
    BY <1>1, <1>5 DEF Register
  <2>2. info[a].bond = 0 /\ x \in Nat
    BY <1>5, AmountsArePositive DEF Register, RegistryInv, RecordsAgree
  <2>3. registry' = registry + (info'[a].bond - info[a].bond)
    BY <1>1, <1>5, <2>1, <2>2 DEF Register
  <2> QED
    BY <2>1, <2>3, OneBondMoves
<1>6. ASSUME NEW a \in Accounts, NEW x \in Amounts \cup {0}, Slash(a, x) PROVE BondsHeld'
  <2>1. info'[a] = TakeFrom(info[a], x) /\ \A c \in Accounts \ {a} : info'[c] = info[c]
    BY <1>1, <1>6 DEF Slash
  <2>2. TakeFrom(info[a], x).bond = info[a].bond - x /\ x \in Nat
    BY <1>1, AmountsArePositive DEF TakeFrom, AgentInfo
  <2>3. registry' = registry + (info'[a].bond - info[a].bond)
    BY <1>1, <1>6, <2>1, <2>2 DEF Slash
  <2> QED
    BY <2>1, <2>3, OneBondMoves
<1>7. CASE RegistryTick \/ (\E m \in Bonds : SetMinBond(m)) \/ (\E c \in Cooldowns : SetCooldown(c))
  BY <1>2, <1>7 DEF RegistryTick, registryVars, SetMinBond, SetCooldown
<1> QED
  BY <1>3, <1>4, <1>5, <1>6, <1>7 DEF RegistryNext

LEMMA BondsHeldInit == RegistryInit => BondsHeld
<1> SUFFICES ASSUME RegistryInit PROVE BondsHeld
  OBVIOUS
<1>1. DOMAIN bonds = Accounts /\ \A a \in Accounts : bonds[a] = 0
  BY DEF RegistryInit, bonds
<1>2. SumFunction(bonds) = 0
  BY <1>1, AccountsAreFinite, SumFunctionZero
<1> QED
  BY <1>2 DEF RegistryInit, BondsHeld

\* The registry holds exactly the bonds of its agents, however many there are and whatever the
\* admin slashes: it can always return the last of them.
THEOREM BondsAreBacked == RegistrySpec => []EveryBondAccounted
<1>1. RegistryInv /\ BondsHeld => EveryBondAccounted
  BY DEF RegistryInv, BondsHeld, bonds, EveryBondAccounted
<1>2. now = 0 /\ RegistryInit => RegistryInv /\ BondsHeld
  BY RegistryInitInv, BondsHeldInit
<1>3. RegistryInv /\ BondsHeld /\ [RegistryNext]_<<now, registryVars>> => (RegistryInv /\ BondsHeld)'
  <2> SUFFICES ASSUME RegistryInv, BondsHeld, [RegistryNext]_<<now, registryVars>>
               PROVE  RegistryInv' /\ BondsHeld'
    OBVIOUS
  <2>1. RegistryInv'
    BY RegistryNextInv
  <2>2. CASE UNCHANGED <<now, registryVars>>
    BY <2>1, <2>2 DEF registryVars, BondsHeld, bonds
  <2> QED
    BY <2>1, <2>2, BondsHeldNext
<1> QED
  BY <1>1, <1>2, <1>3, PTL DEF RegistrySpec

\* Every variable of the registry keeps its type: no bond, slash or payment is ever negative.
THEOREM RegistryTypeCorrect == RegistrySpec => []RegistryTypeOK
<1>1. RegistryInv => RegistryTypeOK
  BY DEF RegistryInv
<1> QED
  BY <1>1, RegistryInvariance, PTL

\* Whatever any number of agents and the admin do, each agent's bond, what was slashed from it
\* and what came back add up to what it posted.
THEOREM BondsAreConserved == RegistrySpec => []BondsConserved
<1>1. RegistryInv => BondsConserved
  BY DEF RegistryInv
<1> QED
  BY <1>1, RegistryInvariance, PTL
-----------------------------------------------------------------------------
(***************************************************************************)
(* No launder                                                              *)
(***************************************************************************)

\* What a step may do to one agent.
MayMove(a) ==
    /\ returned'[a] # returned[a] => info[a].status = "deactivating" /\ now >= left[a].at + left[a].cooldown
    /\ info[a].status \in {"deactivating", "withdrawn"} => info'[a].status \in {info[a].status, "withdrawn"}
    /\ info'[a].slashed >= info[a].slashed

LEMMA AgentStepMoves ==
    ASSUME RegistryInv, RegistryNext, NEW a \in Accounts
    PROVE  MayMove(a)
<1>1. /\ info[a] \in AgentInfo /\ info \in [Accounts -> AgentInfo]
      /\ returned \in [Accounts -> Nat] /\ info[a].slashed \in Nat
  BY DEF RegistryInv, RegistryTypeOK, AgentInfo
<1>2. CASE UNCHANGED <<info, returned>>
  BY <1>1, <1>2 DEF MayMove
<1>3. ASSUME NEW c \in Accounts, Deactivate(c) PROVE MayMove(a)
  <2>1. UNCHANGED returned /\ (info'[a] = info[a] \/ (a = c /\ info[a].status = "active"))
    BY <1>1, <1>3 DEF Deactivate
  <2>2. info'[a].slashed = info[a].slashed
    BY <1>1, <1>3 DEF Deactivate, AgentInfo
  <2> QED
    BY <1>1, <2>1, <2>2 DEF MayMove
<1>4. ASSUME NEW c \in Accounts, WithdrawBond(c) PROVE MayMove(a)
  <2>1. CASE a # c
    BY <1>1, <1>4, <2>1 DEF WithdrawBond, MayMove
  <2>2. CASE a = c
    <3>1. info[a].status = "deactivating" /\ now >= left[a].at + left[a].cooldown
      BY <1>4, <2>2 DEF WithdrawBond, CooledDown, RegistryInv, RecordsAgree
    <3>2. info'[a].slashed = info[a].slashed /\ info'[a].status = "withdrawn"
      BY <1>1, <1>4, <2>2 DEF WithdrawBond, AgentInfo
    <3> QED
      BY <1>1, <3>1, <3>2 DEF MayMove
  <2> QED
    BY <2>1, <2>2
<1>5. ASSUME NEW c \in Accounts, NEW x \in Amounts \cup {0}, Register(c, x) PROVE MayMove(a)
  <2>1. CASE a # c
    BY <1>1, <1>5, <2>1 DEF Register, MayMove
  <2>2. CASE a = c
    <3>1. info[a].status = "none" /\ info[a].slashed = 0 /\ info'[a].slashed = 0 /\ UNCHANGED returned
      BY <1>1, <1>5, <2>2 DEF Register, RegistryInv, RecordsAgree
    <3> QED
      BY <3>1 DEF MayMove
  <2> QED
    BY <2>1, <2>2
<1>6. ASSUME NEW c \in Accounts, NEW x \in Amounts \cup {0}, Slash(c, x) PROVE MayMove(a)
  <2>1. x \in Nat /\ UNCHANGED returned
    BY <1>6, AmountsArePositive DEF Slash
  <2>2. CASE a # c
    BY <1>1, <1>6, <2>1, <2>2 DEF Slash, MayMove
  <2>3. CASE a = c
    <3>1. info'[a].status = info[a].status /\ info'[a].slashed = info[a].slashed + x
      BY <1>1, <1>6, <2>3 DEF Slash, TakeFrom, AgentInfo
    <3> QED
      BY <1>1, <2>1, <3>1 DEF MayMove
  <2> QED
    BY <2>2, <2>3
<1>7. CASE RegistryTick \/ (\E m \in Bonds : SetMinBond(m)) \/ (\E c \in Cooldowns : SetCooldown(c))
  BY <1>2, <1>7 DEF RegistryTick, registryVars, SetMinBond, SetCooldown
<1> QED
  BY <1>3, <1>4, <1>5, <1>6, <1>7 DEF RegistryNext

\* The track record cannot be laundered, whatever the admin sets between: bonds come back only
\* after the cooldown in force when the agent stopped, and slashes stay.
THEOREM RecordsCannotBeLaundered == RegistrySpec => NoLaunder
<1>1. ASSUME RegistryInv, RegistryNext
      PROVE  \A a \in Accounts :
          /\ returned'[a] # returned[a] => info[a].status = "deactivating"
                                           /\ now >= left[a].at + left[a].cooldown
          /\ info[a].status \in {"deactivating", "withdrawn"} => info'[a].status \in {info[a].status, "withdrawn"}
          /\ info'[a].slashed >= info[a].slashed
  BY <1>1, AgentStepMoves DEF MayMove
<1> QED
  BY <1>1, RegistryInvariance, PTL DEF RegistrySpec, NoLaunder
-----------------------------------------------------------------------------
(***************************************************************************)
(* RESOLUTION HOOK AND ESCROW CONSUMER                                     *)
(***************************************************************************)

NoEscrow == [state |-> "none"]
Escrows == [state : {"funded", "settled"}, paying_outcome : Decisions, amount : Nat,
            beneficiary : Accounts, refund_to : Accounts]

HookTypes ==
    /\ decided \in [HookedMarkets -> Decisions \cup {Unset}]
    /\ notified \in [HookedMarkets -> SUBSET Accounts]
    /\ hooks \in [HookedMarkets -> SUBSET Accounts]
    /\ escrow \in [HookedMarkets -> Escrows \cup {NoEscrow}]
    /\ received \in [HookedMarkets -> [Accounts -> Nat]]

\* An escrow settles after the dispatch only: the outcome it read cannot change under it.
SettledAfterDispatch == \A m \in HookedMarkets : escrow[m].state = "settled" => decided[m] # Unset

HookInv == HookTypes /\ SettledAfterDispatch /\ EscrowPaysTheDecided
-----------------------------------------------------------------------------
(***************************************************************************)
(* The inductive invariant                                                 *)
(***************************************************************************)

LEMMA HookInitInv == HookInit => HookInv
<1> SUFFICES ASSUME HookInit PROVE HookInv
  OBVIOUS
<1>1. \A m \in HookedMarkets : escrow[m] = NoEscrow /\ NoEscrow.state = "none"
  BY DEF HookInit, NoEscrow
<1>2. escrow \in [HookedMarkets -> Escrows \cup {NoEscrow}]
  BY DEF HookInit, NoEscrow
<1>3. received \in [HookedMarkets -> [Accounts -> Nat]]
  BY DEF HookInit
<1>4. HookTypes
  BY <1>2, <1>3 DEF HookInit, HookTypes
<1>5. SettledAfterDispatch /\ EscrowPaysTheDecided
  BY <1>1 DEF HookInit, SettledAfterDispatch, EscrowPaysTheDecided
<1> QED
  BY <1>4, <1>5 DEF HookInv

LEMMA RegisterHookInv ==
    ASSUME HookInv, NEW m \in HookedMarkets, NEW a \in Accounts, RegisterHook(m, a)
    PROVE  HookInv'
  BY DEF RegisterHook, HookInv, HookTypes, SettledAfterDispatch, EscrowPaysTheDecided

LEMMA DispatchInv ==
    ASSUME HookInv, NEW m \in HookedMarkets, NEW o \in Decisions, Dispatch(m, o)
    PROVE  HookInv'
<1>1. HookTypes'
  BY DEF Dispatch, HookInv, HookTypes
<1>2. \A n \in HookedMarkets : escrow[n].state = "settled" => decided'[n] = decided[n]
  BY DEF Dispatch, Undecided, HookInv, HookTypes, SettledAfterDispatch
<1>3. SettledAfterDispatch'
  BY <1>2 DEF Dispatch, HookInv, SettledAfterDispatch
<1>4. EscrowPaysTheDecided'
  BY <1>2 DEF Dispatch, HookInv, EscrowPaysTheDecided
<1> QED
  BY <1>1, <1>3, <1>4 DEF HookInv

LEMMA FundInv ==
    ASSUME HookInv, NEW m \in HookedMarkets, NEW o \in Decisions, NEW b \in Accounts, NEW c \in Accounts,
           NEW x \in Amounts, Fund(m, o, b, c, x)
    PROVE  HookInv'
<1> DEFINE e == [state |-> "funded", paying_outcome |-> o, amount |-> x, beneficiary |-> b, refund_to |-> c]
<1>1. e \in Escrows /\ e.state = "funded"
  BY AmountsArePositive DEF Escrows
<1>2. escrow' = [escrow EXCEPT ![m] = e] /\ escrow[m].state = "none"
  BY DEF Fund
<1> HIDE DEF e
<1>3. HookTypes'
  BY <1>1, <1>2 DEF Fund, HookInv, HookTypes
<1>4. \A n \in HookedMarkets : n # m => escrow'[n] = escrow[n]
  BY <1>2 DEF HookInv, HookTypes
<1>5. escrow'[m].state = "funded"
  BY <1>1, <1>2 DEF HookInv, HookTypes
<1>6. SettledAfterDispatch'
  BY <1>4, <1>5 DEF Fund, HookInv, SettledAfterDispatch
<1>7. EscrowPaysTheDecided'
  BY <1>2, <1>4, <1>5 DEF Fund, HookInv, EscrowPaysTheDecided
<1> QED
  BY <1>3, <1>6, <1>7 DEF HookInv

LEMMA SettleEscrowInv ==
    ASSUME HookInv, NEW m \in HookedMarkets, SettleEscrow(m)
    PROVE  HookInv'
<1> DEFINE e == escrow[m]
           paid == [e EXCEPT !.state = "settled"]
           to == Recipient(e, decided[m])
<1>1. e \in Escrows /\ e.state = "funded"
  <2>1. escrow[m] \in Escrows \cup {NoEscrow}
    BY DEF HookInv, HookTypes
  <2>2. escrow[m].state = "funded" /\ NoEscrow.state = "none"
    BY DEF SettleEscrow, NoEscrow
  <2>3. escrow[m] # NoEscrow
    BY <2>2
  <2> QED
    BY <2>1, <2>2, <2>3
<1>2. /\ paid \in Escrows /\ paid.state = "settled" /\ paid.amount = e.amount
      /\ paid.paying_outcome = e.paying_outcome /\ paid.beneficiary = e.beneficiary /\ paid.refund_to = e.refund_to
  <2> HIDE DEF e
  <2>1. paid = [state |-> "settled", paying_outcome |-> e.paying_outcome, amount |-> e.amount,
                beneficiary |-> e.beneficiary, refund_to |-> e.refund_to]
    BY <1>1 DEF Escrows
  <2>2. e.paying_outcome \in Decisions /\ e.amount \in Nat /\ e.beneficiary \in Accounts /\ e.refund_to \in Accounts
    BY <1>1 DEF Escrows
  <2> HIDE DEF paid
  <2> QED
    BY <2>1, <2>2 DEF Escrows
<1>3. to \in Accounts /\ e.amount \in Nat /\ to = (IF decided[m] = e.paying_outcome THEN e.beneficiary ELSE e.refund_to)
  BY <1>1 DEF Escrows, Recipient
<1>4. escrow' = [escrow EXCEPT ![m] = paid]
  BY DEF SettleEscrow
<1>5. received' = [received EXCEPT ![m] = [received[m] EXCEPT ![to] = @ + e.amount]]
  BY DEF SettleEscrow
<1>6. received[m] \in [Accounts -> Nat] /\ \A a \in Accounts : received[m][a] = 0
  BY <1>1 DEF HookInv, HookTypes, EscrowPaysTheDecided
<1> HIDE DEF e, paid, to
<1>7. [received[m] EXCEPT ![to] = @ + e.amount] \in [Accounts -> Nat]
  BY <1>3, <1>6
<1>8. HookTypes'
  <2>1. escrow' \in [HookedMarkets -> Escrows \cup {NoEscrow}]
    BY <1>2, <1>4 DEF HookInv, HookTypes
  <2>2. received' \in [HookedMarkets -> [Accounts -> Nat]]
    BY <1>5, <1>7 DEF HookInv, HookTypes
  <2> QED
    BY <2>1, <2>2 DEF SettleEscrow, HookInv, HookTypes
<1>9. /\ escrow'[m] = paid /\ \A n \in HookedMarkets : n # m => escrow'[n] = escrow[n] /\ received'[n] = received[n]
      /\ received'[m] = [received[m] EXCEPT ![to] = @ + e.amount]
  BY <1>4, <1>5 DEF HookInv, HookTypes
<1>10. SettledAfterDispatch'
  BY <1>9 DEF SettleEscrow, HookInv, SettledAfterDispatch
<1>11. \A a \in Accounts : received'[m][a] = IF a = to THEN e.amount ELSE 0
  BY <1>3, <1>6, <1>9
<1>12. EscrowPaysTheDecided'
  <2>1. decided' = decided
    BY DEF SettleEscrow
  <2>2. ASSUME NEW n \in HookedMarkets, NEW a \in Accounts
        PROVE  received'[n][a] = IF /\ escrow'[n].state = "settled"
                                    /\ a = IF decided'[n] = escrow'[n].paying_outcome THEN escrow'[n].beneficiary
                                           ELSE escrow'[n].refund_to
                                 THEN escrow'[n].amount ELSE 0
    <3>1. CASE n = m
      BY <1>2, <1>3, <1>9, <1>11, <2>1, <3>1, ZenonT(40)
    <3>2. CASE n # m
      BY <1>9, <2>1, <3>2 DEF HookInv, EscrowPaysTheDecided
    <3> QED
      BY <3>1, <3>2
  <2> QED
    BY <2>2 DEF EscrowPaysTheDecided
<1> QED
  BY <1>8, <1>10, <1>12 DEF HookInv

\* Every step keeps the invariant.
LEMMA HookNextInv == HookInv /\ [HookNext]_<<now, hookVars>> => HookInv'
<1> SUFFICES ASSUME HookInv, [HookNext]_<<now, hookVars>> PROVE HookInv'
  OBVIOUS
<1>1. CASE HookNext
  BY <1>1, RegisterHookInv, DispatchInv, FundInv, SettleEscrowInv DEF HookNext
<1>2. CASE UNCHANGED <<now, hookVars>>
  BY <1>2 DEF hookVars, HookInv, HookTypes, SettledAfterDispatch, EscrowPaysTheDecided
<1> QED
  BY <1>1, <1>2

LEMMA HookInvariance == HookSpec => []HookInv
  BY HookInitInv, HookNextInv, PTL DEF HookSpec

\* In every state of any number of escrows each has paid nothing, or once, all of it, to the side
\* the dispatched outcome names.
THEOREM EscrowsPayTheDecided == HookSpec => []EscrowPaysTheDecided
<1>1. HookInv => EscrowPaysTheDecided
  BY DEF HookInv
<1> QED
  BY <1>1, HookInvariance, PTL
-----------------------------------------------------------------------------
(***************************************************************************)
(* The consumer's purse                                                    *)
(***************************************************************************)

unsettled == [m \in HookedMarkets |-> IF escrow[m].state = "funded" THEN escrow[m].amount ELSE 0]
FundsHeld == consumer = SumFunction(unsettled)

LEMMA UnsettledTypes == ASSUME HookTypes PROVE DOMAIN unsettled = HookedMarkets /\ \A m \in HookedMarkets : unsettled[m] \in Nat
<1> SUFFICES ASSUME NEW m \in HookedMarkets PROVE unsettled[m] \in Nat
  BY DEF unsettled
<1>1. escrow[m] \in Escrows \cup {NoEscrow} /\ NoEscrow.state = "none"
  BY DEF HookTypes, NoEscrow
<1>2. CASE escrow[m].state = "funded"
  <2>1. escrow[m] \in Escrows
    BY <1>1, <1>2
  <2> QED
    BY <1>2, <2>1 DEF unsettled, Escrows
<1> QED
  BY <1>2 DEF unsettled

LEMMA UnsettledTypesNext ==
    (HookTypes => DOMAIN unsettled = HookedMarkets /\ \A m \in HookedMarkets : unsettled[m] \in Nat)'
<1>1. HookTypes => DOMAIN unsettled = HookedMarkets /\ \A m \in HookedMarkets : unsettled[m] \in Nat
  BY UnsettledTypes
<1> QED
  BY <1>1, PTL

\* A step that moves one escrow and the purse by as much keeps them equal.
LEMMA OneEscrowMoves ==
    ASSUME HookTypes, HookTypes', FundsHeld, NEW m \in HookedMarkets,
           \A n \in HookedMarkets \ {m} : unsettled'[n] = unsettled[n],
           consumer' = consumer + (unsettled'[m] - unsettled[m])
    PROVE  FundsHeld'
<1> DEFINE f == unsettled
           g == unsettled'
<1>1. DOMAIN f = HookedMarkets /\ \A n \in HookedMarkets : f[n] \in Nat
  BY UnsettledTypes
<1>2. DOMAIN g = HookedMarkets /\ \A n \in HookedMarkets : g[n] \in Nat
  BY UnsettledTypesNext
<1>3. consumer = SumFunction(f) /\ (FundsHeld' <=> consumer' = SumFunction(g))
  BY DEF FundsHeld
<1> HIDE DEF f, g
<1>4. SumFunction(g) = SumFunction(f) + (g[m] - f[m])
  BY <1>1, <1>2, HookedMarketsAreFinite, SumFunctionUpdate DEF f, g
<1> QED
  BY <1>3, <1>4 DEF f, g

LEMMA FundsHeldNext ==
    ASSUME HookInv, HookInv', FundsHeld, HookNext
    PROVE  FundsHeld'
<1>1. HookTypes /\ HookTypes' /\ \A n \in HookedMarkets : unsettled[n] \in Nat
  BY UnsettledTypes DEF HookInv
<1>2. CASE UNCHANGED <<escrow, consumer>>
  BY <1>2 DEF FundsHeld, unsettled
<1>3. ASSUME NEW m \in HookedMarkets, NEW o \in Decisions, NEW a \in Accounts, NEW c \in Accounts, NEW x \in Amounts,
             Fund(m, o, a, c, x)
      PROVE  FundsHeld'
  <2>1. escrow'[m].state = "funded" /\ escrow'[m].amount = x /\ escrow[m].state = "none"
        /\ \A n \in HookedMarkets \ {m} : escrow'[n] = escrow[n]
    BY <1>1, <1>3 DEF Fund, HookTypes
  <2>2. unsettled'[m] = x /\ unsettled[m] = 0 /\ \A n \in HookedMarkets \ {m} : unsettled'[n] = unsettled[n]
    BY <2>1 DEF unsettled
  <2>3. consumer' = consumer + (unsettled'[m] - unsettled[m])
    BY <1>3, <2>2, AmountsArePositive DEF Fund
  <2> QED
    BY <1>1, <2>2, <2>3, OneEscrowMoves
<1>4. ASSUME NEW m \in HookedMarkets, SettleEscrow(m) PROVE FundsHeld'
  <2>1. escrow'[m].state = "settled" /\ escrow[m].state = "funded"
        /\ \A n \in HookedMarkets \ {m} : escrow'[n] = escrow[n]
    <3>1. escrow[m] \in Escrows \cup {NoEscrow} /\ NoEscrow.state = "none"
      BY <1>1 DEF HookTypes, NoEscrow
    <3>2. escrow[m] \in Escrows
      BY <1>4, <3>1 DEF SettleEscrow
    <3>3. escrow' = [escrow EXCEPT ![m] = [escrow[m] EXCEPT !.state = "settled"]]
      BY <1>4 DEF SettleEscrow
    <3>4. [escrow[m] EXCEPT !.state = "settled"].state = "settled"
      BY <3>2 DEF Escrows
    <3> QED
      BY <1>1, <1>4, <3>3, <3>4 DEF SettleEscrow, HookTypes
  <2>2. unsettled'[m] = 0 /\ unsettled[m] = escrow[m].amount
        /\ \A n \in HookedMarkets \ {m} : unsettled'[n] = unsettled[n]
    BY <2>1 DEF unsettled
  <2>3. consumer' = consumer - unsettled[m]
    BY <1>4, <2>2 DEF SettleEscrow
  <2>4. consumer \in Int
    <3>1. SumFunction(unsettled) \in Int
      BY <1>1, UnsettledTypes, HookedMarketsAreFinite, SumInt DEF SumFunction
    <3> QED
      BY <3>1 DEF FundsHeld
  <2>5. consumer' = consumer + (unsettled'[m] - unsettled[m])
    BY <1>1, <2>2, <2>3, <2>4
  <2> QED
    BY <1>1, <2>2, <2>5, OneEscrowMoves
<1> QED
  BY <1>2, <1>3, <1>4 DEF HookNext, RegisterHook, Dispatch

LEMMA FundsHeldInit == HookInit => FundsHeld
<1> SUFFICES ASSUME HookInit PROVE FundsHeld
  OBVIOUS
<1>1. DOMAIN unsettled = HookedMarkets /\ \A m \in HookedMarkets : unsettled[m] = 0
  BY DEF HookInit, unsettled
<1>2. SumFunction(unsettled) = 0
  BY <1>1, HookedMarketsAreFinite, SumFunctionZero
<1> QED
  BY <1>2 DEF HookInit, FundsHeld

LEMMA FundsAreTheFunded == ASSUME HookInv, FundsHeld PROVE EscrowFollowsTheHook
<1> DEFINE T == {n \in HookedMarkets : escrow[n].state = "funded"}
           f == [m \in T |-> escrow[m].amount]
<1>1. /\ DOMAIN unsettled = HookedMarkets /\ IsFiniteSet(T) /\ T \in SUBSET HookedMarkets
      /\ \A n \in HookedMarkets : unsettled[n] \in Int /\ (n \notin T => unsettled[n] = 0)
  BY UnsettledTypes, HookedMarketsAreFinite, FS_Subset DEF HookInv, unsettled
<1>2. DOMAIN f = T /\ \A n \in T : unsettled[n] = f[n] /\ unsettled[n] \in Int
  BY <1>1 DEF unsettled
<1>3. EscrowFollowsTheHook <=> EscrowPaysTheDecided /\ consumer = SumFunction(f)
  BY DEF EscrowFollowsTheHook
<1> HIDE DEF T, f
<1>4. SumFunctionOnSet(unsettled, HookedMarkets) = SumFunctionOnSet(unsettled, T)
  BY <1>1, HookedMarketsAreFinite, SumOfSupport
<1>5. SumFunctionOnSet(unsettled, T) = SumFunctionOnSet(f, T)
  BY <1>1, <1>2, SumEqual
<1>6. consumer = SumFunction(f)
  BY <1>1, <1>2, <1>4, <1>5 DEF FundsHeld, SumFunction
<1> QED
  BY <1>3, <1>6 DEF HookInv

\* However the dispatch, the funding and the pushes interleave, the consumer holds exactly what
\* the escrows not yet settled are owed.
THEOREM FundsFollowTheHook == HookSpec => []EscrowFollowsTheHook
<1>1. HookInv /\ FundsHeld => EscrowFollowsTheHook
  BY FundsAreTheFunded
<1>2. HookInv /\ FundsHeld /\ [HookNext]_<<now, hookVars>> => (HookInv /\ FundsHeld)'
  <2> SUFFICES ASSUME HookInv, FundsHeld, [HookNext]_<<now, hookVars>> PROVE HookInv' /\ FundsHeld'
    OBVIOUS
  <2>1. HookInv'
    BY HookNextInv
  <2>2. CASE UNCHANGED <<now, hookVars>>
    BY <2>1, <2>2 DEF hookVars, FundsHeld, unsettled
  <2> QED
    BY <2>1, <2>2, FundsHeldNext
<1> QED
  BY <1>1, <1>2, HookInitInv, FundsHeldInit, PTL DEF HookSpec
-----------------------------------------------------------------------------
\* Once dispatched, an outcome and the consumers told of it never change, whoever dispatches,
\* registers or funds later; those told are those registered before.
THEOREM VerdictsAreFinal == HookSpec => VerdictIsFinal
<1> DEFINE Final == \A m \in HookedMarkets :
          /\ decided[m] # Unset => decided'[m] = decided[m] /\ notified'[m] = notified[m]
          /\ decided[m] = Unset /\ decided'[m] # Unset => notified'[m] = hooks[m]
<1>1. ASSUME HookInv, HookNext PROVE Final
  <2>1. CASE UNCHANGED <<decided, notified>>
    BY <2>1
  <2>2. CASE \E m \in HookedMarkets, o \in Decisions : Dispatch(m, o)
    BY <1>1, <2>2 DEF Dispatch, Undecided, HookInv, HookTypes
  <2> QED
    BY <1>1, <2>1, <2>2 DEF HookNext, RegisterHook, Fund, SettleEscrow
<1>2. HookInv /\ [HookNext]_<<now, hookVars>> => [Final]_hookVars
  BY <1>1 DEF hookVars
<1> QED
  BY <1>2, HookInvariance, PTL DEF HookSpec, VerdictIsFinal
-----------------------------------------------------------------------------
(***************************************************************************)
(* DIRECTORIES AND COPY FEES                                               *)
(***************************************************************************)

(***************************************************************************)
(* The directories                                                         *)
(***************************************************************************)

Tallies == [known : BOOLEAN, resolved : Nat, accurate : Nat]
ListingRecords == [at : Vaults \cup {Unset}, resolved : BOOLEAN]
Verdicts == [market : ListedMarkets, accurate : BOOLEAN]

marketsOf(V) == {v.market : v \in V}
rightOf(V) == {v \in V : v.accurate}

DirectoryTypes ==
    /\ oracle \in [Accounts -> Tallies]
    /\ verdicts \in [Accounts -> SUBSET Verdicts]
    /\ listing \in [ListedMarkets -> ListingRecords]
    /\ ids \in Seq(ListedMarkets) /\ vault \in Vaults \cup {Unset}
    /\ share_bps \in Nat /\ earned \in [Accounts -> Nat]
    /\ fees \in [paid : Int, treasury : Int]

\* An oracle's tallies are the sizes of what was recorded for it.
TalliesCount ==
    \A a \in Accounts :
        /\ IsFiniteSet(marketsOf(verdicts[a])) /\ oracle[a].resolved = Cardinality(marketsOf(verdicts[a]))
        /\ IsFiniteSet(rightOf(verdicts[a])) /\ oracle[a].accurate = Cardinality(rightOf(verdicts[a]))
        /\ oracle[a].accurate <= oracle[a].resolved

Enumerable ==
    /\ \A m \in ListedMarkets : (listing[m].at # Unset) <=> \E i \in DOMAIN ids : ids[i] = m
    /\ \A i, j \in DOMAIN ids : ids[i] = ids[j] => i = j

FeesAddUp == fees.paid = fees.treasury + SumFunction(earned)

DirectoryInv == DirectoryTypes /\ TalliesCount /\ Enumerable /\ FeesAddUp

LEMMA DirectoryInitInv == RegistriesInit => DirectoryInv
<1> SUFFICES ASSUME RegistriesInit PROVE DirectoryInv
  OBVIOUS
<1>a. /\ oracle = [a \in Accounts |-> [known |-> FALSE, resolved |-> 0, accurate |-> 0]]
      /\ verdicts = [a \in Accounts |-> {}]
  BY Zenon DEF RegistriesInit
<1>b. listing = [m \in ListedMarkets |-> [at |-> Unset, resolved |-> FALSE]]
  BY Zenon DEF RegistriesInit
<1>0. /\ ids = <<>> /\ vault = Unset /\ share_bps \in Shares /\ earned = [a \in Accounts |-> 0]
      /\ fees = [paid |-> 0, treasury |-> 0]
  BY Zenon DEF RegistriesInit
<1>1. DirectoryTypes
  <2>1. oracle \in [Accounts -> Tallies] /\ verdicts \in [Accounts -> SUBSET Verdicts]
    BY <1>a DEF Tallies
  <2>2. listing \in [ListedMarkets -> ListingRecords]
    BY <1>b DEF ListingRecords
  <2>4. ids \in Seq(ListedMarkets) /\ vault \in Vaults \cup {Unset}
    BY <1>0
  <2>3. share_bps \in Nat /\ earned \in [Accounts -> Nat] /\ fees \in [paid : Int, treasury : Int]
    BY <1>0, VaultsAreAddresses
  <2> QED
    BY <2>1, <2>2, <2>3, <2>4 DEF DirectoryTypes
<1>2. TalliesCount
  <2>1. \A a \in Accounts : /\ marketsOf(verdicts[a]) = {} /\ rightOf(verdicts[a]) = {}
                            /\ oracle[a].resolved = 0 /\ oracle[a].accurate = 0
    BY <1>a DEF marketsOf, rightOf
  <2> QED
    BY <2>1, FS_EmptySet DEF TalliesCount
<1>3. Enumerable
  <2>1. \A m \in ListedMarkets : listing[m].at = Unset
    BY <1>b
  <2>2. ids = <<>> /\ DOMAIN ids = {}
    BY <1>0
  <2> QED
    BY <2>1, <2>2 DEF Enumerable
<1>4. FeesAddUp
  <2>1. DOMAIN earned = Accounts /\ \A a \in Accounts : earned[a] = 0
    BY <1>0
  <2>2. SumFunction(earned) = 0
    BY <2>1, AccountsAreFinite, SumFunctionZero
  <2> QED
    BY <1>0, <2>2 DEF FeesAddUp
<1> QED
  BY <1>1, <1>2, <1>3, <1>4 DEF DirectoryInv

LEMMA RecordResolutionInv ==
    ASSUME DirectoryInv, NEW a \in Accounts, NEW m \in ListedMarkets, NEW yes \in BOOLEAN, RecordResolution(a, m, yes)
    PROVE  DirectoryInv'
<1> DEFINE v == [market |-> m, accurate |-> yes]
           V == verdicts[a]
           r == [oracle[a] EXCEPT !.resolved = @ + 1, !.accurate = @ + (IF yes THEN 1 ELSE 0)]
<1>1. /\ oracle \in [Accounts -> Tallies] /\ oracle[a] \in Tallies
      /\ verdicts \in [Accounts -> SUBSET Verdicts] /\ V \in SUBSET Verdicts
      /\ UNCHANGED <<listing, ids, vault, share_bps, earned, fees>>
  BY DEF DirectoryInv, DirectoryTypes, RecordResolution
<1>2. v \in Verdicts /\ v.market = m /\ v.accurate = yes
  BY DEF Verdicts
<1> DEFINE inc == IF yes THEN 1 ELSE 0
<1>i. inc \in Nat /\ (yes => inc = 1) /\ (~yes => inc = 0)
  OBVIOUS
<1>3. \A w \in V : w.market # m
  BY DEF RecordResolution
<1>4. r \in Tallies /\ r.resolved = oracle[a].resolved + 1 /\ r.accurate = oracle[a].accurate + inc
  <2> DEFINE q == [oracle[a] EXCEPT !.resolved = @ + 1]
  <2>1. q \in Tallies /\ q.resolved = oracle[a].resolved + 1 /\ q.accurate = oracle[a].accurate
    BY <1>1 DEF Tallies
  <2>2. r = [q EXCEPT !.accurate = oracle[a].accurate + (IF yes THEN 1 ELSE 0)]
    BY <1>1 DEF Tallies
  <2>3. oracle[a].accurate + (IF yes THEN 1 ELSE 0) \in Nat
    BY <1>1 DEF Tallies
  <2> HIDE DEF q, r
  <2> QED
    BY <2>1, <2>2, <2>3 DEF Tallies
<1>5. oracle' = [oracle EXCEPT ![a] = r] /\ verdicts' = [verdicts EXCEPT ![a] = V \cup {v}]
  BY DEF RecordResolution
<1> HIDE DEF v, V, r, inc
<1>6. /\ oracle'[a] = r /\ verdicts'[a] = V \cup {v}
      /\ \A c \in Accounts \ {a} : oracle'[c] = oracle[c] /\ verdicts'[c] = verdicts[c]
  BY <1>1, <1>5
<1>7. DirectoryTypes'
  BY <1>1, <1>2, <1>4, <1>5 DEF DirectoryInv, DirectoryTypes
<1>8. /\ IsFiniteSet(marketsOf(V)) /\ oracle[a].resolved = Cardinality(marketsOf(V))
      /\ IsFiniteSet(rightOf(V)) /\ oracle[a].accurate = Cardinality(rightOf(V))
      /\ oracle[a].accurate <= oracle[a].resolved
      /\ oracle[a].accurate \in Nat /\ oracle[a].resolved \in Nat
  BY <1>1 DEF DirectoryInv, TalliesCount, V, Tallies
<1>9. /\ marketsOf(V \cup {v}) = marketsOf(V) \cup {m} /\ m \notin marketsOf(V)
      /\ (yes => rightOf(V \cup {v}) = rightOf(V) \cup {v}) /\ (~yes => rightOf(V \cup {v}) = rightOf(V))
      /\ v \notin rightOf(V)
  <2>1. v \notin V
    BY <1>2, <1>3
  <2> QED
    BY <1>2, <1>3, <2>1 DEF marketsOf, rightOf
<1>10. /\ IsFiniteSet(marketsOf(V \cup {v})) /\ Cardinality(marketsOf(V \cup {v})) = oracle[a].resolved + 1
       /\ IsFiniteSet(rightOf(V \cup {v})) /\ Cardinality(rightOf(V \cup {v})) = oracle[a].accurate + inc
  <2>1. IsFiniteSet(marketsOf(V) \cup {m}) /\ Cardinality(marketsOf(V) \cup {m}) = oracle[a].resolved + 1
    BY <1>8, <1>9, FS_AddElement
  <2>2. IsFiniteSet(rightOf(V) \cup {v}) /\ Cardinality(rightOf(V) \cup {v}) = oracle[a].accurate + 1
    BY <1>8, <1>9, FS_AddElement
  <2>3. CASE yes
    BY <1>8, <1>9, <1>i, <2>1, <2>2, <2>3
  <2>4. CASE ~yes
    <3>1. rightOf(V \cup {v}) = rightOf(V) /\ marketsOf(V \cup {v}) = marketsOf(V) \cup {m} /\ inc = 0
      BY <1>9, <1>i, <2>4, Zenon
    <3>2. oracle[a].accurate + 0 = oracle[a].accurate
      BY <1>8
    <3> QED
      BY <1>8, <2>1, <3>1, <3>2, Zenon
  <2> QED
    BY <2>3, <2>4
<1>11. TalliesCount'
  <2>1. oracle[a].accurate + inc <= oracle[a].resolved + 1
    BY <1>8, <1>i
  <2>2. ASSUME NEW c \in Accounts
        PROVE  /\ IsFiniteSet(marketsOf(verdicts'[c])) /\ oracle'[c].resolved = Cardinality(marketsOf(verdicts'[c]))
               /\ IsFiniteSet(rightOf(verdicts'[c])) /\ oracle'[c].accurate = Cardinality(rightOf(verdicts'[c]))
               /\ oracle'[c].accurate <= oracle'[c].resolved
    <3>1. CASE c = a
      BY <1>4, <1>6, <1>10, <2>1, <3>1, Zenon
    <3>2. CASE c # a
      BY <1>6, <3>2, Zenon DEF DirectoryInv, TalliesCount
    <3> QED
      BY <3>1, <3>2
  <2> QED
    BY <2>2, Zenon DEF TalliesCount
<1> QED
  BY <1>1, <1>7, <1>11 DEF DirectoryInv, Enumerable, FeesAddUp

LEMMA RegisterMarketInv ==
    ASSUME DirectoryInv, NEW m \in ListedMarkets, NEW v \in Vaults, RegisterMarket(m, v)
    PROVE  DirectoryInv'
<1>1. /\ ids \in Seq(ListedMarkets) /\ listing \in [ListedMarkets -> ListingRecords] /\ v # Unset /\ listing[m].at = Unset
      /\ ids' = Append(ids, m) /\ UNCHANGED <<oracle, verdicts, vault, share_bps, earned, fees>>
      /\ listing' = [listing EXCEPT ![m] = [at |-> v, resolved |-> FALSE]]
  BY VaultsAreAddresses DEF DirectoryInv, DirectoryTypes, RegisterMarket
<1>2. listing' \in [ListedMarkets -> ListingRecords] /\ listing'[m].at = v /\ \A n \in ListedMarkets \ {m} : listing'[n] = listing[n]
  BY <1>1 DEF ListingRecords
<1>3. DirectoryTypes'
  BY <1>1, <1>2 DEF DirectoryInv, DirectoryTypes
<1>4. \A i \in DOMAIN ids : ids[i] # m
  BY <1>1 DEF DirectoryInv, Enumerable
<1>5. /\ DOMAIN ids' = DOMAIN ids \cup {Len(ids) + 1} /\ ids'[Len(ids) + 1] = m /\ Len(ids) + 1 \notin DOMAIN ids
      /\ \A i \in DOMAIN ids : ids'[i] = ids[i]
  BY <1>1
<1>6. Enumerable'
  <2>1. \A n \in ListedMarkets : (listing'[n].at # Unset) <=> \E i \in DOMAIN ids' : ids'[i] = n
    BY <1>1, <1>2, <1>5 DEF DirectoryInv, Enumerable
  <2>2. \A i, j \in DOMAIN ids' : ids'[i] = ids'[j] => i = j
    BY <1>4, <1>5 DEF DirectoryInv, Enumerable
  <2> QED
    BY <2>1, <2>2 DEF Enumerable
<1> QED
  BY <1>1, <1>3, <1>6 DEF DirectoryInv, TalliesCount, FeesAddUp

LEMMA SplitAndPayInv ==
    ASSUME DirectoryInv, NEW a \in Accounts, NEW x \in Amounts, SplitAndPay(a, x)
    PROVE  DirectoryInv'
<1> DEFINE s == (x * share_bps) \div BpsDenominator
<1>1. earned \in [Accounts -> Nat] /\ x \in Nat /\ share_bps \in Nat /\ fees \in [paid : Int, treasury : Int]
  BY AmountsArePositive DEF DirectoryInv, DirectoryTypes
<1>2. s \in Nat
  <2>1. x * share_bps \in Nat
    BY <1>1
  <2> QED
    BY <2>1 DEF BpsDenominator
<1>3. /\ earned' = [earned EXCEPT ![a] = @ + s] /\ UNCHANGED <<oracle, verdicts, listing, ids, vault, share_bps>>
      /\ fees' = [paid |-> fees.paid + x, treasury |-> fees.treasury + x - s]
  BY DEF SplitAndPay
<1> HIDE DEF s
<1>4. earned' \in [Accounts -> Nat] /\ earned'[a] = earned[a] + s /\ \A c \in Accounts : c # a => earned'[c] = earned[c]
  BY <1>1, <1>2, <1>3
<1>5. fees' \in [paid : Int, treasury : Int] /\ fees'.paid = fees.paid + x /\ fees'.treasury = fees.treasury + x - s
  BY <1>1, <1>2, <1>3
<1>6. SumFunction(earned') = SumFunction(earned) + (earned'[a] - earned[a])
  BY <1>1, <1>4, AccountsAreFinite, SumFunctionUpdate
<1>7. SumFunction(earned) \in Int
  BY <1>1, AccountsAreFinite, SumInt DEF SumFunction
<1>8. FeesAddUp'
  <2>1. fees.paid = fees.treasury + SumFunction(earned) /\ fees.paid \in Int /\ fees.treasury \in Int /\ earned[a] \in Int
    BY <1>1 DEF DirectoryInv, FeesAddUp
  <2>2. SumFunction(earned') = SumFunction(earned) + s
    BY <1>2, <1>4, <1>6, <1>7, <2>1
  <2> QED
    BY <1>1, <1>2, <1>5, <1>7, <2>1, <2>2 DEF FeesAddUp
<1> QED
  BY <1>3, <1>4, <1>5, <1>8 DEF DirectoryInv, DirectoryTypes, TalliesCount, Enumerable

\* Every step keeps the invariant.
LEMMA DirectoryNextInv == DirectoryInv /\ [RegistriesNext]_<<now, registriesVars>> => DirectoryInv'
<1> SUFFICES ASSUME DirectoryInv, [RegistriesNext]_<<now, registriesVars>> PROVE DirectoryInv'
  OBVIOUS
<1>1. CASE UNCHANGED <<now, registriesVars>>
  BY <1>1 DEF registriesVars, DirectoryInv, DirectoryTypes, TalliesCount, Enumerable, FeesAddUp
<1>2. CASE \E v \in Vaults : SetVault(v)
  BY <1>2 DEF SetVault, DirectoryInv, DirectoryTypes, TalliesCount, Enumerable, FeesAddUp
<1>3. CASE \E bps \in Shares : SetAgentShareBps(bps)
  BY <1>3, VaultsAreAddresses DEF SetAgentShareBps, DirectoryInv, DirectoryTypes, TalliesCount, Enumerable, FeesAddUp
<1>4. CASE \E m \in ListedMarkets : RegisterVaultMarket(m)
  BY <1>4, RegisterMarketInv DEF RegisterVaultMarket, DirectoryInv, DirectoryTypes
<1>5. ASSUME NEW m \in ListedMarkets, MarkResolved(m) PROVE DirectoryInv'
  <2>1. listing' \in [ListedMarkets -> ListingRecords]
    BY <1>5 DEF MarkResolved, DirectoryInv, DirectoryTypes, ListingRecords
  <2>2. \A n \in ListedMarkets : (listing'[n].at # Unset) <=> (listing[n].at # Unset)
    <3>1. listing[m].at # Unset
      BY <1>5 DEF MarkResolved
    <3>2. listing' = [listing EXCEPT ![m] = [listing[m] EXCEPT !.resolved = TRUE]]
      BY <1>5 DEF MarkResolved
    <3>3. [listing[m] EXCEPT !.resolved = TRUE].at = listing[m].at
      BY DEF DirectoryInv, DirectoryTypes, ListingRecords
    <3> QED
      BY <3>1, <3>2, <3>3, <2>1
  <2> QED
    BY <1>5, <2>1, <2>2 DEF MarkResolved, DirectoryInv, DirectoryTypes, TalliesCount, Enumerable, FeesAddUp
<1>6. CASE \E m \in ListedMarkets, v \in Vaults : RegisterMarket(m, v)
  BY <1>6, RegisterMarketInv
<1>7. ASSUME NEW a \in Accounts, RegisterOracle(a) PROVE DirectoryInv'
  <2> DEFINE r == [oracle[a] EXCEPT !.known = TRUE]
  <2>1. oracle \in [Accounts -> Tallies] /\ oracle[a] \in Tallies
    BY DEF DirectoryInv, DirectoryTypes
  <2>2. r \in Tallies /\ r.resolved = oracle[a].resolved /\ r.accurate = oracle[a].accurate
    BY <2>1 DEF Tallies
  <2>3. oracle' = [oracle EXCEPT ![a] = r] /\ UNCHANGED <<verdicts, listing, ids, vault, share_bps, earned, fees>>
    BY <1>7 DEF RegisterOracle
  <2> HIDE DEF r
  <2>4. oracle' \in [Accounts -> Tallies]
        /\ \A c \in Accounts : oracle'[c].resolved = oracle[c].resolved /\ oracle'[c].accurate = oracle[c].accurate
    BY <2>1, <2>2, <2>3
  <2> QED
    BY <2>3, <2>4 DEF DirectoryInv, DirectoryTypes, TalliesCount, Enumerable, FeesAddUp
<1>8. CASE \E a \in Accounts, m \in ListedMarkets, yes \in BOOLEAN : RecordResolution(a, m, yes)
  BY <1>8, RecordResolutionInv
<1>9. CASE \E a \in Accounts, x \in Amounts : SplitAndPay(a, x)
  BY <1>9, SplitAndPayInv, SMTT(40)
<1> QED
  BY <1>1, <1>2, <1>3, <1>4, <1>5, <1>6, <1>7, <1>8, <1>9 DEF RegistriesNext

\* Of no more than there are, the share in basis points is no more than all of them.
LEMMA SharesInBasisPoints ==
    ASSUME NEW x \in Nat, NEW n \in Nat, n > 0, x <= n
    PROVE  (x * 10000) \div n \in 0..10000
<1> DEFINE d == (x * 10000) \div n
<1>1. x * 10000 \in Nat /\ x * 10000 <= n * 10000
  OBVIOUS
<1>2. d \in Int /\ n * d <= x * 10000 /\ x * 10000 < n * d + n
  BY <1>1
<1> HIDE DEF d
<1>3. d >= 0
  <2> SUFFICES ASSUME d <= -1 PROVE FALSE
    BY <1>2
  <2>1. n * d <= n * (-1)
    BY <1>2, SMTT(30)
  <2> QED
    BY <1>1, <1>2, <2>1
<1>4. d <= 10000
  <2> SUFFICES ASSUME d >= 10001 PROVE FALSE
    BY <1>2
  <2>1. n * d >= n * 10001
    BY <1>2, SMTT(30)
  <2> QED
    BY <1>1, <1>2, <2>1
<1> QED
  BY <1>2, <1>3, <1>4 DEF d

LEMMA AccuracyIsAShare ==
    ASSUME NEW o, o.resolved \in Nat, o.accurate \in Nat, o.accurate <= o.resolved
    PROVE  accuracy_bps(o) \in 0..BpsDenominator
<1> DEFINE x == o.accurate
           n == o.resolved
<1>1. accuracy_bps(o) = IF n = 0 THEN 0 ELSE (x * BpsDenominator) \div n
  BY DEF accuracy_bps
<1>2. x \in Nat /\ n \in Nat /\ x <= n
  BY SMTT(40)
<1> HIDE DEF x, n
<1>3. (IF n = 0 THEN 0 ELSE (x * BpsDenominator) \div n) \in 0..BpsDenominator
  <2>1. CASE n > 0
    BY <1>2, <2>1, SharesInBasisPoints DEF BpsDenominator
  <2>2. CASE n = 0
    BY <2>2 DEF BpsDenominator
  <2> QED
    BY <1>2, <2>1, <2>2, SMTT(40)
<1> QED
  BY <1>1, <1>3, Zenon

LEMMA DirectoryInvExact == ASSUME DirectoryInv PROVE DirectoriesAreExact
<1>1. ASSUME NEW a \in Accounts
      PROVE  /\ oracle[a].resolved = Cardinality({v.market : v \in verdicts[a]})
             /\ oracle[a].accurate = Cardinality({v \in verdicts[a] : v.accurate})
             /\ accuracy_bps(oracle[a]) \in 0..BpsDenominator
  <2>1. oracle[a].resolved \in Nat /\ oracle[a].accurate \in Nat /\ oracle[a].accurate <= oracle[a].resolved
    BY DEF DirectoryInv, DirectoryTypes, TalliesCount, Tallies
  <2>2. accuracy_bps(oracle[a]) \in 0..BpsDenominator
    BY <2>1, AccuracyIsAShare, Zenon
  <2> QED
    BY <2>2, Zenon DEF DirectoryInv, TalliesCount, marketsOf, rightOf
<1>2. Enumerable /\ FeesAddUp
  BY DEF DirectoryInv
<1> QED
  BY <1>1, <1>2, Zenon DEF Enumerable, FeesAddUp, DirectoriesAreExact

\* For any oracles, markets and copied fees: tallies count what was recorded, once per market,
\* the enumeration is the directory, and no mote of a copy fee is lost or made.
THEOREM DirectoriesStayExact == RegistriesSpec => []DirectoriesAreExact
<1>1. DirectoryInv => DirectoriesAreExact
  BY DirectoryInvExact
<1> QED
  BY <1>1, DirectoryInitInv, DirectoryNextInv, PTL DEF RegistriesSpec
-----------------------------------------------------------------------------
(***************************************************************************)
(* SINGLE MARKET                                                           *)
(***************************************************************************)

\* What the account holds on the key is worth, were the market to resolve to it now.
LosingIf(k) == total_pool - Pool(k)
Worth(a, k) ==
    LET d == LosingIf(k) - FeeOn(LosingIf(k))
    IN  IF d = 0 THEN stake_on[a][k] ELSE stake_on[a][k] + (stake_on[a][k] * d) \div Pool(k)

MarketTypes ==
    /\ stake_on \in [Accounts -> [Keys -> Nat]]
    /\ phase \in {"open", "resolved", "voided"}
    /\ claimed \subseteq Accounts
    /\ pot \in Int
    /\ cashed \in [Accounts -> Nat]

\* The winner and the snapshot are those of the pools, and stay so: no stake moves once the
\* market has closed.
SettlementFits ==
    /\ phase = "open" => claimed = {}
    /\ phase # "resolved" => winner = Unset
    /\ phase = "resolved" =>
          /\ winner \in Keys /\ Pool(winner) > 0
          /\ snapshot.winning = Pool(winner)
          /\ snapshot.distributable = LosingIf(winner) - FeeOn(LosingIf(winner))

\* What the market has paid out, and what it still holds, is what it took in, less the fee.
MoneyAddsUp ==
    pot + SumFunction(cashed) = total_pool - (IF phase = "resolved" THEN FeeOn(LosingIf(winner)) ELSE 0)

ClaimsRecorded == \A a \in Accounts : cashed[a] = IF a \in claimed THEN ClaimOf(a) ELSE 0

\* The payout previewed to the last bettor is what its stake is worth, if it was its first there.
QuoteHolds ==
    (quote # NoQuote /\ quote.fresh) =>
        /\ quote.key \in Keys /\ quote.of \in Accounts
        /\ quote.motes = Worth(quote.of, quote.key)

MarketInv == MarketTypes /\ SettlementFits /\ MoneyAddsUp /\ ClaimsRecorded /\ QuoteHolds
-----------------------------------------------------------------------------
(***************************************************************************)
(* Pools and shares                                                        *)
(***************************************************************************)

\* The pools are natural numbers, none exceeds their total, and the total is also the
\* sum of what each bettor staked.
LEMMA PoolsAreNat ==
    ASSUME MarketTypes
    PROVE  /\ \A k \in Keys : Pool(k) \in Nat /\ Pool(k) <= total_pool
           /\ \A a \in Accounts : bettor_total(a) \in Nat
           /\ total_pool \in Nat
           /\ total_pool = SumFunctionOnSet([a \in Accounts |-> bettor_total(a)], Accounts)
<1>1. /\ \A a \in Accounts : DOMAIN stake_on[a] = Keys /\ \A k \in Keys : stake_on[a][k] \in Nat /\ stake_on[a][k] \in Int
      /\ IsFiniteSet(Keys) /\ IsFiniteSet(Accounts)
  BY KeysAreFinite, AccountsAreFinite DEF MarketTypes
<1>2. \A k \in Keys : Pool(k) = SumFunctionOnSet([a \in Accounts |-> stake_on[a][k]], Accounts)
  BY DEF Pool, SumFunction
<1>3. \A k \in Keys : Pool(k) \in Nat
  <2> SUFFICES ASSUME NEW k \in Keys PROVE Pool(k) \in Nat
    OBVIOUS
  <2> DEFINE side == [a \in Accounts |-> stake_on[a][k]]
  <2>1. \A a \in Accounts : side[a] \in Nat
    BY <1>1
  <2> HIDE DEF side
  <2>2. SumFunctionOnSet(side, Accounts) \in Nat
    BY <1>1, <2>1, SumNat
  <2> QED
    BY <1>2, <2>2 DEF side
<1>4. \A a \in Accounts : bettor_total(a) = SumFunctionOnSet(stake_on[a], Keys) /\ bettor_total(a) \in Nat
  BY <1>1, SumNat DEF bettor_total, SumFunction
<1> DEFINE pools == [k \in Keys |-> Pool(k)]
<1>5. \A k \in Keys : pools[k] = Pool(k) /\ pools[k] \in Nat
  BY <1>3
<1>6. total_pool = SumFunctionOnSet(pools, Keys)
  BY DEF total_pool, SumFunction
<1>7. pools = [k \in Keys |-> SumFunctionOnSet([a \in Accounts |-> stake_on[a][k]], Accounts)]
  BY <1>2
<1>8. [a \in Accounts |-> bettor_total(a)] = [a \in Accounts |-> SumFunctionOnSet(stake_on[a], Keys)]
  BY <1>4
<1> HIDE DEF pools
<1>9. total_pool \in Nat /\ \A k \in Keys : Pool(k) <= total_pool
  BY <1>1, <1>5, <1>6, SumNat, SumAtLeastTerm
<1>10. SumFunctionOnSet([a \in Accounts |-> SumFunctionOnSet(stake_on[a], Keys)], Accounts)
         = SumFunctionOnSet([k \in Keys |-> SumFunctionOnSet([a \in Accounts |-> stake_on[a][k]], Accounts)], Keys)
  <2>1. \A a \in Accounts, k \in Keys : stake_on[a][k] \in Int
    BY <1>1
  <2>2. IsFiniteSet(Keys) /\ IsFiniteSet(Accounts)
    BY <1>1
  <2> QED
    BY <2>1, <2>2, SumExchange
<1>11. total_pool = SumFunctionOnSet([a \in Accounts |-> bettor_total(a)], Accounts)
  BY <1>6, <1>7, <1>8, <1>10, Zenon
<1> QED
  BY <1>3, <1>4, <1>9, <1>11

\* The fee is part of what it is taken from.
LEMMA FeeIsPart ==
    ASSUME NEW n \in Nat
    PROVE  FeeOn(n) \in Nat /\ FeeOn(n) <= n
<1>1. FeeBps \in Nat /\ FeeBps < 10000
  BY FeeIsAFraction DEF BpsDenominator
<1>2. n * FeeBps <= n * 10000 /\ n * FeeBps \in Nat
  BY <1>1
<1>3. ASSUME NEW v \in Nat, v <= n * 10000 PROVE v \div 10000 \in Nat /\ v \div 10000 <= n
  BY <1>3
<1> QED
  BY <1>2, <1>3 DEF FeeOn, BpsDenominator

LEMMA WorthIs ==
    ASSUME MarketTypes, NEW k \in Keys, Pool(k) > 0
    PROVE  /\ LosingIf(k) \in Nat /\ FeeOn(LosingIf(k)) \in Nat
           /\ LosingIf(k) - FeeOn(LosingIf(k)) \in Nat
           /\ \A a \in Accounts :
                 /\ Worth(a, k) \in Nat
                 /\ Worth(a, k) = stake_on[a][k] + (stake_on[a][k] * (LosingIf(k) - FeeOn(LosingIf(k)))) \div Pool(k)
<1>1. Pool(k) \in Nat /\ LosingIf(k) \in Nat
  BY PoolsAreNat DEF LosingIf
<1>2. FeeOn(LosingIf(k)) \in Nat /\ LosingIf(k) - FeeOn(LosingIf(k)) \in Nat
  BY <1>1, FeeIsPart
<1> DEFINE d == LosingIf(k) - FeeOn(LosingIf(k))
<1>3. \A a \in Accounts : Worth(a, k) = IF d = 0 THEN stake_on[a][k] ELSE stake_on[a][k] + (stake_on[a][k] * d) \div Pool(k)
  BY DEF Worth
<1>4. d \in Nat
  BY <1>2
<1>5. \A a \in Accounts : stake_on[a][k] \in Nat
  BY DEF MarketTypes
<1> HIDE DEF d
<1>6. ASSUME NEW s \in Nat PROVE s * d \in Nat /\ (d = 0 => (s * d) \div Pool(k) = 0) /\ (s * d) \div Pool(k) \in Nat
  <2>1. s * d \in Nat /\ (d = 0 => s * d = 0)
    BY <1>4
  <2>2. \A v \in Nat : v \div Pool(k) \in Nat /\ (v = 0 => v \div Pool(k) = 0)
    BY <1>1
  <2> QED
    BY <2>1, <2>2
<1>7. \A a \in Accounts : /\ Worth(a, k) \in Nat
                          /\ Worth(a, k) = stake_on[a][k] + (stake_on[a][k] * d) \div Pool(k)
  BY <1>3, <1>5, <1>6
<1> QED
  BY <1>1, <1>2, <1>7 DEF d

\* What claim pays is what the stake was worth when the market resolved, or all of it.
LEMMA ClaimIs ==
    ASSUME MarketTypes, SettlementFits, phase # "open"
    PROVE  \A a \in Accounts :
              /\ ClaimOf(a) = IF phase = "voided" THEN bettor_total(a) ELSE Worth(a, winner)
              /\ ClaimOf(a) \in Nat
<1>1. CASE phase = "voided"
  BY <1>1, PoolsAreNat DEF ClaimOf
<1>2. CASE phase = "resolved"
  <2>1. /\ winner \in Keys /\ Pool(winner) > 0
        /\ snapshot.winning = Pool(winner)
        /\ snapshot.distributable = LosingIf(winner) - FeeOn(LosingIf(winner))
    BY <1>2 DEF SettlementFits
  <2>2. \A a \in Accounts : ClaimOf(a) = Worth(a, winner)
    BY <1>2, <2>1, Zenon DEF ClaimOf, Worth
  <2> QED
    BY <1>2, <2>1, <2>2, WorthIs
<1> QED
  BY <1>1, <1>2 DEF MarketTypes

-----------------------------------------------------------------------------
(***************************************************************************)
(* The market's invariant, step by step                                    *)
(***************************************************************************)

LEMMA MarketInitInv == ASSUME NEW K, MarketInit(K) PROVE MarketInv
<1>1. /\ stake_on = [a \in Accounts |-> [k \in Keys |-> 0]] /\ cashed = [a \in Accounts |-> 0]
      /\ phase = "open" /\ winner = Unset /\ claimed = {} /\ pot = 0 /\ quote = NoQuote
  BY DEF MarketInit
<1>2. /\ \A a \in Accounts : cashed[a] = 0
      /\ \A a \in Accounts, k \in Keys : stake_on[a][k] = 0
      /\ DOMAIN cashed = Accounts
  BY <1>1
<1>3. MarketTypes
  <2>1. [k \in Keys |-> 0] \in [Keys -> Nat] /\ [a \in Accounts |-> 0] \in [Accounts -> Nat]
    OBVIOUS
  <2>2. stake_on \in [Accounts -> [Keys -> Nat]]
    BY <1>1, <2>1
  <2> QED
    BY <1>1, <2>1, <2>2 DEF MarketTypes
<1>4. \A k \in Keys : Pool(k) = 0
  <2> SUFFICES ASSUME NEW k \in Keys PROVE Pool(k) = 0
    OBVIOUS
  <2> DEFINE side == [a \in Accounts |-> stake_on[a][k]]
  <2>1. DOMAIN side = Accounts /\ \A a \in Accounts : side[a] = 0
    BY <1>2
  <2>2. Pool(k) = SumFunction(side)
    BY DEF Pool
  <2> HIDE DEF side
  <2> QED
    BY <2>1, <2>2, AccountsAreFinite, SumFunctionZero
<1>5. total_pool = 0
  <2> DEFINE pools == [k \in Keys |-> Pool(k)]
  <2>1. DOMAIN pools = Keys /\ (\A k \in Keys : pools[k] = 0) /\ IsFiniteSet(Keys)
    BY <1>4, KeysAreFinite
  <2>2. total_pool = SumFunction(pools)
    BY DEF total_pool
  <2> HIDE DEF pools
  <2> QED
    BY <2>1, <2>2, SumFunctionZero
<1>6. SumFunction(cashed) = 0
  BY <1>2, AccountsAreFinite, SumFunctionZero
<1>7. SettlementFits
  BY <1>1 DEF SettlementFits
<1>8. MoneyAddsUp
  BY <1>1, <1>5, <1>6 DEF MoneyAddsUp
<1>9. ClaimsRecorded
  BY <1>1, <1>2 DEF ClaimsRecorded
<1>10. QuoteHolds
  BY <1>1, Zenon DEF QuoteHolds
<1> QED
  BY <1>3, <1>7, <1>8, <1>9, <1>10 DEF MarketInv

\* Pools, totals and shares are functions of the stakes.
LEMMA PoolsKept ==
    ASSUME stake_on' = stake_on
    PROVE  /\ total_pool' = total_pool
           /\ \A k : Pool(k)' = Pool(k) /\ LosingIf(k)' = LosingIf(k)
           /\ \A a : bettor_total(a)' = bettor_total(a)
           /\ \A a, k : Worth(a, k)' = Worth(a, k)
  BY Zenon DEF total_pool, Pool, LosingIf, bettor_total, Worth

LEMMA MarketKept ==
    ASSUME MarketInv, UNCHANGED <<phase, stake_on, winner, snapshot, claimed, pot, cashed, quote>>
    PROVE  MarketInv'
<1>1. UNCHANGED phase /\ UNCHANGED stake_on /\ UNCHANGED winner /\ UNCHANGED snapshot /\ UNCHANGED claimed
      /\ UNCHANGED pot /\ UNCHANGED cashed /\ UNCHANGED quote
  OBVIOUS
<1>2. \A a \in Accounts : ClaimOf(a)' = ClaimOf(a)
  BY <1>1, PoolsKept, Zenon DEF ClaimOf
<1>3. MarketTypes'
  BY <1>1 DEF MarketInv, MarketTypes
<1>4. SettlementFits'
  BY <1>1, PoolsKept, Zenon DEF MarketInv, SettlementFits
<1>5. MoneyAddsUp'
  BY <1>1, PoolsKept, Zenon DEF MarketInv, MoneyAddsUp
<1>6. ClaimsRecorded'
  BY <1>1, <1>2, Zenon DEF MarketInv, ClaimsRecorded
<1>7. QuoteHolds'
  BY <1>1, PoolsKept, Zenon DEF MarketInv, QuoteHolds
<1> QED
  BY <1>3, <1>4, <1>5, <1>6, <1>7 DEF MarketInv

LEMMA MarketBetInv ==
    ASSUME MarketInv, NEW a \in Accounts, NEW k \in Keys, NEW x \in Amounts, Bet(a, k, x)
    PROVE  MarketInv'
<1>1. /\ phase = "open" /\ pot' = pot + x
      /\ stake_on' = [stake_on EXCEPT ![a] = [stake_on[a] EXCEPT ![k] = @ + x]]
      /\ UNCHANGED phase /\ UNCHANGED winner /\ UNCHANGED claimed /\ UNCHANGED cashed
  BY DEF Bet
<1>2. x \in Nat /\ stake_on \in [Accounts -> [Keys -> Nat]] /\ stake_on[a] \in [Keys -> Nat] /\ MarketTypes
  BY AmountsArePositive DEF MarketInv, MarketTypes
<1>3. [stake_on[a] EXCEPT ![k] = @ + x] \in [Keys -> Nat]
  BY <1>2
<1>4. MarketTypes'
  BY <1>1, <1>2, <1>3 DEF MarketTypes
<1>5. /\ \A b \in Accounts, j \in Keys : (b # a \/ j # k) => stake_on'[b][j] = stake_on[b][j]
      /\ stake_on'[a][k] = stake_on[a][k] + x
      /\ \A b \in Accounts, j \in Keys : stake_on[b][j] \in Int /\ stake_on'[b][j] \in Int
  BY <1>1, <1>2, <1>4 DEF MarketTypes
<1>6. \A j \in Keys : Pool(j)' = Pool(j) + (IF j = k THEN x ELSE 0)
  <2> SUFFICES ASSUME NEW j \in Keys PROVE Pool(j)' = Pool(j) + (IF j = k THEN x ELSE 0)
    OBVIOUS
  <2> DEFINE before == [b \in Accounts |-> stake_on[b][j]]
             after == [b \in Accounts |-> stake_on'[b][j]]
  <2>1. /\ DOMAIN before = Accounts /\ DOMAIN after = Accounts
        /\ \A b \in Accounts : before[b] \in Int /\ after[b] \in Int /\ (b # a => after[b] = before[b])
        /\ after[a] - before[a] = IF j = k THEN x ELSE 0
    BY <1>2, <1>5
  <2>2. Pool(j) = SumFunction(before) /\ Pool(j)' = SumFunction(after)
    BY DEF Pool
  <2> HIDE DEF before, after
  <2> QED
    BY <2>1, <2>2, AccountsAreFinite, SumFunctionUpdate
<1>7. total_pool' = total_pool + x
  <2> DEFINE before == [j \in Keys |-> Pool(j)]
             after == [j \in Keys |-> Pool(j)']
  <2>0. \A j \in Keys : Pool(j) \in Int
    BY <1>2, PoolsAreNat
  <2>1. /\ DOMAIN before = Keys /\ DOMAIN after = Keys /\ IsFiniteSet(Keys)
        /\ \A j \in Keys : before[j] \in Int /\ after[j] \in Int /\ (j # k => after[j] = before[j])
        /\ after[k] - before[k] = x
    BY <1>2, <1>6, <2>0, KeysAreFinite
  <2>2. total_pool = SumFunction(before) /\ total_pool' = SumFunction(after)
    BY DEF total_pool
  <2> HIDE DEF before, after
  <2> QED
    BY <2>1, <2>2, SumFunctionUpdate
<1>8. SettlementFits'
  BY <1>1 DEF MarketInv, SettlementFits
<1>9. MoneyAddsUp'
  <2>1. pot + SumFunction(cashed) = total_pool
    BY <1>1, <1>2, PoolsAreNat DEF MarketInv, MoneyAddsUp
  <2>2. SumFunction(cashed') = SumFunction(cashed) /\ SumFunction(cashed) \in Int /\ total_pool \in Int /\ pot \in Int
    <3>1. cashed \in [Accounts -> Nat]
      BY <1>2 DEF MarketTypes
    <3>2. DOMAIN cashed = Accounts /\ \A b \in Accounts : cashed[b] \in Int
      BY <3>1
    <3>3. SumFunction(cashed) \in Int
      BY <3>2, AccountsAreFinite, SumInt DEF SumFunction
    <3> QED
      BY <1>1, <1>2, <3>3, PoolsAreNat DEF MarketTypes
  <2>3. phase' # "resolved"
    BY <1>1
  <2> QED
    BY <1>1, <1>2, <1>7, <2>1, <2>2, <2>3 DEF MoneyAddsUp
<1>10. ClaimsRecorded'
  <2>1. claimed = {} /\ claimed' = {}
    BY <1>1 DEF MarketInv, SettlementFits
  <2> QED
    BY <1>1, <2>1 DEF MarketInv, ClaimsRecorded
<1>11. QuoteHolds'
  <2>1. quote' = [of |-> a, key |-> k, fresh |-> stake_on[a][k] = 0, motes |-> previewPayoutMotes(k, x)]
    BY DEF Bet
  <2>2. quote'.of = a /\ quote'.key = k /\ quote'.motes = previewPayoutMotes(k, x) /\ (quote'.fresh <=> stake_on[a][k] = 0)
    BY <2>1, Zenon
  <2>3. ASSUME stake_on[a][k] = 0 PROVE previewPayoutMotes(k, x) = Worth(a, k)'
    <3>1. Pool(k)' = Pool(k) + x
      BY <1>6
    <3>2. stake_on'[a][k] = x
      BY <1>2, <1>5, <2>3
    <3>3. LosingIf(k)' = total_pool + x - (Pool(k) + x)
      <4>1. LosingIf(k)' = total_pool' - Pool(k)'
        BY DEF LosingIf
      <4>2. total_pool \in Int /\ Pool(k) \in Int /\ x \in Int
        BY <1>2, PoolsAreNat
      <4> QED
        BY <1>7, <3>1, <4>1, <4>2
    <3> QED
      BY <3>1, <3>2, <3>3, Zenon DEF previewPayoutMotes, Worth, FeeOn
  <2> QED
    BY <2>2, <2>3, Zenon DEF QuoteHolds
<1> QED
  BY <1>4, <1>8, <1>9, <1>10, <1>11 DEF MarketInv

\* A market that closes keeps its quote, and has nothing to record yet.
LEMMA ClosingKeeps ==
    ASSUME MarketInv, phase = "open", UNCHANGED <<stake_on, claimed, cashed, quote>>
    PROVE  QuoteHolds' /\ ClaimsRecorded'
<1>1. claimed = {} /\ UNCHANGED stake_on /\ UNCHANGED claimed /\ UNCHANGED cashed /\ UNCHANGED quote
  BY DEF MarketInv, SettlementFits
<1>2. QuoteHolds'
  BY <1>1, PoolsKept, Zenon DEF MarketInv, QuoteHolds
<1>3. ClaimsRecorded'
  BY <1>1 DEF MarketInv, ClaimsRecorded
<1> QED
  BY <1>2, <1>3

LEMMA VoidedInv ==
    ASSUME MarketInv, phase = "open", phase' = "voided",
           UNCHANGED <<stake_on, winner, snapshot, claimed, pot, cashed, quote>>
    PROVE  MarketInv'
<1>1. UNCHANGED stake_on /\ UNCHANGED winner /\ UNCHANGED pot /\ UNCHANGED cashed /\ UNCHANGED claimed
  OBVIOUS
<1>2. MarketTypes' /\ SettlementFits'
  BY <1>1 DEF MarketInv, MarketTypes, SettlementFits
<1>3. MoneyAddsUp'
  BY <1>1, PoolsKept DEF MarketInv, MoneyAddsUp
<1> QED
  BY <1>2, <1>3, ClosingKeeps DEF MarketInv

LEMMA ResolveInv ==
    ASSUME MarketInv, NEW k \in Keys, Resolve(k)
    PROVE  MarketInv'
<1>1. phase = "open" /\ UNCHANGED stake_on /\ UNCHANGED claimed /\ UNCHANGED cashed /\ UNCHANGED quote
  BY DEF Resolve
<1>2. CASE Pool(k) = 0
  <2>1. phase' = "voided" /\ UNCHANGED <<winner, snapshot, pot>>
    BY <1>2, Zenon DEF Resolve
  <2> QED
    BY <1>1, <2>1, VoidedInv
<1>3. CASE Pool(k) # 0
  <2>1. /\ phase' = "resolved" /\ winner' = k
        /\ snapshot' = [winning |-> Pool(k), distributable |-> LosingIf(k) - FeeOn(LosingIf(k))]
        /\ pot' = pot - FeeOn(LosingIf(k))
    BY <1>3, Zenon DEF Resolve, LosingIf, Distributable
  <2>2. MarketTypes /\ Pool(k) \in Nat /\ Pool(k) > 0
    BY <1>3, PoolsAreNat DEF MarketInv
  <2>3. FeeOn(LosingIf(k)) \in Nat
    BY <2>2, WorthIs
  <2>4. MarketTypes'
    BY <1>1, <2>1, <2>2, <2>3 DEF MarketTypes
  <2>5. /\ Pool(k)' = Pool(k) /\ LosingIf(k)' = LosingIf(k) /\ total_pool' = total_pool
        /\ FeeOn(LosingIf(k))' = FeeOn(LosingIf(k))
    BY <1>1, PoolsKept, Zenon DEF FeeOn
  <2>6. /\ Pool(winner)' = Pool(k) /\ LosingIf(winner)' = LosingIf(k)
        /\ FeeOn(LosingIf(winner))' = FeeOn(LosingIf(k))
    BY <2>1, <2>5, Zenon DEF Pool, LosingIf, FeeOn
  <2>7. snapshot'.winning = Pool(k) /\ snapshot'.distributable = LosingIf(k) - FeeOn(LosingIf(k))
    BY <2>1
  <2>8. SettlementFits'
    BY <1>1, <2>1, <2>2, <2>6, <2>7 DEF MarketInv, SettlementFits
  <2>9. MoneyAddsUp'
    <3> DEFINE paid == SumFunction(cashed)
    <3>1. pot + paid = total_pool /\ pot \in Int /\ total_pool \in Int
      BY <1>1, <2>2, PoolsAreNat DEF MarketInv, MoneyAddsUp, MarketTypes
    <3>2. SumFunction(cashed)' = paid
      BY <1>1
    <3>3. paid \in Int
      <4>1. cashed \in [Accounts -> Nat]
        BY <2>2 DEF MarketTypes
      <4>2. DOMAIN cashed = Accounts /\ \A b \in Accounts : cashed[b] \in Int
        BY <4>1
      <4> QED
        BY <4>2, AccountsAreFinite, SumInt DEF SumFunction
    <3> HIDE DEF paid
    <3>4. pot' + paid = total_pool' - FeeOn(LosingIf(winner))'
      BY <2>1, <2>3, <2>5, <2>6, <3>1, <3>3
    <3> QED
      BY <2>1, <3>2, <3>4 DEF MoneyAddsUp
  <2> QED
    BY <1>1, <2>4, <2>8, <2>9, ClosingKeeps DEF MarketInv
<1> QED
  BY <1>2, <1>3

LEMMA ClaimInv ==
    ASSUME MarketInv, NEW a \in Accounts, Claim(a)
    PROVE  MarketInv'
<1>1. /\ phase # "open" /\ a \notin claimed /\ claimed' = claimed \cup {a}
      /\ pot' = pot - ClaimOf(a) /\ cashed' = [cashed EXCEPT ![a] = ClaimOf(a)]
      /\ UNCHANGED phase /\ UNCHANGED stake_on /\ UNCHANGED winner /\ UNCHANGED snapshot /\ UNCHANGED quote
  BY DEF Claim
<1>2. MarketTypes /\ SettlementFits /\ \A b \in Accounts : ClaimOf(b) \in Nat
  BY <1>1, ClaimIs DEF MarketInv
<1>3. \A b \in Accounts : ClaimOf(b)' = ClaimOf(b)
  BY <1>1, PoolsKept, Zenon DEF ClaimOf
<1>4. MarketTypes'
  BY <1>1, <1>2 DEF MarketTypes
<1>5. SettlementFits'
  BY <1>1, PoolsKept, Zenon DEF MarketInv, SettlementFits
<1>6. cashed[a] = 0 /\ cashed \in [Accounts -> Nat] /\ cashed' \in [Accounts -> Nat]
  BY <1>1, <1>2, <1>4 DEF MarketInv, ClaimsRecorded, MarketTypes
<1>7. MoneyAddsUp'
  <2> DEFINE paid == SumFunction(cashed)
             fee == IF phase = "resolved" THEN FeeOn(LosingIf(winner)) ELSE 0
  <2>1. DOMAIN cashed = Accounts /\ DOMAIN cashed' = Accounts
        /\ \A b \in Accounts : cashed[b] \in Int /\ cashed'[b] \in Int /\ (b # a => cashed'[b] = cashed[b])
    BY <1>1, <1>6
  <2>2. SumFunction(cashed') = paid + (cashed'[a] - cashed[a])
    BY <2>1, AccountsAreFinite, SumFunctionUpdate
  <2>3. cashed'[a] = ClaimOf(a)
    BY <1>1, <1>6
  <2>4. paid \in Int
    BY <2>1, AccountsAreFinite, SumInt DEF SumFunction
  <2>5. pot + paid = total_pool - fee
    BY Zenon DEF MarketInv, MoneyAddsUp
  <2>6. total_pool' - (IF phase' = "resolved" THEN FeeOn(LosingIf(winner))' ELSE 0) = total_pool - fee
    <3>1. total_pool' = total_pool /\ FeeOn(LosingIf(winner))' = FeeOn(LosingIf(winner))
      BY <1>1, PoolsKept, Zenon DEF FeeOn, LosingIf, Pool
    <3> QED
      BY <1>1, <3>1, Zenon
  <2> HIDE DEF paid, fee
  <2>7. pot' + SumFunction(cashed') = total_pool - fee
    <3>1. pot \in Int /\ ClaimOf(a) \in Int
      BY <1>2 DEF MarketTypes
    <3> QED
      BY <1>1, <1>6, <2>2, <2>3, <2>4, <2>5, <3>1
  <2> QED
    BY <2>6, <2>7, Zenon DEF MoneyAddsUp
<1>8. ClaimsRecorded'
  BY <1>1, <1>3, <1>6 DEF MarketInv, ClaimsRecorded
<1>9. QuoteHolds'
  BY <1>1, PoolsKept, Zenon DEF MarketInv, QuoteHolds
<1> QED
  BY <1>4, <1>5, <1>7, <1>8, <1>9 DEF MarketInv

LEMMA MarketNextInv == MarketInv /\ [MarketNext]_<<now, marketVars>> => MarketInv'
<1> SUFFICES ASSUME MarketInv, [MarketNext]_<<now, marketVars>> PROVE MarketInv'
  OBVIOUS
<1>1. CASE (Tick /\ UNCHANGED marketVars) \/ UNCHANGED <<now, marketVars>>
  <2>1. UNCHANGED <<phase, stake_on, winner, snapshot, claimed, pot, cashed, quote>>
    BY <1>1 DEF marketVars
  <2> QED
    BY <2>1, MarketKept
<1>2. CASE Void
  BY <1>2, VoidedInv DEF Void, MarketInv
<1>3. CASE \E k \in Keys : Resolve(k)
  BY <1>3, ResolveInv
<1>4. CASE \E a \in Accounts : Claim(a)
  BY <1>4, ClaimInv
<1>5. CASE \E a \in Accounts, k \in Keys, x \in Amounts : Bet(a, k, x)
  BY <1>5, MarketBetInv
<1> QED
  BY <1>1, <1>2, <1>3, <1>4, <1>5 DEF MarketNext

LEMMA MarketInvariance == MarketSpec => []MarketInv
<1>1. MarketInit(Keys) => MarketInv
  BY MarketInitInv
<1> QED
  BY <1>1, MarketNextInv, PTL DEF MarketSpec

\* A field market's steps are the market's own, or leave its money alone.
LEMMA FieldKeepsMarketInv == MarketInv /\ [FieldNext]_<<now, fieldVars>> => MarketInv'
<1> SUFFICES ASSUME MarketInv, [FieldNext]_<<now, fieldVars>> PROVE MarketInv'
  OBVIOUS
<1>1. CASE \/ Tick /\ UNCHANGED fieldVars
           \/ UNCHANGED <<now, fieldVars>>
           \/ FreezeField
           \/ \E K \in SUBSET Keys : RegisterCandidates(K)
           \/ \E h \in Hashes : CommitRecipe(h) \/ CommitBundle(h)
  <2>1. UNCHANGED <<phase, stake_on, winner, snapshot, claimed, pot, cashed, quote>>
    BY <1>1 DEF fieldVars, marketVars, FreezeField, RegisterCandidates, CommitRecipe, CommitBundle
  <2> QED
    BY <2>1, MarketKept
<1>2. CASE FieldVoid
  BY <1>2, VoidedInv DEF FieldVoid, Void, MarketInv
<1>3. CASE \E k \in Keys : FieldResolve(k)
  BY <1>3, ResolveInv DEF FieldResolve
<1>4. CASE \E a \in Accounts : FieldClaim(a)
  BY <1>4, ClaimInv DEF FieldClaim
<1>5. CASE \E a \in Accounts, k \in Keys, x \in Amounts : FieldBet(a, k, x)
  BY <1>5, MarketBetInv DEF FieldBet
<1> QED
  BY <1>1, <1>2, <1>3, <1>4, <1>5 DEF FieldNext

LEMMA FieldMarketInvariance == FieldSpec => []MarketInv
<1>1. FieldInit => MarketInv
  BY MarketInitInv DEF FieldInit
<1> QED
  BY <1>1, FieldKeepsMarketInv, PTL DEF FieldSpec

-----------------------------------------------------------------------------
(***************************************************************************)
(* What is due, and what is left                                           *)
(***************************************************************************)

\* What claim owes all bettors together.
Claims == [a \in Accounts |-> ClaimOf(a)]

\* What is still due and what was paid are what the claims come to.
LEMMA DueIsUnpaid ==
    ASSUME MarketInv, phase # "open"
    PROVE  /\ SumFunction(Due) \in Nat /\ SumFunction(Claims) \in Nat
           /\ pot - SumFunction(Due)
                = total_pool - (IF phase = "resolved" THEN FeeOn(LosingIf(winner)) ELSE 0) - SumFunction(Claims)
<1>1. \A a \in Accounts : ClaimOf(a) \in Nat
  BY ClaimIs DEF MarketInv
<1>2. /\ \A a \in Accounts : Due[a] \in Nat /\ cashed[a] \in Nat /\ Claims[a] \in Nat
                              /\ Claims[a] = Due[a] + cashed[a]
      /\ DOMAIN Due = Accounts /\ DOMAIN cashed = Accounts /\ DOMAIN Claims = Accounts
  BY <1>1 DEF MarketInv, MarketTypes, ClaimsRecorded, Due, Claims
<1>3. SumFunction(Due) \in Nat /\ SumFunction(cashed) \in Nat /\ SumFunction(Claims) \in Nat
  BY <1>2, AccountsAreFinite, SumNat DEF SumFunction
<1>4. SumFunction(Claims) = SumFunction(Due) + SumFunction(cashed)
  <2>1. \A a \in Accounts : Due[a] \in Int /\ cashed[a] \in Int /\ Claims[a] = Due[a] + cashed[a]
    BY <1>2
  <2>2. SumFunctionOnSet(Claims, Accounts) = SumFunctionOnSet(Due, Accounts) + SumFunctionOnSet(cashed, Accounts)
    BY <2>1, AccountsAreFinite, SumPointwise
  <2> QED
    BY <1>2, <2>2 DEF SumFunction
<1> DEFINE fee == IF phase = "resolved" THEN FeeOn(LosingIf(winner)) ELSE 0
<1>5. pot + SumFunction(cashed) = total_pool - fee
  BY Zenon DEF MarketInv, MoneyAddsUp
<1>6. fee \in Nat /\ total_pool \in Nat /\ pot \in Int
  <2>1. MarketTypes /\ total_pool \in Nat /\ pot \in Int
    BY PoolsAreNat DEF MarketInv, MarketTypes
  <2>2. CASE phase = "resolved"
    <3>1. winner \in Keys /\ Pool(winner) > 0
      BY <2>2 DEF MarketInv, SettlementFits
    <3> QED
      BY <2>1, <2>2, <3>1, WorthIs
  <2> QED
    BY <2>1, <2>2
<1> HIDE DEF fee
<1>7. pot - SumFunction(Due) = total_pool - fee - SumFunction(Claims)
  BY <1>3, <1>4, <1>5, <1>6
<1> QED
  BY <1>3, <1>7 DEF fee

\* A voided market owes exactly what it took in.
LEMMA VoidedOwesAll ==
    ASSUME MarketInv, phase = "voided"
    PROVE  SumFunction(Claims) = total_pool
<1>1. \A a \in Accounts : ClaimOf(a) = bettor_total(a)
  BY DEF ClaimOf
<1>2. Claims = [a \in Accounts |-> bettor_total(a)]
  BY <1>1 DEF Claims
<1>3. DOMAIN Claims = Accounts
  BY DEF Claims
<1> QED
  BY <1>2, <1>3, PoolsAreNat, Zenon DEF MarketInv, SumFunction

\* A resolved market owes what it took in, less the fee and less the dust of the floors.
LEMMA ResolvedOwesAlmostAll ==
    ASSUME MarketInv, phase = "resolved"
    PROVE  LET dust == total_pool - FeeOn(LosingIf(winner)) - SumFunction(Claims)
           IN  0 <= dust /\ dust < Cardinality({a \in Accounts : stake_on[a][winner] > 0})
<1> DEFINE l == LosingIf(winner) - FeeOn(LosingIf(winner))
           p == Pool(winner)
           winners == {a \in Accounts : stake_on[a][winner] > 0}
           stake == [a \in Accounts |-> stake_on[a][winner]]
           share == [a \in Accounts |-> (stake_on[a][winner] * l) \div p]
<1>1. winner \in Keys /\ p > 0 /\ MarketTypes /\ SettlementFits
  BY DEF MarketInv, SettlementFits
<1>2. /\ p \in Nat /\ l \in Nat /\ total_pool \in Nat /\ FeeOn(LosingIf(winner)) \in Nat
      /\ LosingIf(winner) = total_pool - p
  BY <1>1, WorthIs, PoolsAreNat DEF LosingIf
<1>3. \A a \in Accounts : /\ ClaimOf(a) = stake_on[a][winner] + (stake_on[a][winner] * l) \div p
                          /\ ClaimOf(a) \in Nat /\ stake_on[a][winner] \in Nat
  <2>1. \A a \in Accounts : ClaimOf(a) = Worth(a, winner) /\ ClaimOf(a) \in Nat
    BY <1>1, ClaimIs
  <2>2. \A a \in Accounts : Worth(a, winner) = stake_on[a][winner] + (stake_on[a][winner] * l) \div p
    BY <1>1, WorthIs
  <2>3. \A a \in Accounts : stake_on[a][winner] \in Nat
    BY <1>1 DEF MarketTypes
  <2> QED
    BY <2>1, <2>2, <2>3
<1>4. /\ \A a \in Accounts : stake[a] \in Nat /\ share[a] = (stake[a] * l) \div p /\ Claims[a] = stake[a] + share[a]
      /\ \A a \in Accounts : a \notin winners => stake[a] = 0
      /\ DOMAIN Claims = Accounts /\ winners \in SUBSET Accounts
  BY <1>3 DEF Claims
<1>5. p = SumFunctionOnSet(stake, Accounts)
  BY DEF Pool, SumFunction
<1>6. l = total_pool - p - FeeOn(LosingIf(winner))
  BY <1>2
<1> HIDE DEF l, p, winners, stake, share
<1>7. \A n \in Nat : n * l \in Nat /\ (n = 0 => n * l = 0) /\ (n * l) \div p \in Nat
  <2>1. \A n \in Nat : n * l \in Nat /\ (n = 0 => n * l = 0)
    BY <1>2
  <2>2. \A v \in Nat : v \div p \in Nat
    BY <1>1, <1>2
  <2> QED
    BY <2>1, <2>2
<1>8. \A a \in Accounts : share[a] \in Nat /\ (a \notin winners => share[a] = 0)
  <2>1. (0 * l) \div p = 0
    BY <1>1, <1>2, <1>7
  <2> QED
    BY <1>4, <1>7, <2>1
<1>9. IsFiniteSet(winners) /\ IsFiniteSet(Accounts)
  BY <1>4, AccountsAreFinite, FS_Subset
<1>10. SumFunctionOnSet(stake, winners) = p
  BY <1>4, <1>5, <1>9, SumOfSupport
<1>11. /\ SumFunctionOnSet(share, winners) \in 0..l
       /\ l - SumFunctionOnSet(share, winners) < Cardinality(winners)
  <2>1. \A a \in winners : stake[a] \in Nat /\ share[a] = (stake[a] * l) \div p
    BY <1>4
  <2> QED
    BY <1>1, <1>2, <1>9, <1>10, <2>1, FloorsOfShares
<1>12. SumFunctionOnSet(share, Accounts) = SumFunctionOnSet(share, winners)
  BY <1>4, <1>8, <1>9, SumOfSupport
<1>13. SumFunction(Claims) = p + SumFunctionOnSet(share, winners)
  <2>1. \A a \in Accounts : stake[a] \in Int /\ share[a] \in Int /\ Claims[a] = stake[a] + share[a]
    BY <1>4, <1>8
  <2>2. SumFunctionOnSet(Claims, Accounts) = SumFunctionOnSet(stake, Accounts) + SumFunctionOnSet(share, Accounts)
    BY <1>9, <2>1, SumPointwise
  <2> QED
    BY <1>4, <1>5, <1>12, <2>2 DEF SumFunction
<1>14. Cardinality(winners) \in Nat
  BY <1>9, FS_CardinalityType
<1>15. LET dust == total_pool - FeeOn(LosingIf(winner)) - SumFunction(Claims)
       IN  0 <= dust /\ dust < Cardinality(winners)
  BY <1>2, <1>6, <1>11, <1>13, <1>14
<1> QED
  BY <1>15 DEF winners

\* The invariant says what PotCoversClaims does.
LEMMA MarketInvCovers == MarketInv => PotCoversClaims
<1> SUFFICES ASSUME MarketInv PROVE PotCoversClaims
  OBVIOUS
<1>1. CASE phase = "open"
  <2>1. claimed = {} /\ DOMAIN cashed = Accounts /\ \A a \in Accounts : cashed[a] = 0
    BY <1>1 DEF MarketInv, MarketTypes, SettlementFits, ClaimsRecorded
  <2>2. SumFunction(cashed) = 0
    BY <2>1, AccountsAreFinite, SumFunctionZero
  <2>3. pot + 0 = total_pool - 0 /\ pot \in Int /\ total_pool \in Nat
    BY <1>1, <2>2, PoolsAreNat DEF MarketInv, MarketTypes, MoneyAddsUp
  <2> QED
    BY <1>1, <2>3 DEF PotCoversClaims
<1>2. CASE phase = "voided"
  <2>1. pot - SumFunction(Due) = total_pool - 0 - total_pool /\ SumFunction(Due) \in Nat
    BY <1>2, DueIsUnpaid, VoidedOwesAll
  <2>2. pot \in Int /\ total_pool \in Nat
    BY PoolsAreNat DEF MarketInv, MarketTypes
  <2>3. pot = SumFunction(Due)
    BY <2>1, <2>2
  <2> QED
    BY <1>2, <2>1, <2>2, <2>3 DEF PotCoversClaims
<1>3. CASE phase = "resolved"
  <2> DEFINE dust == total_pool - FeeOn(LosingIf(winner)) - SumFunction(Claims)
             due == SumFunction(Due)
             winners == Cardinality({a \in Accounts : stake_on[a][winner] > 0})
  <2>1. pot - due = dust /\ due \in Nat
    BY <1>3, DueIsUnpaid
  <2>2. 0 <= dust /\ dust < winners
    BY <1>3, ResolvedOwesAlmostAll
  <2>3. pot \in Int
    BY DEF MarketInv, MarketTypes
  <2> HIDE DEF dust, due
  <2>4. pot >= due /\ pot - due < winners
    BY <2>1, <2>2, <2>3
  <2> QED
    BY <1>3, <2>4 DEF PotCoversClaims, due
<1> QED
  BY <1>1, <1>2, <1>3 DEF MarketInv, MarketTypes

\* The invariant says what ManifestMatchesClaims does.
LEMMA MarketInvMatches == MarketInv => ManifestMatchesClaims
<1> SUFFICES ASSUME MarketInv, phase # "open"
             PROVE  LET manifest == computeMarketPayouts(winner)
                    IN  /\ \A a \in Accounts : manifest.payouts[a] = IF a \in claimed THEN cashed[a] ELSE ClaimOf(a)
                        /\ manifest.dust = pot - SumFunction(Due)
                        /\ (phase = "resolved" /\ quote # NoQuote /\ quote.key = winner /\ quote.fresh)
                              => ClaimOf(quote.of) = quote.motes
  BY Zenon DEF ManifestMatchesClaims
<1>1. \A a \in Accounts : (IF a \in claimed THEN cashed[a] ELSE ClaimOf(a)) = ClaimOf(a)
  BY DEF MarketInv, ClaimsRecorded
<1>2. /\ computeMarketPayouts(winner).payouts = Claims
      /\ computeMarketPayouts(winner).dust = pot - SumFunction(Due)
  <2>1. CASE phase = "voided"
    <3>1. winner = Unset
      BY <2>1 DEF MarketInv, SettlementFits
    <3>2. computeMarketPayouts(winner) = [payouts |-> [a \in Accounts |-> bettor_total(a)], fee |-> 0, dust |-> 0]
      BY <3>1, Zenon DEF computeMarketPayouts
    <3>3. Claims = [a \in Accounts |-> bettor_total(a)]
      BY <2>1 DEF ClaimOf, Claims
    <3>4. pot - SumFunction(Due) = 0
      <4>1. pot = SumFunction(Due) /\ pot \in Int
        BY <2>1, MarketInvCovers DEF PotCoversClaims, MarketInv, MarketTypes
      <4> QED
        BY <4>1
    <3> QED
      BY <3>2, <3>3, <3>4
  <2>2. CASE phase = "resolved"
    <3>1. /\ winner \in Keys /\ Pool(winner) > 0 /\ winner # Unset
          /\ snapshot.winning = Pool(winner)
          /\ snapshot.distributable = LosingIf(winner) - FeeOn(LosingIf(winner))
      BY <2>2, KeysAreFinite DEF MarketInv, SettlementFits
    <3> DEFINE losing == LosingIf(winner)
               share == [a \in Accounts |->
                           IF losing = FeeOn(losing) THEN stake_on[a][winner]
                           ELSE stake_on[a][winner] + (stake_on[a][winner] * (losing - FeeOn(losing))) \div Pool(winner)]
    <3>2. Pool(winner) # 0 /\ losing \in Nat /\ FeeOn(losing) \in Nat
      BY <3>1, WorthIs DEF MarketInv
    <3>3. computeMarketPayouts(winner)
            = [payouts |-> share, fee |-> FeeOn(losing), dust |-> total_pool - FeeOn(losing) - SumFunction(share)]
      <4>1. \A n : ManifestFee(n) = FeeOn(n)
        BY DEF ManifestFee, FeeOn
      <4> QED
        BY <3>1, <3>2, <4>1, Zenon DEF computeMarketPayouts, LosingIf
    <3>4. share = Claims
      <4>1. \A a \in Accounts : share[a] = Worth(a, winner)
        <5>1. losing = FeeOn(losing) <=> losing - FeeOn(losing) = 0
          BY <3>2
        <5> QED
          BY <5>1, Zenon DEF Worth
      <4>2. \A a \in Accounts : ClaimOf(a) = Worth(a, winner)
        BY <2>2, ClaimIs DEF MarketInv
      <4> HIDE DEF losing
      <4> QED
        BY <4>1, <4>2 DEF Claims
    <3>5. pot - SumFunction(Due) = total_pool - FeeOn(losing) - SumFunction(Claims)
      BY <2>2, DueIsUnpaid
    <3> HIDE DEF share, losing
    <3> QED
      BY <3>3, <3>4, <3>5
  <2> QED
    BY <2>1, <2>2 DEF MarketInv, MarketTypes
<1>3. ASSUME phase = "resolved", quote # NoQuote, quote.key = winner, quote.fresh
      PROVE  ClaimOf(quote.of) = quote.motes
  <2>1. quote.of \in Accounts /\ quote.motes = Worth(quote.of, winner)
    BY <1>3, Zenon DEF MarketInv, QuoteHolds
  <2>2. \A a \in Accounts : ClaimOf(a) = Worth(a, winner)
    BY <1>3, ClaimIs DEF MarketInv
  <2> QED
    BY <2>1, <2>2, Zenon
<1>4. \A a \in Accounts : computeMarketPayouts(winner).payouts[a] = IF a \in claimed THEN cashed[a] ELSE ClaimOf(a)
  BY <1>1, <1>2 DEF Claims
<1> QED
  BY <1>2, <1>3, <1>4, Zenon

\* However many bettors, outcomes and stakes, and in whatever order they claim: the contract
\* holds what it still owes, and what no claim ever takes out is less than a mote for each winner.
THEOREM ClaimsCovered == MarketSpec => []PotCoversClaims
  BY MarketInvariance, MarketInvCovers, PTL

\* The same of a market over a frozen field.
THEOREM FieldClaimsCovered == FieldSpec => []PotCoversClaims
  BY FieldMarketInvariance, MarketInvCovers, PTL

\* The manifest computed off chain is what claim pays, bettor by bettor and to the mote of
\* dust, and a preview is honoured, whatever the stakes.
THEOREM ManifestIsTheClaims == MarketSpec => []ManifestMatchesClaims
  BY MarketInvariance, MarketInvMatches, PTL

\* The same of a market over a frozen field.
THEOREM FieldManifestIsTheClaims == FieldSpec => []ManifestMatchesClaims
  BY FieldMarketInvariance, MarketInvMatches, PTL
-----------------------------------------------------------------------------
(***************************************************************************)
(* FROZEN FIELD                                                            *)
(***************************************************************************)

FieldTypes ==
    /\ keys \subseteq Keys
    /\ stake_on \in [Accounts -> [Keys -> Nat]]
    /\ phase \in {"open", "resolved", "voided"} /\ frozen \in BOOLEAN

\* Nobody bets before the freeze, the frozen field is the field, and a winner is one of it.
FrozenBeforeStakes ==
    /\ \A a \in Accounts, k \in Keys : stake_on[a][k] > 0 => frozen
    /\ frozen => keys = fieldAtFreeze
    /\ winner # Unset => winner \in fieldAtFreeze /\ frozen /\ phase # "open"

FieldInv == FieldTypes /\ FrozenBeforeStakes
-----------------------------------------------------------------------------
(***************************************************************************)
(* The inductive invariant                                                 *)
(***************************************************************************)

LEMMA FieldInitInv == FieldInit => FieldInv
<1> SUFFICES ASSUME FieldInit PROVE FieldInv
  OBVIOUS
<1>1. stake_on = [a \in Accounts |-> [k \in Keys |-> 0]] /\ keys = {} /\ phase = "open" /\ winner = Unset /\ frozen = FALSE
  BY DEF FieldInit, MarketInit
<1>2. [k \in Keys |-> 0] \in [Keys -> Nat] /\ \A a \in Accounts, k \in Keys : stake_on[a][k] = 0
  BY <1>1
<1>3. stake_on \in [Accounts -> [Keys -> Nat]]
  BY <1>1, <1>2
<1>4. FieldTypes
  BY <1>1, <1>3 DEF FieldTypes
<1>5. FrozenBeforeStakes
  <2>1. \A a \in Accounts, k \in Keys : ~(stake_on[a][k] > 0)
    BY <1>2
  <2>2. ~frozen
    BY <1>1
  <2> QED
    BY <1>1, <2>1, <2>2, Zenon DEF FrozenBeforeStakes
<1> QED
  BY <1>4, <1>5 DEF FieldInv

LEMMA FieldBetInv ==
    ASSUME FieldInv, NEW a \in Accounts, NEW k \in Keys, NEW x \in Amounts, FieldBet(a, k, x)
    PROVE  FieldInv'
<1>1. x \in Nat /\ stake_on \in [Accounts -> [Keys -> Nat]] /\ stake_on[a] \in [Keys -> Nat]
  BY AmountsArePositive DEF FieldInv, FieldTypes
<1>2. [stake_on[a] EXCEPT ![k] = @ + x] \in [Keys -> Nat]
  BY <1>1
<1>3. stake_on' = [stake_on EXCEPT ![a] = [stake_on[a] EXCEPT ![k] = @ + x]]
  BY DEF FieldBet, Bet
<1>4. stake_on' \in [Accounts -> [Keys -> Nat]]
  BY <1>1, <1>2, <1>3
<1>5. frozen /\ UNCHANGED <<keys, phase, winner, frozen, fieldAtFreeze>>
  BY DEF FieldBet, Bet
<1> QED
  BY <1>4, <1>5 DEF FieldInv, FieldTypes, FrozenBeforeStakes

LEMMA FieldResolveInv ==
    ASSUME FieldInv, NEW k \in Keys, FieldResolve(k)
    PROVE  FieldInv'
<1>1. frozen /\ k \in keys /\ phase' \in {"resolved", "voided"} /\ (winner' = winner \/ winner' = k)
  BY DEF FieldResolve, Resolve
<1>2. UNCHANGED <<keys, stake_on, frozen, fieldAtFreeze>>
  BY DEF FieldResolve, Resolve
<1> QED
  BY <1>1, <1>2 DEF FieldInv, FieldTypes, FrozenBeforeStakes

LEMMA FieldOtherInv ==
    ASSUME FieldInv,
           \/ FreezeField \/ FieldVoid \/ (Tick /\ UNCHANGED fieldVars)
           \/ \E K \in SUBSET Keys : RegisterCandidates(K)
           \/ \E h \in Hashes : CommitRecipe(h) \/ CommitBundle(h)
           \/ \E a \in Accounts : FieldClaim(a)
    PROVE  FieldInv'
<1>1. CASE FreezeField
  BY <1>1 DEF FreezeField, FieldOpen, marketVars, FieldInv, FieldTypes, FrozenBeforeStakes
<1>2. CASE FieldVoid
  BY <1>2 DEF FieldVoid, Void, FieldInv, FieldTypes, FrozenBeforeStakes
<1>3. CASE Tick /\ UNCHANGED fieldVars
  BY <1>3 DEF fieldVars, marketVars, FieldInv, FieldTypes, FrozenBeforeStakes
<1>4. CASE \E K \in SUBSET Keys : RegisterCandidates(K)
  <2> PICK K \in SUBSET Keys : RegisterCandidates(K)
    BY <1>4
  <2>1. ~frozen /\ keys' = keys \cup K /\ UNCHANGED <<phase, stake_on, winner, frozen, fieldAtFreeze>>
    BY DEF RegisterCandidates, FieldOpen
  <2> QED
    BY <2>1 DEF FieldInv, FieldTypes, FrozenBeforeStakes
<1>5. CASE \E h \in Hashes : CommitRecipe(h) \/ CommitBundle(h)
  <2>1. UNCHANGED <<keys, phase, stake_on, winner, frozen, fieldAtFreeze>>
    BY <1>5 DEF CommitRecipe, CommitBundle, marketVars
  <2> QED
    BY <2>1 DEF FieldInv, FieldTypes, FrozenBeforeStakes
<1>6. CASE \E a \in Accounts : FieldClaim(a)
  <2>1. UNCHANGED <<keys, phase, stake_on, winner, frozen, fieldAtFreeze>>
    BY <1>6 DEF FieldClaim, Claim
  <2> QED
    BY <2>1 DEF FieldInv, FieldTypes, FrozenBeforeStakes
<1> QED
  BY <1>1, <1>2, <1>3, <1>4, <1>5, <1>6

\* Every step keeps the invariant.
LEMMA FieldNextInv == FieldInv /\ [FieldNext]_<<now, fieldVars>> => FieldInv'
<1> SUFFICES ASSUME FieldInv, [FieldNext]_<<now, fieldVars>> PROVE FieldInv'
  OBVIOUS
<1>1. CASE FieldNext
  BY <1>1, FieldBetInv, FieldResolveInv, FieldOtherInv DEF FieldNext
<1>2. CASE UNCHANGED <<now, fieldVars>>
  BY <1>2 DEF fieldVars, marketVars, FieldInv, FieldTypes, FrozenBeforeStakes
<1> QED
  BY <1>1, <1>2

LEMMA FieldInvariance == FieldSpec => []FieldInv
  BY FieldInitInv, FieldNextInv, PTL DEF FieldSpec
-----------------------------------------------------------------------------
\* For any field and any number of bettors: after the first stake the candidates and the recipe
\* stand, and the winner, once there is one, is a candidate of the frozen field for good.
THEOREM RulesStand == FieldSpec => BettorsRulesHold
<1>1. ASSUME FieldInv, FieldNext PROVE CandidatesStand
  <2>1. ASSUME frozen PROVE keys' = keys
    BY <1>1, <2>1 DEF FieldNext, fieldVars, marketVars, FreezeField, FieldOpen, FieldVoid, Void, RegisterCandidates,
       CommitRecipe, CommitBundle, FieldResolve, Resolve, FieldClaim, Claim, FieldBet, Bet
  <2>2. \/ winner' = winner
        \/ frozen /\ phase = "open" /\ winner' \in keys
    BY <1>1 DEF FieldNext, fieldVars, marketVars, FreezeField, FieldOpen, FieldVoid, Void, RegisterCandidates,
       CommitRecipe, CommitBundle, FieldResolve, Resolve, FieldClaim, Claim, FieldBet, Bet
  <2> QED
    BY <1>1, <2>1, <2>2 DEF FieldInv, FrozenBeforeStakes, CandidatesStand
<1>2. ASSUME FieldNext, total_pool > 0 PROVE recipe' = recipe
  <2>1. total_pool # 0
    BY <1>2
  <2> QED
    BY <1>2, <2>1 DEF FieldNext, fieldVars, marketVars, FreezeField, FieldOpen, FieldVoid, Void, RegisterCandidates,
       CommitRecipe, CommitBundle, FieldResolve, Resolve, FieldClaim, Claim, FieldBet, Bet
<1>3. FieldInv /\ [FieldNext]_<<now, fieldVars>>
        => [CandidatesStand /\ (total_pool > 0 => recipe' = recipe)]_fieldVars
  BY <1>1, <1>2
<1> QED
  BY <1>3, FieldInvariance, PTL DEF FieldSpec, BettorsRulesHold
-----------------------------------------------------------------------------
(***************************************************************************)
(* DISPUTE PANEL                                                           *)
(***************************************************************************)

Ballot == [voter : Accounts, side : Sides, stake : Nat \ {0}]

\* What finalize works out of the ballots V and the record p of a dispute.
Prevailing(V) == IF Upheld(V) THEN "uphold" ELSE "overturn"
RightBallots(V) == Ballots(V, Prevailing(V))
Stakes(V) == [i \in DOMAIN V |-> V[i].stake]
HonestParty(p, V) == IF Upheld(V) THEN p.proposer ELSE p.challenger
HonestBond(p, V) == IF Upheld(V) THEN p.bond ELSE p.dispute_bond
Penalty(p, V) == p.bond + p.dispute_bond - HonestBond(p, V) + StakeOf(V, DOMAIN V \ RightBallots(V))
PenaltyShares(pool, V) == [i \in RightBallots(V) |-> (pool * V[i].stake) \div StakeOf(V, RightBallots(V))]
Leftover(pool, V) == pool - SumFunction(PenaltyShares(pool, V))
Award(pool, V) == [i \in RightBallots(V) |-> V[i].stake + PenaltyShares(pool, V)[i] + (IF i = Min(RightBallots(V)) THEN Leftover(pool, V) ELSE 0)]
RightOf(V, a) == {i \in RightBallots(V) : V[i].voter = a}

Filed == [status : {"proposed", "challenged", "finalized"}, proposer : Accounts, bond : Nat \ {0},
          challenger : Accounts, dispute_bond : Nat, began : Nat, deadline : Nat]

PanelTypes ==
    /\ now \in Nat
    /\ proposal \in [Disputes -> {[status |-> "none"]} \cup Filed]
    /\ votes \in [Disputes -> Seq(Ballot)]
    /\ DOMAIN payout = Disputes

\* What finalize pays everybody, challenged or not.
PaidBy(p, V) ==
    IF p.dispute_bond = 0 THEN [a \in Accounts |-> IF a = p.proposer THEN p.bond ELSE 0]
    ELSE [a \in Accounts |-> Transfers(p, V, a)]

\* A dispute's deadline is that of the window it is in, it has ballots only once it has been
\* challenged, and it pays out all at once when it is finalized.
DisputeFits(p, V, out) ==
    /\ p.status = "none" => V = <<>>
    /\ p.status = "proposed" => p.dispute_bond = 0 /\ p.deadline = p.began + ChallengeWindow
    /\ p.status = "challenged" => p.dispute_bond > 0 /\ p.deadline = p.began + VotingWindow
    /\ p.status # "none" /\ p.dispute_bond = 0 => V = <<>>
    /\ out = IF p.status = "finalized" THEN PaidBy(p, V) ELSE [a \in Accounts |-> 0]

\* What the panel holds for a dispute.
StakeHeld(p, V) == IF p.status = "none" THEN 0 ELSE p.bond + p.dispute_bond + StakeOf(V, DOMAIN V)
Held(p, V) == IF p.status = "finalized" THEN 0 ELSE StakeHeld(p, V)

PanelInv ==
    /\ PanelTypes
    /\ \A m \in Disputes : DisputeFits(proposal[m], votes[m], payout[m])
    /\ panel = SumFunction([m \in Disputes |-> Held(proposal[m], votes[m])])
-----------------------------------------------------------------------------
(***************************************************************************)
(* Ballots and shares                                                      *)
(***************************************************************************)

\* A set of natural numbers that is not empty has a least member.
LEMMA LeastIsIn ==
    ASSUME NEW S \in SUBSET Nat, S # {}
    PROVE  Min(S) \in S /\ \A i \in S : Min(S) <= i
<1> DEFINE below == {ss \in Nat \X Nat : ss[1] < ss[2]}
<1>a. IsWellFoundedOn(below, Nat)
  BY NatLessThanWellFounded DEF OpToRel
<1>b. \A i, j \in Nat : i < j => <<i, j>> \in below
  OBVIOUS
<1> HIDE DEF below
<1>1. PICK x \in S : \A y \in S : ~(<<y, x>> \in below)
  BY <1>a, WFMin
<1>2. \A y \in S : x <= y
  <2> SUFFICES ASSUME NEW y \in S, ~(x <= y) PROVE FALSE
    OBVIOUS
  <2>1. x \in Nat /\ y \in Nat /\ y < x
    OBVIOUS
  <2> QED
    BY <1>b, <1>1, <2>1
<1> QED
  BY <1>2 DEF Min

LEMMA BallotsAre ==
    ASSUME NEW V \in Seq(Ballot)
    PROVE  /\ IsFiniteSet(DOMAIN V) /\ DOMAIN V \subseteq Nat
           /\ RightBallots(V) \in SUBSET DOMAIN V /\ IsFiniteSet(RightBallots(V)) /\ IsFiniteSet(DOMAIN V \ RightBallots(V))
           /\ \A i \in DOMAIN V : V[i].stake \in Nat /\ V[i].stake \in Int /\ V[i].stake > 0 /\ V[i].voter \in Accounts
           /\ RightBallots(V) # {} => Min(RightBallots(V)) \in RightBallots(V)
<1>1. DOMAIN V = 1..Len(V) /\ Len(V) \in Nat /\ \A i \in DOMAIN V : V[i] \in Ballot
  OBVIOUS
<1>2. IsFiniteSet(DOMAIN V) /\ DOMAIN V \subseteq Nat
  BY <1>1, FS_Interval
<1>3. RightBallots(V) \in SUBSET DOMAIN V
  BY DEF RightBallots, Ballots
<1>4. IsFiniteSet(RightBallots(V)) /\ IsFiniteSet(DOMAIN V \ RightBallots(V))
  BY <1>2, <1>3, FS_Subset
<1>5. \A i \in DOMAIN V : V[i].stake \in Nat /\ V[i].stake \in Int /\ V[i].stake > 0 /\ V[i].voter \in Accounts
  BY <1>1 DEF Ballot
<1>6. RightBallots(V) # {} => Min(RightBallots(V)) \in RightBallots(V)
  BY <1>2, <1>3, LeastIsIn
<1> QED
  BY <1>2, <1>3, <1>4, <1>5, <1>6

LEMMA StakeOfIs ==
    ASSUME NEW V \in Seq(Ballot), NEW I \in SUBSET DOMAIN V
    PROVE  StakeOf(V, I) = SumFunctionOnSet(Stakes(V), I) /\ StakeOf(V, I) \in Nat
<1> DEFINE f == [i \in I |-> V[i].stake]
<1>1. IsFiniteSet(I)
  BY BallotsAre, FS_Subset
<1>2. \A i \in I : f[i] \in Nat /\ f[i] \in Int /\ f[i] = Stakes(V)[i]
  BY BallotsAre DEF Stakes
<1>3. StakeOf(V, I) = SumFunctionOnSet(f, I)
  BY DEF StakeOf, SumFunction
<1> HIDE DEF f
<1>4. SumFunctionOnSet(f, I) = SumFunctionOnSet(Stakes(V), I) /\ SumFunctionOnSet(f, I) \in Nat
  BY <1>1, <1>2, SumEqual, SumNat
<1> QED
  BY <1>3, <1>4

\* The prevailing side's stakes and the other's make up all of them.
LEMMA StakesSplit ==
    ASSUME NEW V \in Seq(Ballot)
    PROVE  StakeOf(V, DOMAIN V) = StakeOf(V, RightBallots(V)) + StakeOf(V, DOMAIN V \ RightBallots(V))
<1>1. \A i \in DOMAIN V : Stakes(V)[i] \in Int
  BY BallotsAre DEF Stakes
<1>2. SumFunctionOnSet(Stakes(V), DOMAIN V)
        = SumFunctionOnSet(Stakes(V), RightBallots(V)) + SumFunctionOnSet(Stakes(V), DOMAIN V \ RightBallots(V))
  BY <1>1, BallotsAre, SumUnion
<1>3. DOMAIN V \in SUBSET DOMAIN V /\ RightBallots(V) \in SUBSET DOMAIN V /\ DOMAIN V \ RightBallots(V) \in SUBSET DOMAIN V
  BY BallotsAre
<1> QED
  BY <1>2, <1>3, StakeOfIs

\* A record of a dispute, once filed.
IsFiled(p) ==
    /\ p.proposer \in Accounts /\ p.challenger \in Accounts
    /\ p.bond \in Nat /\ p.bond > 0 /\ p.dispute_bond \in Nat

LEMMA PenaltyIsNat ==
    ASSUME NEW V \in Seq(Ballot), NEW p, IsFiled(p)
    PROVE  /\ Penalty(p, V) \in Nat /\ HonestBond(p, V) \in Nat
           /\ Penalty(p, V) \in Int /\ HonestBond(p, V) \in Int /\ HonestParty(p, V) \in Accounts
           /\ HonestBond(p, V) + Penalty(p, V) = p.bond + p.dispute_bond + StakeOf(V, DOMAIN V \ RightBallots(V))
<1>1. DOMAIN V \ RightBallots(V) \in SUBSET DOMAIN V
  OBVIOUS
<1>2. StakeOf(V, DOMAIN V \ RightBallots(V)) \in Nat
  BY <1>1, StakeOfIs
<1>3. (HonestBond(p, V) = p.bond \/ HonestBond(p, V) = p.dispute_bond) /\ HonestParty(p, V) \in Accounts
  BY DEF HonestBond, HonestParty, IsFiled
<1> QED
  BY <1>2, <1>3 DEF Penalty, IsFiled

\* The shares of the penalty never exceed it.
LEMMA SharesFit ==
    ASSUME NEW V \in Seq(Ballot), NEW pool \in Nat, RightBallots(V) # {}
    PROVE  /\ \A i \in RightBallots(V) : PenaltyShares(pool, V)[i] \in Nat /\ PenaltyShares(pool, V)[i] \in Int
           /\ SumFunction(PenaltyShares(pool, V)) = SumFunctionOnSet(PenaltyShares(pool, V), RightBallots(V))
           /\ SumFunction(PenaltyShares(pool, V)) \in Int
           /\ Leftover(pool, V) \in Nat /\ Leftover(pool, V) \in Int
<1> DEFINE R == RightBallots(V)
           total == StakeOf(V, R)
           share == PenaltyShares(pool, V)
<1>1. R \in SUBSET DOMAIN V /\ IsFiniteSet(R) /\ \A i \in R : V[i].stake \in Nat /\ V[i].stake > 0 /\ Stakes(V)[i] = V[i].stake
  BY BallotsAre DEF Stakes
<1>2. total = SumFunctionOnSet(Stakes(V), R) /\ total \in Nat
  BY <1>1, StakeOfIs
<1>3. total > 0
  <2>1. PICK i \in R : TRUE
    OBVIOUS
  <2>2. Stakes(V)[i] <= SumFunctionOnSet(Stakes(V), R)
    BY <1>1, SumAtLeastTerm
  <2> QED
    BY <1>1, <1>2, <2>1, <2>2
<1>4. /\ \A i \in R : share[i] = (pool * V[i].stake) \div total
      /\ DOMAIN share = R
  BY DEF PenaltyShares
<1> HIDE DEF R, total, share
<1>5. \A i \in R : Stakes(V)[i] \in Nat /\ share[i] = (Stakes(V)[i] * pool) \div total
  BY <1>1, <1>4
<1>6. SumFunctionOnSet(share, R) \in 0..pool
  BY <1>1, <1>2, <1>3, <1>5, FloorsOfShares
<1>7. \A i \in R : share[i] \in Nat /\ share[i] \in Int
  <2>1. \A n \in Nat : n \div total \in Nat /\ n \div total \in Int
    BY <1>2, <1>3
  <2>2. \A i \in R : pool * V[i].stake \in Nat
    BY <1>1
  <2> QED
    BY <1>4, <2>1, <2>2
<1>8. SumFunction(share) = SumFunctionOnSet(share, R)
  BY <1>4 DEF SumFunction
<1>9. Leftover(pool, V) = pool - SumFunction(share)
  BY DEF Leftover, share
<1> QED
  BY <1>6, <1>7, <1>8, <1>9 DEF R, share

LEMMA AwardIs ==
    ASSUME NEW V \in Seq(Ballot), NEW pool \in Nat
    PROVE  /\ \A i \in RightBallots(V) :
                 /\ Award(pool, V)[i] = V[i].stake + PenaltyShares(pool, V)[i]
                                          + (IF i = Min(RightBallots(V)) THEN Leftover(pool, V) ELSE 0)
                 /\ PenaltyShares(pool, V)[i] \in Nat /\ Leftover(pool, V) \in Nat
                 /\ Award(pool, V)[i] \in Int /\ Award(pool, V)[i] >= V[i].stake
           /\ DOMAIN Award(pool, V) = RightBallots(V)
<1>1. DOMAIN Award(pool, V) = RightBallots(V)
  BY DEF Award
<1> SUFFICES ASSUME NEW i \in RightBallots(V)
             PROVE  /\ Award(pool, V)[i] = V[i].stake + PenaltyShares(pool, V)[i]
                                          + (IF i = Min(RightBallots(V)) THEN Leftover(pool, V) ELSE 0)
                    /\ PenaltyShares(pool, V)[i] \in Nat /\ Leftover(pool, V) \in Nat
                    /\ Award(pool, V)[i] \in Int /\ Award(pool, V)[i] >= V[i].stake
  BY <1>1
<1>2. Award(pool, V)[i] = V[i].stake + PenaltyShares(pool, V)[i] + (IF i = Min(RightBallots(V)) THEN Leftover(pool, V) ELSE 0)
  BY DEF Award
<1>3. PenaltyShares(pool, V)[i] \in Nat /\ Leftover(pool, V) \in Nat /\ V[i].stake \in Nat
  BY SharesFit, BallotsAre
<1> QED
  BY <1>2, <1>3

\* The ballots on the prevailing side share out their own stakes and all of the penalty.
LEMMA AwardsAddUp ==
    ASSUME NEW V \in Seq(Ballot), NEW pool \in Nat, RightBallots(V) # {}
    PROVE  SumFunctionOnSet(Award(pool, V), RightBallots(V)) = StakeOf(V, RightBallots(V)) + pool
<1> DEFINE R == RightBallots(V)
           share == PenaltyShares(pool, V)
           dust == Leftover(pool, V)
           award == Award(pool, V)
           bonus == [i \in R |-> IF i = Min(R) THEN dust ELSE 0]
           base == [i \in R |-> V[i].stake + share[i]]
           stake == Stakes(V)
<1>1. /\ R \in SUBSET DOMAIN V /\ IsFiniteSet(R) /\ Min(R) \in R
      /\ \A i \in R : V[i].stake \in Int /\ stake[i] = V[i].stake
  BY BallotsAre DEF Stakes
<1>2. /\ \A i \in R : award[i] = V[i].stake + share[i] + (IF i = Min(R) THEN dust ELSE 0) /\ share[i] \in Int
      /\ dust \in Int
  BY AwardIs, SharesFit
<1>3. dust = pool - SumFunctionOnSet(share, R) /\ SumFunctionOnSet(share, R) \in Int
  BY SharesFit DEF Leftover
<1>4. StakeOf(V, R) = SumFunctionOnSet(stake, R) /\ StakeOf(V, R) \in Int
  BY <1>1, StakeOfIs
<1> HIDE DEF R, share, dust, award, stake
<1>5. /\ \A i \in R : /\ bonus[i] \in Int /\ base[i] \in Int /\ award[i] = base[i] + bonus[i]
                      /\ base[i] = stake[i] + share[i] /\ stake[i] \in Int
                      /\ (i # Min(R) => bonus[i] = 0)
      /\ bonus[Min(R)] = dust
  BY <1>1, <1>2
<1> HIDE DEF bonus, base
<1>6. SumFunctionOnSet(bonus, R) = dust
  BY <1>1, <1>2, <1>5, SumOfOne
<1>7. SumFunctionOnSet(base, R) = SumFunctionOnSet(stake, R) + SumFunctionOnSet(share, R)
  BY <1>1, <1>2, <1>5, SumPointwise
<1>8. SumFunctionOnSet(award, R) = SumFunctionOnSet(base, R) + SumFunctionOnSet(bonus, R)
  BY <1>1, <1>5, SumPointwise
<1>9. SumFunctionOnSet(award, R) = StakeOf(V, R) + pool
  BY <1>3, <1>4, <1>6, <1>7, <1>8
<1> QED
  BY <1>9 DEF R, award

\* What finalize transfers to a, in these terms.
LEMMA TransfersAre ==
    ASSUME NEW V \in Seq(Ballot), NEW p, IsFiled(p), NEW a
    PROVE  Transfers(p, V, a)
             = (IF a = HonestParty(p, V) THEN HonestBond(p, V) + (IF RightBallots(V) = {} THEN Penalty(p, V) ELSE 0) ELSE 0)
               + SumFunctionOnSet(Award(Penalty(p, V), V), RightOf(V, a))
<1> DEFINE pool == Penalty(p, V)
           award == [i \in RightOf(V, a) |-> V[i].stake + PenaltyShares(pool, V)[i]
                                            + (IF i = Min(RightBallots(V)) THEN Leftover(pool, V) ELSE 0)]
<1>1. Transfers(p, V, a)
        = (IF a = HonestParty(p, V) THEN HonestBond(p, V) + (IF RightBallots(V) = {} THEN pool ELSE 0) ELSE 0) + SumFunction(award)
  BY Zenon DEF Transfers, Bonder, TakesDust, HonestParty, HonestBond, Penalty, RightBallots, Prevailing, PenaltyShares, Leftover, RightOf
<1>2. pool \in Nat /\ RightOf(V, a) \in SUBSET RightBallots(V) /\ IsFiniteSet(RightBallots(V))
  BY PenaltyIsNat, BallotsAre DEF RightOf
<1>3. \A i \in RightOf(V, a) : award[i] = Award(pool, V)[i] /\ award[i] \in Int
  BY <1>2, AwardIs
<1>4. IsFiniteSet(RightOf(V, a)) /\ DOMAIN award = RightOf(V, a)
  BY <1>2, FS_Subset
<1> HIDE DEF pool, award
<1>5. SumFunction(award) = SumFunctionOnSet(Award(pool, V), RightOf(V, a))
  BY <1>3, <1>4, SumEqual DEF SumFunction
<1> QED
  BY <1>1, <1>5 DEF pool

\* finalize pays out exactly what was put in.
LEMMA TransfersAddUp ==
    ASSUME NEW V \in Seq(Ballot), NEW p, IsFiled(p)
    PROVE  SumFunction([a \in Accounts |-> Transfers(p, V, a)]) = p.bond + p.dispute_bond + StakeOf(V, DOMAIN V)
<1> DEFINE pool == Penalty(p, V)
           R == RightBallots(V)
           award == Award(pool, V)
           party == HonestParty(p, V)
           home == [a \in Accounts |-> IF a = party THEN HonestBond(p, V) + (IF R = {} THEN pool ELSE 0) ELSE 0]
           class == [i \in R |-> V[i].voter]
           cast == [a \in Accounts |-> SumFunctionOnSet(award, {i \in R : class[i] = a})]
           out == [a \in Accounts |-> Transfers(p, V, a)]
<1>1. /\ pool \in Nat /\ pool \in Int /\ HonestBond(p, V) \in Int /\ party \in Accounts
      /\ HonestBond(p, V) + pool = p.bond + p.dispute_bond + StakeOf(V, DOMAIN V \ R)
  BY PenaltyIsNat
<1>2. IsFiniteSet(R) /\ R \in SUBSET DOMAIN V /\ \A i \in R : award[i] \in Int /\ class[i] \in Accounts
  BY <1>1, AwardIs, BallotsAre
<1>3. \A a \in Accounts : RightOf(V, a) = {i \in R : class[i] = a} /\ RightOf(V, a) \in SUBSET R
  BY DEF RightOf
<1>a. /\ \A a \in Accounts : home[a] \in Int /\ (a # party => home[a] = 0)
      /\ home[party] = HonestBond(p, V) + (IF R = {} THEN pool ELSE 0)
  <2> HIDE DEF pool, R, party
  <2> QED
    BY <1>1
<1>4. \A a \in Accounts : /\ out[a] = home[a] + cast[a]
                          /\ cast[a] = SumFunctionOnSet(award, RightOf(V, a))
  <2>1. \A a \in Accounts : out[a] = home[a] + SumFunctionOnSet(award, RightOf(V, a))
    BY TransfersAre, Zenon
  <2> QED
    BY <1>3, <2>1
<1>5. DOMAIN out = Accounts
  OBVIOUS
<1> HIDE DEF pool, R, award, party, home, class, out
<1>6. SumFunctionOnSet(cast, Accounts) = SumFunctionOnSet(award, R)
  BY <1>2, AccountsAreFinite, SumByClass
<1>7. \A a \in Accounts : cast[a] \in Int
  <2> SUFFICES ASSUME NEW a \in Accounts PROVE cast[a] \in Int
    OBVIOUS
  <2>1. IsFiniteSet(RightOf(V, a)) /\ \A i \in RightOf(V, a) : award[i] \in Int
    BY <1>2, <1>3, FS_Subset
  <2> QED
    BY <1>4, <2>1, SumInt
<1> HIDE DEF cast
<1>8. SumFunctionOnSet(home, Accounts) = HonestBond(p, V) + (IF R = {} THEN pool ELSE 0)
  BY <1>1, <1>a, AccountsAreFinite, SumOfOne
<1>9. SumFunctionOnSet(out, Accounts) = SumFunctionOnSet(home, Accounts) + SumFunctionOnSet(cast, Accounts)
  <2>1. \A a \in Accounts : home[a] \in Int /\ cast[a] \in Int /\ out[a] = home[a] + cast[a]
    BY <1>a, <1>4, <1>7
  <2> QED
    BY <2>1, AccountsAreFinite, SumPointwise
<1>10. StakeOf(V, DOMAIN V) = StakeOf(V, R) + StakeOf(V, DOMAIN V \ R) /\ StakeOf(V, R) \in Int /\ StakeOf(V, DOMAIN V \ R) \in Int
  <2>1. DOMAIN V \ R \in SUBSET DOMAIN V
    OBVIOUS
  <2> QED
    BY <1>2, <2>1, StakesSplit, StakeOfIs DEF R
<1>11. SumFunctionOnSet(out, Accounts) = HonestBond(p, V) + pool + StakeOf(V, R)
  <2>1. CASE R = {}
    <3>1. SumFunctionOnSet(award, R) = 0 /\ StakeOf(V, R) = 0
      <4>1. StakeOf(V, {}) = SumFunctionOnSet(Stakes(V), {})
        BY StakeOfIs
      <4> QED
        BY <2>1, <4>1, SumEmpty
    <3> QED
      BY <1>1, <1>6, <1>8, <1>9, <2>1, <3>1
  <2>2. CASE R # {}
    <3>1. SumFunctionOnSet(award, R) = StakeOf(V, R) + pool
      BY <1>1, <2>2, AwardsAddUp DEF R, award
    <3> QED
      BY <1>1, <1>6, <1>8, <1>9, <1>10, <2>2, <3>1
  <2> QED
    BY <2>1, <2>2
<1>12. p.bond \in Int /\ p.dispute_bond \in Int
  BY DEF IsFiled
<1>13. SumFunctionOnSet(out, Accounts) = p.bond + p.dispute_bond + StakeOf(V, DOMAIN V)
  BY <1>1, <1>10, <1>11, <1>12
<1> QED
  BY <1>5, <1>13 DEF SumFunction, out

\* Off chain, settleDispute comes to the same transfers.
LEMMA SettleAgrees ==
    ASSUME NEW V \in Seq(Ballot), NEW p, IsFiled(p)
    PROVE  settleDispute(p, V) = [a \in Accounts |-> Transfers(p, V, a)]
<1> DEFINE up == StakeOf(V, Ballots(V, "uphold"))
           down == StakeOf(V, Ballots(V, "overturn"))
           R == RightBallots(V)
           pool == Penalty(p, V)
           cut == PenaltyShares(pool, V)
           dust == Leftover(pool, V)
           party == HonestParty(p, V)
           first == IF R = {} THEN party ELSE V[Min(R)].voter
           mine(a) == [i \in RightOf(V, a) |-> V[i].stake + cut[i]]
<1>1. up \in Nat /\ down \in Nat /\ (Upheld(V) <=> ~(down > up))
  <2>1. Ballots(V, "uphold") \in SUBSET DOMAIN V /\ Ballots(V, "overturn") \in SUBSET DOMAIN V
    BY DEF Ballots
  <2>2. up \in Nat /\ down \in Nat
    BY <2>1, StakeOfIs
  <2>3. Upheld(V) <=> down <= up
    BY DEF Upheld
  <2> HIDE DEF up, down
  <2> QED
    BY <2>2, <2>3
<1>2. (IF down > up THEN "overturn" ELSE "uphold") = Prevailing(V)
  BY <1>1, Zenon DEF Prevailing
<1>3. /\ Upheld(V) => Prevailing(V) = "uphold" /\ party = p.proposer /\ HonestBond(p, V) = p.bond
      /\ ~Upheld(V) => Prevailing(V) = "overturn" /\ party = p.challenger /\ HonestBond(p, V) = p.dispute_bond
      /\ "uphold" # "overturn"
  BY DEF Prevailing, HonestParty, HonestBond
<1>4. (IF Prevailing(V) = "uphold" THEN <<p.proposer, p.bond>> ELSE <<p.challenger, p.dispute_bond>>)
        = <<party, HonestBond(p, V)>>
  BY <1>3, Zenon
<1>5. StakeOf(V, DOMAIN V \ R) + (IF Prevailing(V) = "uphold" THEN p.dispute_bond ELSE p.bond) = pool
  <2>1. StakeOf(V, DOMAIN V \ R) \in Int
    <3>1. DOMAIN V \ R \in SUBSET DOMAIN V
      OBVIOUS
    <3> QED
      BY <3>1, StakeOfIs
  <2>2. p.bond \in Int /\ p.dispute_bond \in Int
    BY DEF IsFiled
  <2>3. pool = p.bond + p.dispute_bond - HonestBond(p, V) + StakeOf(V, DOMAIN V \ R)
    BY DEF Penalty
  <2> HIDE DEF pool, R
  <2> QED
    BY <1>3, <2>1, <2>2, <2>3
<1>6. <<party, HonestBond(p, V)>>[1] = party /\ <<party, HonestBond(p, V)>>[2] = HonestBond(p, V)
  OBVIOUS
<1>7. settleDispute(p, V)
        = [a \in Accounts |-> (IF a = party THEN HonestBond(p, V) ELSE 0) + (IF a = first THEN dust ELSE 0)
             + SumFunction(mine(a))]
  <2> DEFINE decision == IF down > up THEN "overturn" ELSE "uphold"
             right == Ballots(V, decision)
             penalty == StakeOf(V, DOMAIN V \ right) + (IF decision = "uphold" THEN p.dispute_bond ELSE p.bond)
             home == IF decision = "uphold" THEN <<p.proposer, p.bond>> ELSE <<p.challenger, p.dispute_bond>>
             slice == [i \in right |-> (penalty * V[i].stake) \div StakeOf(V, right)]
             to == IF right = {} THEN home[1] ELSE V[Min(right)].voter
             rest == penalty - SumFunction(slice)
  <2>1. settleDispute(p, V)
          = [a \in Accounts |-> (IF a = home[1] THEN home[2] ELSE 0) + (IF a = to THEN rest ELSE 0)
               + SumFunction([i \in {j \in right : V[j].voter = a} |-> V[i].stake + slice[i]])]
    BY Zenon DEF settleDispute
  <2>2. right = R
    BY <1>2, Zenon DEF RightBallots
  <2>3. penalty = pool
    BY <1>2, <1>5, <2>2, Zenon
  <2>4. home[1] = party /\ home[2] = HonestBond(p, V)
    BY <1>2, <1>4, <1>6, Zenon
  <2> HIDE DEF right, penalty, home
  <2>5. slice = cut
    BY <2>2, <2>3 DEF PenaltyShares
  <2> HIDE DEF slice
  <2>6. rest = dust /\ to = first
    BY <2>2, <2>3, <2>4, <2>5, Zenon DEF Leftover
  <2> HIDE DEF rest, to
  <2>7. \A a : {j \in right : V[j].voter = a} = RightOf(V, a)
    BY <2>2 DEF RightOf
  <2>8. \A a : [i \in {j \in right : V[j].voter = a} |-> V[i].stake + slice[i]] = mine(a)
    BY <2>5, <2>7
  <2> HIDE DEF mine, first, dust, cut
  <2> QED
    BY <2>1, <2>4, <2>6, <2>8
<1>8. ASSUME NEW a \in Accounts
      PROVE  Transfers(p, V, a) = (IF a = party THEN HonestBond(p, V) ELSE 0) + (IF a = first THEN dust ELSE 0) + SumFunction(mine(a))
  <2> DEFINE C == RightOf(V, a)
             award == Award(pool, V)
             bonus == [i \in C |-> IF i = Min(R) THEN dust ELSE 0]
             base == mine(a)
  <2>1. /\ pool \in Nat /\ pool \in Int /\ HonestBond(p, V) \in Int
        /\ R \in SUBSET DOMAIN V /\ IsFiniteSet(R) /\ C = {i \in R : V[i].voter = a}
        /\ \A i \in R : V[i].stake \in Int
    BY PenaltyIsNat, BallotsAre DEF RightOf
  <2>2. \A i \in R : award[i] = V[i].stake + cut[i] + (IF i = Min(R) THEN dust ELSE 0) /\ cut[i] \in Int /\ dust \in Int
    BY <2>1, AwardIs, SharesFit
  <2>3. Transfers(p, V, a) = (IF a = party THEN HonestBond(p, V) + (IF R = {} THEN pool ELSE 0) ELSE 0) + SumFunctionOnSet(award, C)
    BY TransfersAre
  <2>4. R # {} => Min(R) \in R
    BY BallotsAre
  <2>5. IsFiniteSet(C) /\ C \in SUBSET R
    BY <2>1, FS_Subset
  <2>6. dust = pool - SumFunction(cut) /\ DOMAIN cut = R
    BY DEF Leftover, PenaltyShares
  <2>7. DOMAIN base = C /\ \A i \in C : base[i] = V[i].stake + cut[i]
    OBVIOUS
  <2> HIDE DEF R, cut, dust, party, pool, C, award, mine, base
  <2>8. \A i \in C : /\ base[i] \in Int /\ bonus[i] \in Int /\ award[i] = base[i] + bonus[i]
                     /\ (i # Min(R) => bonus[i] = 0) /\ (i = Min(R) => bonus[i] = dust)
    BY <2>1, <2>2, <2>5, <2>7
  <2> HIDE DEF bonus
  <2>9. SumFunctionOnSet(award, C) = SumFunctionOnSet(base, C) + SumFunctionOnSet(bonus, C)
    BY <2>5, <2>8, SumPointwise
  <2>10. SumFunctionOnSet(base, C) \in Int /\ SumFunction(base) = SumFunctionOnSet(base, C)
    BY <2>5, <2>7, <2>8, SumInt DEF SumFunction
  <2>11. CASE R = {}
    <3>1. C = {} /\ SumFunctionOnSet(award, C) = 0 /\ SumFunction(base) = 0
      BY <2>5, <2>10, <2>11, SumEmpty
    <3>2. dust = pool
      BY <2>1, <2>6, <2>11, SumEmpty DEF SumFunction
    <3>3. first = party
      BY <2>11
    <3> HIDE DEF first
    <3> QED
      BY <2>1, <2>3, <2>11, <3>1, <3>2, <3>3 DEF base
  <2>12. CASE R # {}
    <3>1. first = V[Min(R)].voter /\ Min(R) \in R
      BY <2>4, <2>12
    <3>2. (a = first) <=> Min(R) \in C
      BY <2>1, <3>1
    <3> HIDE DEF first
    <3>3. SumFunctionOnSet(bonus, C) = IF a = first THEN dust ELSE 0
      <4>1. CASE Min(R) \in C
        <5>1. dust \in Int
          BY <2>2, <2>12
        <5> QED
          BY <2>5, <2>8, <3>2, <4>1, <5>1, SumOfOne
      <4>2. CASE Min(R) \notin C
        BY <2>5, <2>8, <3>2, <4>2, SumZero
      <4> QED
        BY <4>1, <4>2
    <3>4. dust \in Int
      BY <2>2, <2>12
    <3>5. Transfers(p, V, a) = (IF a = party THEN HonestBond(p, V) ELSE 0)
                                 + (SumFunctionOnSet(base, C) + (IF a = first THEN dust ELSE 0))
      BY <2>1, <2>3, <2>9, <2>12, <3>3
    <3> QED
      BY <2>1, <2>10, <3>4, <3>5 DEF base
  <2> QED
    BY <2>11, <2>12
<1> HIDE DEF mine, first, dust, cut, party
<1> QED
  BY <1>7, <1>8

-----------------------------------------------------------------------------
(***************************************************************************)
(* The disputes' invariant, step by step                                   *)
(***************************************************************************)

LEMMA RecordIs ==
    ASSUME NEW p \in {[status |-> "none"]} \cup Filed
    PROVE  /\ p.status \in {"none", "proposed", "challenged", "finalized"}
           /\ p.status # "none" => p \in Filed /\ IsFiled(p) /\ p.bond \in Int /\ p.dispute_bond \in Int
                                   /\ p.began \in Nat /\ p.deadline \in Nat
<1>1. CASE p = [status |-> "none"]
  BY <1>1
<1>2. CASE p \in Filed
  BY <1>2 DEF Filed, IsFiled
<1> QED
  BY <1>1, <1>2

LEMMA HeldIsInt ==
    ASSUME NEW p \in {[status |-> "none"]} \cup Filed, NEW V \in Seq(Ballot)
    PROVE  Held(p, V) \in Int /\ StakeHeld(p, V) \in Int /\ StakeOf(V, DOMAIN V) \in Int /\ StakeOf(<<>>, DOMAIN <<>>) = 0
<1>1. StakeOf(V, DOMAIN V) \in Int
  BY StakeOfIs
<1>2. StakeOf(<<>>, DOMAIN <<>>) = 0
  <2>1. <<>> \in Seq(Ballot) /\ DOMAIN <<>> = {}
    OBVIOUS
  <2>2. StakeOf(<<>>, DOMAIN <<>>) = SumFunctionOnSet(Stakes(<<>>), DOMAIN <<>>)
    BY <2>1, StakeOfIs
  <2> QED
    BY <2>1, <2>2, SumEmpty
<1> QED
  BY <1>1, <1>2, RecordIs DEF Held, StakeHeld

\* It is enough to look at the dispute that moves, and at what the panel took in for it.
LEMMA OneDisputeMoves ==
    ASSUME PanelInv, PanelTypes', NEW m \in Disputes,
           \A d \in Disputes : d # m => proposal'[d] = proposal[d] /\ votes'[d] = votes[d] /\ payout'[d] = payout[d],
           DisputeFits(proposal'[m], votes'[m], payout'[m]),
           panel' = panel + (Held(proposal'[m], votes'[m]) - Held(proposal[m], votes[m]))
    PROVE  PanelInv'
<1>1. \A d \in Disputes : DisputeFits(proposal'[d], votes'[d], payout'[d])
  <2> SUFFICES ASSUME NEW d \in Disputes, d # m PROVE DisputeFits(proposal'[d], votes'[d], payout'[d])
    OBVIOUS
  <2>1. DisputeFits(proposal[d], votes[d], payout[d])
    BY DEF PanelInv
  <2> QED
    BY <2>1
<1> DEFINE before == [d \in Disputes |-> Held(proposal[d], votes[d])]
           after == [d \in Disputes |-> Held(proposal'[d], votes'[d])]
<1>2. \A d \in Disputes : Held(proposal[d], votes[d]) \in Int /\ Held(proposal'[d], votes'[d]) \in Int
  <2> SUFFICES ASSUME NEW d \in Disputes
               PROVE  Held(proposal[d], votes[d]) \in Int /\ Held(proposal'[d], votes'[d]) \in Int
    OBVIOUS
  <2>1. /\ proposal[d] \in {[status |-> "none"]} \cup Filed /\ votes[d] \in Seq(Ballot)
        /\ proposal'[d] \in {[status |-> "none"]} \cup Filed /\ votes'[d] \in Seq(Ballot)
    BY DEF PanelInv, PanelTypes
  <2> QED
    BY <2>1, HeldIsInt
<1>3. /\ DOMAIN before = Disputes /\ DOMAIN after = Disputes
      /\ \A d \in Disputes : before[d] \in Int /\ after[d] \in Int /\ (d # m => after[d] = before[d])
      /\ before[m] = Held(proposal[m], votes[m]) /\ after[m] = Held(proposal'[m], votes'[m])
  BY <1>2
<1>4. panel = SumFunction(before)
  BY DEF PanelInv
<1> HIDE DEF before, after
<1>5. SumFunction(after) = SumFunction(before) + (after[m] - before[m])
  BY <1>3, DisputesAreFinite, SumFunctionUpdate
<1>6. panel' = SumFunction(after)
  BY <1>3, <1>4, <1>5
<1> QED
  BY <1>1, <1>6, Zenon DEF PanelInv, after

LEMMA PanelInitInv == now = 0 /\ PanelInit => PanelInv
<1> SUFFICES ASSUME now = 0, PanelInit PROVE PanelInv
  OBVIOUS
<1>1. \A m \in Disputes : proposal[m] = [status |-> "none"] /\ votes[m] = <<>> /\ payout[m] = [a \in Accounts |-> 0]
  BY DEF PanelInit
<1>2. \A m \in Disputes : proposal[m].status = "none"
  BY <1>1
<1>3. PanelTypes
  BY DEF PanelInit, PanelTypes
<1>4. \A m \in Disputes : DisputeFits(proposal[m], votes[m], payout[m])
  BY <1>1, <1>2 DEF DisputeFits
<1>5. panel = SumFunction([m \in Disputes |-> Held(proposal[m], votes[m])])
  <2> DEFINE held == [m \in Disputes |-> Held(proposal[m], votes[m])]
  <2>1. DOMAIN held = Disputes /\ \A m \in Disputes : held[m] = 0
    BY <1>2 DEF Held, StakeHeld
  <2> HIDE DEF held
  <2>2. SumFunction(held) = 0
    BY <2>1, DisputesAreFinite, SumFunctionZero
  <2> QED
    BY <2>2 DEF PanelInit, held
<1> QED
  BY <1>3, <1>4, <1>5 DEF PanelInv

LEMMA PanelKept ==
    ASSUME PanelInv, UNCHANGED panelVars, now' = now \/ now' = now + 1
    PROVE  PanelInv'
  BY DEF panelVars, PanelInv, PanelTypes

LEMMA ProposeInv ==
    ASSUME PanelInv, NEW m \in Disputes, NEW a \in Accounts, NEW x \in Amounts, Propose(m, a, x)
    PROVE  PanelInv'
<1> DEFINE q == [status |-> "proposed", proposer |-> a, bond |-> x, challenger |-> a,
                 dispute_bond |-> 0, began |-> now, deadline |-> now + ChallengeWindow]
<1>1. /\ proposal[m].status = "none" /\ proposal' = [proposal EXCEPT ![m] = q]
      /\ panel' = panel + x /\ votes' = votes /\ payout' = payout /\ now' = now
  BY DEF Propose
<1>2. x \in Nat \ {0} /\ now \in Nat /\ now + ChallengeWindow \in Nat
  BY AmountsArePositive, WindowsAreTimes DEF PanelInv, PanelTypes
<1>3. q \in Filed
  BY <1>2 DEF Filed
<1>4. /\ q.status = "proposed" /\ q.dispute_bond = 0 /\ q.deadline = q.began + ChallengeWindow /\ q.bond = x
  OBVIOUS
<1> HIDE DEF q
<1>5. PanelTypes' /\ proposal'[m] = q /\ \A d \in Disputes : d # m => proposal'[d] = proposal[d]
  BY <1>1, <1>3 DEF PanelInv, PanelTypes
<1>6. votes[m] = <<>> /\ payout[m] = [b \in Accounts |-> 0]
  BY <1>1 DEF PanelInv, DisputeFits
<1>7. DisputeFits(proposal'[m], votes'[m], payout'[m])
  BY <1>1, <1>4, <1>5, <1>6 DEF DisputeFits
<1>8. Held(proposal'[m], votes'[m]) = x /\ Held(proposal[m], votes[m]) = 0
  <2>1. StakeOf(<<>>, DOMAIN <<>>) = 0
    <3>1. <<>> \in Seq(Ballot) /\ q \in {[status |-> "none"]} \cup Filed
      BY <1>3
    <3> QED
      BY <3>1, HeldIsInt
  <2>2. votes'[m] = <<>> /\ q.status # "none" /\ q.status # "finalized"
    BY <1>1, <1>4, <1>6
  <2>3. x + 0 + 0 = x
    BY <1>2
  <2> QED
    BY <1>1, <1>4, <1>5, <2>1, <2>2, <2>3 DEF Held, StakeHeld
<1>9. panel' = panel + (Held(proposal'[m], votes'[m]) - Held(proposal[m], votes[m]))
  BY <1>1, <1>2, <1>8
<1> QED
  BY <1>1, <1>5, <1>7, <1>9, OneDisputeMoves

LEMMA ChallengeInv ==
    ASSUME PanelInv, NEW m \in Disputes, NEW a \in Accounts, NEW x \in Amounts, Challenge(m, a, x)
    PROVE  PanelInv'
<1> DEFINE p == proposal[m]
           q == [p EXCEPT !.status = "challenged", !.challenger = a, !.dispute_bond = x, !.began = now,
                          !.deadline = now + VotingWindow]
<1>1. /\ p.status = "proposed" /\ proposal' = [proposal EXCEPT ![m] = q]
      /\ panel' = panel + x /\ votes' = votes /\ payout' = payout /\ now' = now
  BY DEF Challenge, MayChallenge
<1>2. x \in Nat \ {0} /\ now \in Nat /\ now + VotingWindow \in Nat
  BY AmountsArePositive, WindowsAreTimes DEF PanelInv, PanelTypes
<1>3. p \in Filed /\ p \in {[status |-> "none"]} \cup Filed /\ p.bond \in Int /\ votes[m] \in Seq(Ballot)
  <2>1. p \in {[status |-> "none"]} \cup Filed /\ votes[m] \in Seq(Ballot)
    BY DEF PanelInv, PanelTypes
  <2> QED
    BY <1>1, <2>1, RecordIs
<1>4. DisputeFits(p, votes[m], payout[m])
  BY DEF PanelInv
<1> HIDE DEF p
<1>5. /\ q \in Filed /\ q.status = "challenged" /\ q.dispute_bond = x /\ q.began = now /\ q.deadline = now + VotingWindow
      /\ q.bond = p.bond
  BY <1>2, <1>3 DEF Filed
<1> HIDE DEF q
<1>6. PanelTypes' /\ proposal'[m] = q /\ \A d \in Disputes : d # m => proposal'[d] = proposal[d]
  BY <1>1, <1>5 DEF PanelInv, PanelTypes
<1>7. p.dispute_bond = 0 /\ payout[m] = [b \in Accounts |-> 0]
  BY <1>1, <1>4 DEF DisputeFits
<1>8. DisputeFits(proposal'[m], votes'[m], payout'[m])
  BY <1>1, <1>2, <1>5, <1>6, <1>7 DEF DisputeFits
<1>9. Held(q, votes[m]) = p.bond + x + StakeOf(votes[m], DOMAIN votes[m])
  BY <1>5 DEF Held, StakeHeld
<1>10. Held(p, votes[m]) = p.bond + 0 + StakeOf(votes[m], DOMAIN votes[m])
  BY <1>1, <1>7 DEF Held, StakeHeld
<1>11. StakeOf(votes[m], DOMAIN votes[m]) \in Int
  BY <1>3, HeldIsInt
<1>12. panel' = panel + (Held(proposal'[m], votes'[m]) - Held(p, votes[m]))
  BY <1>1, <1>2, <1>3, <1>6, <1>9, <1>10, <1>11
<1> QED
  BY <1>1, <1>6, <1>8, <1>12, OneDisputeMoves DEF p

LEMMA VoteInv ==
    ASSUME PanelInv, NEW m \in Disputes, NEW a \in Accounts, NEW x \in Amounts, NEW side \in Sides, Vote(m, a, side, x)
    PROVE  PanelInv'
<1> DEFINE p == proposal[m]
           V == votes[m]
           b == [voter |-> a, side |-> side, stake |-> x]
           W == Append(V, b)
<1>1. /\ p.status = "challenged" /\ votes' = [votes EXCEPT ![m] = W]
      /\ panel' = panel + x /\ proposal' = proposal /\ payout' = payout /\ now' = now
  BY DEF Vote
<1>2. x \in Nat \ {0} /\ x \in Int
  BY AmountsArePositive
<1>3. p \in {[status |-> "none"]} \cup Filed /\ V \in Seq(Ballot) /\ DisputeFits(p, V, payout[m]) /\ b \in Ballot /\ b.stake = x
  BY <1>2 DEF PanelInv, PanelTypes, Ballot
<1>4. p.bond \in Int /\ p.dispute_bond \in Int
  BY <1>1, <1>3, RecordIs
<1> HIDE DEF p, V, b
<1>5. W \in Seq(Ballot) /\ DOMAIN W = DOMAIN V \cup {Len(V) + 1} /\ Len(V) + 1 \notin DOMAIN V
      /\ W[Len(V) + 1] = b /\ \A i \in DOMAIN V : W[i] = V[i]
  BY <1>3
<1> HIDE DEF W
<1>6. PanelTypes' /\ votes'[m] = W /\ \A d \in Disputes : d # m => votes'[d] = votes[d]
  BY <1>1, <1>5 DEF PanelInv, PanelTypes
<1>7. DisputeFits(p, W, payout[m])
  BY <1>1, <1>3 DEF DisputeFits
<1>8. StakeOf(W, DOMAIN W) = x + StakeOf(V, DOMAIN V) /\ StakeOf(V, DOMAIN V) \in Int
  <2> DEFINE last == Len(V) + 1
  <2>1. IsFiniteSet(DOMAIN V) /\ last \notin DOMAIN V /\ DOMAIN W = DOMAIN V \cup {last}
    BY <1>3, <1>5, BallotsAre
  <2>2. Stakes(W)[last] = x /\ \A i \in DOMAIN V : Stakes(W)[i] = Stakes(V)[i] /\ Stakes(W)[i] \in Int
    BY <1>3, <1>5, BallotsAre DEF Stakes
  <2> HIDE DEF last
  <2>3. SumFunctionOnSet(Stakes(W), DOMAIN V \cup {last}) = Stakes(W)[last] + SumFunctionOnSet(Stakes(W), DOMAIN V)
    BY <1>2, <2>1, <2>2, SumAdd
  <2>4. SumFunctionOnSet(Stakes(W), DOMAIN V) = SumFunctionOnSet(Stakes(V), DOMAIN V)
    BY <2>1, <2>2, SumEqual
  <2> QED
    BY <1>3, <1>5, <2>1, <2>2, <2>3, <2>4, StakeOfIs, HeldIsInt
<1>9. /\ Held(p, W) = p.bond + p.dispute_bond + StakeOf(W, DOMAIN W)
      /\ Held(p, V) = p.bond + p.dispute_bond + StakeOf(V, DOMAIN V)
  BY <1>1 DEF Held, StakeHeld
<1>10. panel' = panel + (Held(p, W) - Held(p, V))
  <2>1. Held(p, W) - Held(p, V) = x
    BY <1>2, <1>4, <1>8, <1>9
  <2> QED
    BY <1>1, <2>1
<1> QED
  BY <1>1, <1>6, <1>7, <1>10, OneDisputeMoves DEF p, V

\* A finalized dispute stays as it was filed, but for its status.
LEMMA FinalizedRecord ==
    ASSUME NEW p \in Filed
    PROVE  LET q == [p EXCEPT !.status = "finalized"]
           IN  /\ q \in Filed /\ q.status = "finalized" /\ q.proposer = p.proposer /\ q.challenger = p.challenger
               /\ q.bond = p.bond /\ q.dispute_bond = p.dispute_bond /\ q.deadline = p.deadline /\ q.began = p.began
  BY DEF Filed

LEMMA TransfersOfSame ==
    ASSUME NEW V \in Seq(Ballot), NEW p, NEW q, IsFiled(p), IsFiled(q), p.proposer = q.proposer,
           p.challenger = q.challenger, p.bond = q.bond, p.dispute_bond = q.dispute_bond
    PROVE  \A a : Transfers(p, V, a) = Transfers(q, V, a)
<1>1. HonestParty(p, V) = HonestParty(q, V) /\ HonestBond(p, V) = HonestBond(q, V)
  BY Zenon DEF HonestParty, HonestBond
<1>2. Penalty(p, V) = Penalty(q, V)
  BY <1>1, Zenon DEF Penalty
<1> QED
  BY <1>1, <1>2, TransfersAre

LEMMA FinalizeUnchallengedInv ==
    ASSUME PanelInv, NEW m \in Disputes, FinalizeUnchallenged(m)
    PROVE  PanelInv'
<1> DEFINE p == proposal[m]
           V == votes[m]
           q == [p EXCEPT !.status = "finalized"]
           out == [payout[m] EXCEPT ![p.proposer] = p.bond]
<1>1. /\ p.status = "proposed" /\ proposal' = [proposal EXCEPT ![m] = q] /\ payout' = [payout EXCEPT ![m] = out]
      /\ panel' = panel - p.bond /\ votes' = votes /\ now' = now
  BY DEF FinalizeUnchallenged
<1>2. p \in {[status |-> "none"]} \cup Filed /\ V \in Seq(Ballot) /\ DisputeFits(p, V, payout[m]) /\ DOMAIN payout = Disputes
  BY DEF PanelInv, PanelTypes
<1>3. p \in Filed /\ IsFiled(p) /\ p.bond \in Int
  BY <1>1, <1>2, RecordIs
<1>4. p.dispute_bond = 0 /\ V = <<>> /\ payout[m] = [b \in Accounts |-> 0]
  BY <1>1, <1>2 DEF DisputeFits
<1>5. q \in Filed /\ q.status = "finalized" /\ q.proposer = p.proposer /\ q.bond = p.bond /\ q.dispute_bond = 0
  BY <1>3, <1>4, FinalizedRecord
<1>6. out = [a \in Accounts |-> IF a = q.proposer THEN q.bond ELSE 0]
  BY <1>4, <1>5
<1> HIDE DEF p, V, q, out
<1>7. /\ PanelTypes' /\ proposal'[m] = q /\ votes'[m] = V /\ payout'[m] = out
      /\ \A d \in Disputes : d # m => proposal'[d] = proposal[d] /\ votes'[d] = votes[d] /\ payout'[d] = payout[d]
  BY <1>1, <1>2, <1>5 DEF PanelInv, PanelTypes, V
<1>8. DisputeFits(q, V, out)
  BY <1>4, <1>5, <1>6 DEF DisputeFits, PaidBy
<1>9. Held(q, V) = 0 /\ Held(p, V) = p.bond + 0 + 0
  <2>1. StakeOf(<<>>, DOMAIN <<>>) = 0
    BY <1>2, HeldIsInt
  <2> QED
    BY <1>1, <1>4, <1>5, <2>1 DEF Held, StakeHeld
<1>10. panel' = panel + (Held(q, V) - Held(p, V))
  <2>1. Held(q, V) - Held(p, V) = -p.bond
    BY <1>3, <1>9
  <2>2. panel \in Int
    <3> DEFINE held == [d \in Disputes |-> Held(proposal[d], votes[d])]
    <3>1. \A d \in Disputes : held[d] \in Int
      <4> SUFFICES ASSUME NEW d \in Disputes PROVE held[d] \in Int
        OBVIOUS
      <4>1. proposal[d] \in {[status |-> "none"]} \cup Filed /\ votes[d] \in Seq(Ballot)
        BY DEF PanelInv, PanelTypes
      <4> QED
        BY <4>1, HeldIsInt
    <3>2. panel = SumFunctionOnSet(held, Disputes)
      BY DEF PanelInv, SumFunction
    <3> HIDE DEF held
    <3> QED
      BY <3>1, <3>2, DisputesAreFinite, SumInt
  <2> QED
    BY <1>1, <1>3, <2>1, <2>2
<1> QED
  BY <1>7, <1>8, <1>10, OneDisputeMoves DEF p, V

LEMMA FinalizeChallengedInv ==
    ASSUME PanelInv, NEW m \in Disputes, FinalizeChallenged(m)
    PROVE  PanelInv'
<1> DEFINE p == proposal[m]
           V == votes[m]
           q == [p EXCEPT !.status = "finalized"]
           out == [a \in Accounts |-> Transfers(p, V, a)]
<1>0. DOMAIN payout = Disputes
  BY DEF PanelInv, PanelTypes
<1>1. /\ p.status = "challenged" /\ proposal' = [proposal EXCEPT ![m] = q] /\ payout' = [payout EXCEPT ![m] = out]
      /\ panel' = panel - SumFunction(payout'[m]) /\ votes' = votes /\ now' = now
  BY DEF FinalizeChallenged
<1>2. p \in {[status |-> "none"]} \cup Filed /\ V \in Seq(Ballot) /\ DisputeFits(p, V, payout[m]) /\ DOMAIN payout = Disputes
  BY DEF PanelInv, PanelTypes
<1>3. p \in Filed /\ IsFiled(p) /\ p.bond \in Int /\ p.dispute_bond \in Int
  BY <1>1, <1>2, RecordIs
<1>4. p.dispute_bond # 0
  BY <1>1, <1>2, <1>3 DEF DisputeFits
<1>5. /\ q \in Filed /\ q.status = "finalized" /\ q.proposer = p.proposer /\ q.challenger = p.challenger
      /\ q.bond = p.bond /\ q.dispute_bond = p.dispute_bond
  BY <1>3, FinalizedRecord
<1>a. IsFiled(q)
  BY <1>3, <1>5 DEF IsFiled
<1>b. SumFunction(out) = p.bond + p.dispute_bond + StakeOf(V, DOMAIN V)
  BY <1>2, <1>3, TransfersAddUp
<1> HIDE DEF p, V, q
<1>6. out = [a \in Accounts |-> Transfers(q, V, a)]
  BY <1>2, <1>3, <1>5, <1>a, TransfersOfSame
<1> HIDE DEF out
<1>7. /\ PanelTypes' /\ proposal'[m] = q /\ votes'[m] = V /\ payout'[m] = out
      /\ \A d \in Disputes : d # m => proposal'[d] = proposal[d] /\ votes'[d] = votes[d] /\ payout'[d] = payout[d]
  BY <1>0, <1>1, <1>2, <1>5 DEF PanelInv, PanelTypes, V
<1>8. DisputeFits(q, V, out)
  BY <1>4, <1>5, <1>6 DEF DisputeFits, PaidBy
<1>9. Held(q, V) = 0 /\ Held(p, V) = p.bond + p.dispute_bond + StakeOf(V, DOMAIN V)
  BY <1>1, <1>5 DEF Held, StakeHeld
<1>10. panel' = panel + (Held(q, V) - Held(p, V))
  <2>1. Held(p, V) \in Int /\ panel' = panel - Held(p, V)
    BY <1>1, <1>2, <1>7, <1>9, <1>b, HeldIsInt
  <2>2. Held(q, V) - Held(p, V) = -Held(p, V)
    BY <1>9, <2>1
  <2>3. panel \in Int
    <3> DEFINE held == [d \in Disputes |-> Held(proposal[d], votes[d])]
    <3>1. \A d \in Disputes : held[d] \in Int
      <4> SUFFICES ASSUME NEW d \in Disputes PROVE held[d] \in Int
        OBVIOUS
      <4>1. proposal[d] \in {[status |-> "none"]} \cup Filed /\ votes[d] \in Seq(Ballot)
        BY DEF PanelInv, PanelTypes
      <4> QED
        BY <4>1, HeldIsInt
    <3>2. panel = SumFunctionOnSet(held, Disputes)
      BY DEF PanelInv, SumFunction
    <3> HIDE DEF held
    <3> QED
      BY <3>1, <3>2, DisputesAreFinite, SumInt
  <2> QED
    BY <2>1, <2>2, <2>3
<1> QED
  BY <1>7, <1>8, <1>10, OneDisputeMoves DEF p, V

LEMMA PanelNextInv == PanelInv /\ [PanelNext]_<<now, panelVars>> => PanelInv'
<1> SUFFICES ASSUME PanelInv, [PanelNext]_<<now, panelVars>> PROVE PanelInv'
  OBVIOUS
<1>1. CASE PanelTick \/ UNCHANGED <<now, panelVars>>
  BY <1>1, PanelKept DEF PanelTick, Tick
<1>2. CASE \E m \in Disputes : FinalizeUnchallenged(m) \/ FinalizeChallenged(m)
  BY <1>2, FinalizeUnchallengedInv, FinalizeChallengedInv
<1>3. CASE \E m \in Disputes, a \in Accounts, x \in Amounts : Propose(m, a, x) \/ Challenge(m, a, x)
  BY <1>3, ProposeInv, ChallengeInv
<1>4. CASE \E m \in Disputes, a \in Accounts, x \in Amounts, side \in Sides : Vote(m, a, side, x)
  BY <1>4, VoteInv
<1> QED
  BY <1>1, <1>2, <1>3, <1>4 DEF PanelNext

LEMMA PanelInvariance == PanelSpec => []PanelInv
  BY PanelInitInv, PanelNextInv, PTL DEF PanelSpec

-----------------------------------------------------------------------------
(***************************************************************************)
(* What the invariant says of a settlement                                 *)
(***************************************************************************)

\* A dispute that is over has been paid out in full.
LEMMA FinalizedIsPaid ==
    ASSUME PanelInv, NEW m \in Disputes, proposal[m].status = "finalized"
    PROVE  /\ votes[m] \in Seq(Ballot) /\ proposal[m] \in Filed /\ IsFiled(proposal[m])
           /\ payout[m] = PaidBy(proposal[m], votes[m])
           /\ proposal[m].dispute_bond = 0 => votes[m] = <<>>
<1>1. /\ proposal[m] \in {[status |-> "none"]} \cup Filed /\ votes[m] \in Seq(Ballot)
      /\ DisputeFits(proposal[m], votes[m], payout[m])
  BY DEF PanelInv, PanelTypes
<1> QED
  BY <1>1, RecordIs DEF DisputeFits

LEMMA PanelInvConserves == PanelInv => DisputeConserved
<1> SUFFICES ASSUME PanelInv PROVE DisputeConserved
  OBVIOUS
<1>1. panel = SumFunction([m \in {d \in Disputes : proposal[d].status # "finalized"} |-> Staked(m)])
  <2> DEFINE T == {d \in Disputes : proposal[d].status # "finalized"}
             held == [d \in Disputes |-> Held(proposal[d], votes[d])]
             live == [m \in T |-> Staked(m)]
  <2>1. \A d \in Disputes : held[d] \in Int
    <3> SUFFICES ASSUME NEW d \in Disputes PROVE held[d] \in Int
      OBVIOUS
    <3>1. proposal[d] \in {[status |-> "none"]} \cup Filed /\ votes[d] \in Seq(Ballot)
      BY DEF PanelInv, PanelTypes
    <3> QED
      BY <3>1, HeldIsInt
  <2>2. /\ \A d \in Disputes : d \notin T => held[d] = 0
        /\ \A d \in T : held[d] = live[d]
    BY Zenon DEF Held, StakeHeld, Staked
  <2>3. panel = SumFunctionOnSet(held, Disputes) /\ SumFunction(live) = SumFunctionOnSet(live, T)
    BY DEF PanelInv, SumFunction
  <2>4. T \in SUBSET Disputes /\ IsFiniteSet(T)
    BY DisputesAreFinite, FS_Subset
  <2> HIDE DEF T, held, live
  <2>5. SumFunctionOnSet(held, Disputes) = SumFunctionOnSet(held, T)
    BY <2>1, <2>2, <2>4, DisputesAreFinite, SumOfSupport
  <2>6. SumFunctionOnSet(held, T) = SumFunctionOnSet(live, T)
    BY <2>1, <2>2, <2>4, SumEqual
  <2>7. panel = SumFunction(live)
    BY <2>3, <2>5, <2>6
  <2> QED
    BY <2>7 DEF live, T
<1>2. ASSUME NEW m \in Disputes, proposal[m].status = "finalized"
      PROVE  SumFunction(payout[m]) = Staked(m)
  <2> DEFINE p == proposal[m]
             V == votes[m]
             out == payout[m]
  <2>1. V \in Seq(Ballot) /\ IsFiled(p) /\ out = PaidBy(p, V) /\ (p.dispute_bond = 0 => V = <<>>) /\ p \in Filed
    BY <1>2, FinalizedIsPaid
  <2>2. Staked(m) = p.bond + p.dispute_bond + StakeOf(V, DOMAIN V)
    BY <1>2 DEF Staked
  <2> HIDE DEF p, V, out
  <2>3. CASE p.dispute_bond = 0
    <3>1. p.bond \in Int /\ p.proposer \in Accounts
      BY <2>1 DEF IsFiled
    <3>2. out = [a \in Accounts |-> IF a = p.proposer THEN p.bond ELSE 0]
      BY <2>1, <2>3 DEF PaidBy
    <3>3. DOMAIN out = Accounts /\ out[p.proposer] = p.bond /\ \A a \in Accounts : a # p.proposer => out[a] = 0
      BY <3>1, <3>2
    <3>4. SumFunctionOnSet(out, Accounts) = p.bond
      BY <3>1, <3>3, AccountsAreFinite, SumOfOne
    <3>5. StakeOf(V, DOMAIN V) = 0
      <4>1. p \in {[status |-> "none"]} \cup Filed
        BY <2>1
      <4> QED
        BY <2>1, <2>3, <4>1, HeldIsInt
    <3> QED
      BY <2>2, <2>3, <3>1, <3>3, <3>4, <3>5 DEF SumFunction, out
  <2>4. CASE p.dispute_bond # 0
    <3>1. out = [a \in Accounts |-> Transfers(p, V, a)]
      BY <2>1, <2>4 DEF PaidBy
    <3> QED
      BY <2>1, <2>2, <3>1, TransfersAddUp DEF out
  <2> QED
    BY <2>3, <2>4
<1> QED
  BY <1>1, <1>2 DEF DisputeConserved

\* What a has on the prevailing side, ballots and bond.
LEMMA StakedOnRight ==
    ASSUME NEW m, NEW a, votes[m] \in Seq(Ballot), IsFiled(proposal[m])
    PROVE  StakedOn(m, a, Prevailing(votes[m]))
             = StakeOf(votes[m], RightOf(votes[m], a))
               + (IF HonestParty(proposal[m], votes[m]) = a THEN HonestBond(proposal[m], votes[m]) ELSE 0)
<1> DEFINE V == votes[m]
           p == proposal[m]
           side == Prevailing(V)
           up == IF p.proposer = a THEN p.bond ELSE 0
           down == IF p.challenger = a THEN p.dispute_bond ELSE 0
<1>1. StakedOn(m, a, side)
        = StakeOf(V, RightOf(V, a)) + (IF side = "uphold" /\ p.proposer = a THEN p.bond ELSE 0)
          + (IF side = "overturn" /\ p.challenger = a THEN p.dispute_bond ELSE 0)
  BY DEF StakedOn, RightOf, RightBallots
<1>2. StakeOf(V, RightOf(V, a)) \in Int
  <2>1. RightOf(V, a) \in SUBSET DOMAIN V
    BY BallotsAre DEF RightOf
  <2> QED
    BY <2>1, StakeOfIs
<1>3. /\ Upheld(V) => side = "uphold" /\ HonestParty(p, V) = p.proposer /\ HonestBond(p, V) = p.bond
      /\ ~Upheld(V) => side = "overturn" /\ HonestParty(p, V) = p.challenger /\ HonestBond(p, V) = p.dispute_bond
      /\ p.bond \in Int /\ p.dispute_bond \in Int
  BY DEF Prevailing, HonestParty, HonestBond, IsFiled
<1> HIDE DEF p, V, side
<1>4. StakedOn(m, a, side) = StakeOf(V, RightOf(V, a)) + (IF HonestParty(p, V) = a THEN HonestBond(p, V) ELSE 0)
  <2>1. CASE Upheld(V)
    BY <1>1, <1>2, <1>3, <2>1
  <2>2. CASE ~Upheld(V)
    BY <1>1, <1>2, <1>3, <2>2
  <2> QED
    BY <2>1, <2>2
<1> QED
  BY <1>4 DEF p, V, side

LEMMA PanelInvMakesWhole == PanelInv => RightSideIsMadeWhole
<1> SUFFICES ASSUME PanelInv, NEW m \in Disputes, NEW a \in Accounts, proposal[m].status = "finalized"
             PROVE  /\ payout[m][a] >= StakedOn(m, a, Prevailing(votes[m]))
                    /\ StakedOn(m, a, Prevailing(votes[m])) = 0 => payout[m][a] = 0
  BY Zenon DEF RightSideIsMadeWhole, Prevailing
<1> DEFINE p == proposal[m]
           V == votes[m]
           on == StakedOn(m, a, Prevailing(V))
           C == RightOf(V, a)
           R == RightBallots(V)
           pool == Penalty(p, V)
           award == Award(pool, V)
<1>1. /\ V \in Seq(Ballot) /\ IsFiled(p) /\ payout[m] = PaidBy(p, V) /\ (p.dispute_bond = 0 => V = <<>>)
      /\ on = StakeOf(V, C) + (IF HonestParty(p, V) = a THEN HonestBond(p, V) ELSE 0)
  BY FinalizedIsPaid, StakedOnRight
<1>2. /\ C \in SUBSET R /\ R \in SUBSET DOMAIN V /\ C \in SUBSET DOMAIN V /\ IsFiniteSet(C)
      /\ \A i \in C : V[i].stake \in Int /\ V[i].stake > 0 /\ Stakes(V)[i] = V[i].stake
  <2>1. C \in SUBSET R /\ R \in SUBSET DOMAIN V /\ IsFiniteSet(R)
    BY <1>1, BallotsAre DEF RightOf
  <2>2. IsFiniteSet(C)
    BY <2>1, FS_Subset
  <2> QED
    BY <1>1, <2>1, <2>2, BallotsAre DEF Stakes
<1>3. StakeOf(V, C) = SumFunctionOnSet(Stakes(V), C) /\ StakeOf(V, C) \in Nat /\ StakeOf(V, C) \in Int
  BY <1>1, <1>2, StakeOfIs
<1>4. CASE p.dispute_bond = 0
  <2>1. V = <<>> /\ C = {} /\ StakeOf(V, C) = 0
    <3>1. V = <<>> /\ DOMAIN V = {}
      BY <1>1, <1>4
    <3>2. C = {}
      BY <1>2, <3>1
    <3> QED
      BY <1>3, <3>1, <3>2, SumEmpty
  <2>2. Upheld(V)
    <3>1. Ballots(V, "uphold") = {} /\ Ballots(V, "overturn") = {}
      BY <2>1 DEF Ballots
    <3>2. StakeOf(V, {}) \in Nat
      BY <1>1, StakeOfIs
    <3> QED
      BY <3>1, <3>2 DEF Upheld
  <2>3. HonestParty(p, V) = p.proposer /\ HonestBond(p, V) = p.bond /\ p.bond \in Int
    BY <1>1, <2>2 DEF HonestParty, HonestBond, IsFiled
  <2>4. payout[m][a] = IF a = p.proposer THEN p.bond ELSE 0
    BY <1>1, <1>4 DEF PaidBy
  <2>5. on = payout[m][a] /\ on \in Int
    <3>1. on = 0 + (IF p.proposer = a THEN p.bond ELSE 0)
      BY <1>1, <2>1, <2>3, Zenon
    <3> HIDE DEF p, V, C, on
    <3>2. CASE p.proposer = a
      BY <2>3, <2>4, <3>1, <3>2
    <3>3. CASE p.proposer # a
      BY <2>4, <3>1, <3>3
    <3> QED
      BY <3>2, <3>3
  <2> QED
    BY <2>5
<1>5. CASE p.dispute_bond # 0
  <2>1. payout[m][a] = Transfers(p, V, a)
    BY <1>1, <1>5 DEF PaidBy
  <2>2. Transfers(p, V, a) = (IF a = HonestParty(p, V) THEN HonestBond(p, V) + (IF R = {} THEN pool ELSE 0) ELSE 0) + SumFunctionOnSet(award, C)
    BY <1>1, TransfersAre
  <2>3. pool \in Nat /\ pool \in Int /\ HonestBond(p, V) \in Int /\ HonestBond(p, V) > 0
    <3>1. p.bond > 0 /\ p.bond \in Int /\ p.dispute_bond > 0 /\ p.dispute_bond \in Int
      BY <1>1, <1>5 DEF IsFiled
    <3>2. pool \in Nat /\ pool \in Int
      BY <1>1, PenaltyIsNat
    <3> QED
      BY <3>1, <3>2 DEF HonestBond
  <2>4. \A i \in C : award[i] \in Int /\ award[i] >= V[i].stake
    BY <1>1, <1>2, <2>3, AwardIs
  <2> HIDE DEF p, V, C, R, pool, award, on
  <2>5. SumFunctionOnSet(Stakes(V), C) <= SumFunctionOnSet(award, C) /\ SumFunctionOnSet(award, C) \in Int
    <3>1. \A i \in C : Stakes(V)[i] \in Int /\ award[i] \in Int /\ Stakes(V)[i] <= award[i]
      BY <1>2, <2>4
    <3> QED
      BY <1>2, <3>1, SumMonotonic, SumInt
  <2>6. payout[m][a] >= on
    BY <1>1, <1>3, <2>1, <2>2, <2>3, <2>5
  <2>7. ASSUME on = 0 PROVE payout[m][a] = 0
    <3>1. StakeOf(V, C) = 0 /\ a # HonestParty(p, V)
      BY <1>1, <1>3, <2>3, <2>7
    <3>2. C = {}
      <4> SUFFICES ASSUME NEW i \in C PROVE FALSE
        OBVIOUS
      <4>1. \A j \in C : Stakes(V)[j] \in Nat
        BY <1>2
      <4>2. Stakes(V)[i] <= SumFunctionOnSet(Stakes(V), C)
        BY <1>2, <4>1, SumAtLeastTerm
      <4> QED
        BY <1>2, <1>3, <3>1, <4>2
    <3>3. SumFunctionOnSet(award, C) = 0
      BY <3>2, SumEmpty
    <3> QED
      BY <2>1, <2>2, <3>1, <3>3
  <2> QED
    BY <2>6, <2>7 DEF on, V
<1> QED
  BY <1>4, <1>5

LEMMA PanelInvAgrees == PanelInv => OffChainDisputeAgrees
<1> SUFFICES ASSUME PanelInv, NEW m \in Disputes
             PROVE  /\ disputePhase(proposal[m]) = "challengeable" <=> MayChallenge(m)
                    /\ canFinalize(proposal[m]) <=> MayFinalize(m)
                    /\ proposal[m].status = "finalized" /\ proposal[m].dispute_bond > 0
                          => payout[m] = settleDispute(proposal[m], votes[m])
  BY Zenon DEF OffChainDisputeAgrees
<1> DEFINE p == proposal[m]
<1>1. /\ p \in {[status |-> "none"]} \cup Filed /\ now \in Nat
      /\ DisputeFits(p, votes[m], payout[m]) /\ votes[m] \in Seq(Ballot)
  BY DEF PanelInv, PanelTypes
<1>2. /\ p.status = "proposed" => p.deadline = p.began + ChallengeWindow
      /\ p.status = "challenged" => p.deadline = p.began + VotingWindow
      /\ p.status \in {"none", "proposed", "challenged", "finalized"}
  BY <1>1, RecordIs DEF DisputeFits
<1>3. /\ p.status = "proposed" => (now < p.deadline <=> ~(now >= p.began + ChallengeWindow))
      /\ p.status = "proposed" => (now >= p.deadline <=> now >= p.began + ChallengeWindow)
      /\ p.status = "challenged" => (now >= p.deadline <=> now >= p.began + VotingWindow)
  <2>1. p.status # "none" => p.began \in Nat /\ p.deadline \in Nat
    BY <1>1, RecordIs
  <2> HIDE DEF p
  <2> QED
    BY <1>1, <1>2, <2>1, WindowsAreTimes
<1>4. /\ disputePhase(p) = "challengeable" <=> MayChallenge(m)
      /\ canFinalize(p) <=> MayFinalize(m)
  <2>1. /\ MayChallenge(m) <=> p.status = "proposed" /\ now < p.deadline
        /\ MayFinalize(m) <=> p.status \in {"proposed", "challenged"} /\ now >= p.deadline
    BY DEF MayChallenge, MayFinalize
  <2> HIDE DEF p
  <2>2. CASE p.status = "none"
    BY <2>1, <2>2 DEF disputePhase, canFinalize
  <2>3. CASE p.status = "finalized"
    BY <2>1, <2>3 DEF disputePhase, canFinalize
  <2>4. CASE p.status = "challenged"
    BY <1>3, <2>1, <2>4 DEF disputePhase, canFinalize, Elapsed
  <2>5. CASE p.status = "proposed"
    BY <1>3, <2>1, <2>5 DEF disputePhase, canFinalize, Elapsed
  <2> QED
    BY <1>2, <2>2, <2>3, <2>4, <2>5
<1>5. ASSUME p.status = "finalized", p.dispute_bond > 0
      PROVE  payout[m] = settleDispute(p, votes[m])
  <2>1. IsFiled(p) /\ payout[m] = PaidBy(p, votes[m])
    BY <1>5, FinalizedIsPaid
  <2>2. p.dispute_bond # 0
    BY <1>5, <2>1 DEF IsFiled
  <2>3. payout[m] = [a \in Accounts |-> Transfers(p, votes[m], a)]
    BY <2>1, <2>2, Zenon DEF PaidBy
  <2> QED
    BY <1>1, <2>1, <2>3, SettleAgrees
<1> QED
  BY <1>4, <1>5

\* Whatever the bonds, the ballots and their order: the panel holds exactly what the disputes
\* it has not settled put in, and a settled one has paid out exactly what was put into it.
THEOREM DisputesConserve == PanelSpec => []DisputeConserved
  BY PanelInvariance, PanelInvConserves, PTL

\* Nobody on the side that prevailed loses, nobody only on the other side is paid.
THEOREM HonestSideIsWhole == PanelSpec => []RightSideIsMadeWhole
  BY PanelInvariance, PanelInvMakesWhole, PTL

\* At every moment the page's phase is the call the contract accepts, and the settlement
\* computed off chain is the one finalize made.
THEOREM OffChainAgrees == PanelSpec => []OffChainDisputeAgrees
  BY PanelInvariance, PanelInvAgrees, PTL

-----------------------------------------------------------------------------
(***************************************************************************)
(* THE COMMANDS OVER A FIELD MARKET                                        *)
(***************************************************************************)

FieldDriverNext ==
    \/ DeployField
    \/ \E P \in Plans : Republish(P)
    \/ StartFieldRegister
    \/ \E K \in SUBSET Keys : RegisterChunk(K)
    \/ FieldRegisterEnds
    \/ FieldFreeze
    \/ \E k \in Keys, evidence \in {"", Evidence} : ResolveField(k, evidence)
    \/ CommitEvidence
    \/ EvidenceFails
    \/ \E k \in Keys : StakeOnField(1, k, 1)
    \/ UNCHANGED <<fieldVars, fieldDriverVars>>

FieldDriverInv ==
    /\ keys \subseteq Keys /\ plan \in Plans /\ frozen \in BOOLEAN
    /\ FrozenFieldIsPublished
    /\ SettledFieldIsExplained

LEMMA FieldDriverInitInv == FieldInit /\ FieldDriverInit => FieldDriverInv
BY DEF FieldInit, MarketInit, FieldDriverInit, FieldDriverInv, FrozenFieldIsPublished, SettledFieldIsExplained

\* The whole plan, and no more of it than the field holds, is the field.
LEMMA MatchingFieldIsThePlan ==
    ASSUME keys \subseteq Keys, Matches
    PROVE  keys = plan
<1>1. IsFiniteSet(keys)
    BY KeysAreFinite, FS_Subset
<1> QED
    BY <1>1, FS_Subset DEF Matches

\* Commands that leave the contract alone, or only fill the field.
LEMMA FieldCommandsKeepInv ==
    ASSUME FieldDriverInv,
           \/ DeployField \/ StartFieldRegister \/ FieldRegisterEnds \/ EvidenceFails
           \/ \E P \in Plans : Republish(P)
           \/ UNCHANGED <<fieldVars, fieldDriverVars>>
    PROVE  FieldDriverInv'
<1>0. UNCHANGED <<keys, frozen, phase, bundle, sealed>>
    BY Zenon DEF DeployField, StartFieldRegister, FieldRegisterEnds, EvidenceFails, Republish,
                 fieldVars, marketVars, fieldDriverVars
<1>1. plan' \in Plans
    BY Zenon DEF FieldDriverInv, DeployField, StartFieldRegister, FieldRegisterEnds, EvidenceFails, Republish, fieldDriverVars
<1>2. \/ running'.cmd = running.cmd /\ unexplained' = unexplained
      \/ running.cmd # "evidence" /\ unexplained' = unexplained
      \/ unexplained' = TRUE
    BY DEF DeployField, StartFieldRegister, FieldRegisterEnds, EvidenceFails, Republish, Resting, fieldDriverVars
<1> QED
    BY <1>0, <1>1, <1>2 DEF FieldDriverInv, FrozenFieldIsPublished, SettledFieldIsExplained

LEMMA FieldStepsKeepInv == FieldDriverInv /\ FieldDriverNext => FieldDriverInv'
<1> SUFFICES ASSUME FieldDriverInv, FieldDriverNext PROVE FieldDriverInv'
    OBVIOUS
<1> USE DEF FieldDriverInv
<1>1. ASSUME NEW K \in SUBSET Keys, RegisterChunk(K) PROVE FieldDriverInv'
    <2>1. /\ ~frozen /\ keys' = keys \cup K /\ UNCHANGED <<frozen, phase, bundle, plan, sealed, unexplained>>
          /\ running.cmd = "register"
        BY <1>1 DEF RegisterChunk, RegisterCandidates, FieldOpen
    <2> QED
        BY <1>1, <2>1 DEF FrozenFieldIsPublished, SettledFieldIsExplained
<1>2. CASE FieldFreeze
    <2>1. /\ frozen' = TRUE /\ sealed' = plan /\ Matches
          /\ UNCHANGED <<keys, phase, bundle, plan, running, unexplained>>
        BY <1>2 DEF FieldFreeze, FreezeField, marketVars
    <2>2. keys = plan
        BY <2>1, MatchingFieldIsThePlan
    <2> QED
        BY <2>1, <2>2 DEF FrozenFieldIsPublished, SettledFieldIsExplained
<1>3. ASSUME NEW k \in Keys, NEW evidence \in {"", Evidence}, ResolveField(k, evidence) PROVE FieldDriverInv'
    <2>0. /\ running' = Resting \/ running' = [cmd |-> "evidence"]
          /\ unexplained' = (running' = Resting)
        BY <1>3, Zenon DEF ResolveField
    <2>1. UNCHANGED <<keys, frozen, plan, sealed>>
        BY <1>3 DEF ResolveField, FieldResolve, Resolve
    <2>2. running'.cmd = "evidence" \/ unexplained'
        <3>1. CASE running' = Resting
            BY <2>0, <3>1, Zenon
        <3>2. CASE running' # Resting
            <4>1. running' = [cmd |-> "evidence"]
                BY <2>0, <3>2, Zenon
            <4> QED
                BY <4>1
        <3> QED
            BY <3>1, <3>2
    <2> QED
        BY <2>1, <2>2, Zenon DEF FrozenFieldIsPublished, SettledFieldIsExplained
<1>4. CASE CommitEvidence
    <2>1. bundle' = Evidence /\ UNCHANGED <<keys, frozen, plan, sealed>>
        BY <1>4 DEF CommitEvidence, CommitBundle, marketVars
    <2> QED
        BY <2>1, EvidenceIsAHash DEF FrozenFieldIsPublished, SettledFieldIsExplained
<1>5. ASSUME NEW k \in Keys, StakeOnField(1, k, 1) PROVE FieldDriverInv'
    <2>1. UNCHANGED <<keys, frozen, phase, bundle, plan, sealed, running, unexplained>>
        BY <1>5 DEF StakeOnField, FieldBet, Bet, fieldDriverVars
    <2> QED
        BY <2>1 DEF FrozenFieldIsPublished, SettledFieldIsExplained
<1> QED
    BY <1>1, <1>2, <1>3, <1>4, <1>5, FieldCommandsKeepInv DEF FieldDriverNext

LEMMA FieldDriverInvHolds == FieldDriverInv => FrozenFieldIsPublished /\ SettledFieldIsExplained
BY DEF FieldDriverInv
=============================================================================
