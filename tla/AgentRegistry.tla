---------------------------- MODULE AgentRegistry ----------------------------
(***************************************************************************)
(* contracts/src/agent_registry.rs: an agent's identity costs a bond, the  *)
(* bond stays slashable through a cooldown after the agent stops, and an   *)
(* identity is taken once.                                                 *)
(***************************************************************************)
EXTENDS Motes, FiniteSetsExt

CONSTANTS Bonds, Cooldowns      \* what init and the admin may set

ASSUME BondsAndCooldownsAreNat == Bonds \subseteq Nat /\ Cooldowns \subseteq Nat

VARIABLES
    info,           \* info[a]: the registry's record of a
    min_bond, cooldown_ms,
    registry,       \* motes the contract holds
    posted,         \* history: what a attached to register
    returned,       \* history: what withdraw_bond sent back to a
    left            \* history: left[a], when a deactivated and the cooldown then in force

registryVars == <<info, min_bond, cooldown_ms, registry, posted, returned, left>>

AgentStatuses == {"none", "active", "deactivating", "withdrawn"}

RegistryInit ==
    /\ info = [a \in Accounts |-> [status |-> "none", bond |-> 0, slashed |-> 0, withdrawable_at |-> 0]]
    /\ min_bond \in Bonds /\ cooldown_ms \in Cooldowns
    /\ registry = 0
    /\ posted = [a \in Accounts |-> 0]
    /\ returned = [a \in Accounts |-> 0]
    /\ left = [a \in Accounts |-> [at |-> 0, cooldown |-> 0]]

Register(a, bond) ==
    /\ info[a].status = "none"
    /\ bond >= min_bond
    /\ info' = [info EXCEPT ![a] = [status |-> "active", bond |-> bond, slashed |-> 0, withdrawable_at |-> 0]]
    /\ registry' = registry + bond
    /\ posted' = [posted EXCEPT ![a] = bond]
    /\ UNCHANGED <<min_bond, cooldown_ms, returned, left, now>>

\* The bond is not returned here: it stays at risk until withdrawable_at.
Deactivate(a) ==
    /\ info[a].status = "active"
    /\ info' = [info EXCEPT ![a].status = "deactivating", ![a].withdrawable_at = now + cooldown_ms]
    /\ left' = [left EXCEPT ![a] = [at |-> now, cooldown |-> cooldown_ms]]
    /\ UNCHANGED <<min_bond, cooldown_ms, registry, posted, returned, now>>

\* Operators named Faulty... are not part of the model: each is the definition after it with
\* one plausible mistake, and shows that some property below notices it.
FaultyCooledDown(a) == now >= left[a].at + cooldown_ms
CooledDown(a) == now >= info[a].withdrawable_at

WithdrawBond(a) ==
    /\ info[a].status = "deactivating"
    /\ CooledDown(a)
    /\ info[a].bond # 0
    /\ info' = [info EXCEPT ![a].bond = 0, ![a].status = "withdrawn"]
    /\ registry' = registry - info[a].bond
    /\ returned' = [returned EXCEPT ![a] = @ + info[a].bond]
    /\ UNCHANGED <<min_bond, cooldown_ms, posted, left, now>>

FaultyTakeFrom(record, amount) == [record EXCEPT !.slashed = @ + amount]
TakeFrom(record, amount) == [record EXCEPT !.bond = @ - amount, !.slashed = @ + amount]

\* The admin may slash in any status; the money goes to the treasury.
Slash(a, amount) ==
    /\ info[a].status # "none"
    /\ amount # 0 /\ amount <= info[a].bond
    /\ info' = [info EXCEPT ![a] = TakeFrom(@, amount)]
    /\ registry' = registry - amount
    /\ UNCHANGED <<min_bond, cooldown_ms, posted, returned, left, now>>

SetMinBond(b) ==
    /\ min_bond' = b
    /\ UNCHANGED <<info, cooldown_ms, registry, posted, returned, left, now>>

SetCooldown(c) ==
    /\ cooldown_ms' = c
    /\ UNCHANGED <<info, min_bond, registry, posted, returned, left, now>>

RegistryTick == Tick /\ UNCHANGED registryVars

RegistryNext ==
    \/ RegistryTick
    \/ \E b \in Bonds : SetMinBond(b)
    \/ \E c \in Cooldowns : SetCooldown(c)
    \/ \E a \in Accounts :
          \/ Deactivate(a)
          \/ WithdrawBond(a)
          \/ \E x \in Amounts \cup {0} : Register(a, x) \/ Slash(a, x)

RegistrySpec == (now = 0 /\ RegistryInit) /\ [][RegistryNext]_<<now, registryVars>>

-----------------------------------------------------------------------------
RegistryTypeOK ==
    /\ info \in [Accounts -> [status : AgentStatuses, bond : Nat, slashed : Nat, withdrawable_at : Nat]]
    /\ min_bond \in Nat /\ cooldown_ms \in Nat
    /\ registry \in Int
    /\ posted \in [Accounts -> Nat] /\ returned \in [Accounts -> Nat]
    /\ left \in [Accounts -> [at : Nat, cooldown : Nat]]

\* What one agent posted went nowhere but there.
BondsConserved == \A a \in Accounts : posted[a] = info[a].bond + info[a].slashed + returned[a]

\* Every mote an agent posted is its bond, was slashed to the treasury, or was handed
\* back - once - and the contract holds exactly the bonds (register, slash, withdraw_bond).
EveryBondAccounted ==
    /\ BondsConserved
    /\ registry = SumFunction([a \in Accounts |-> info[a].bond])

\* No track-record launder (the promise at deactivate): money goes back to an agent only
\* once the cooldown in force when it stopped has run out, whatever the admin set since,
\* and an agent that stopped is never active again and never sheds what was slashed.
NoLaunder ==
    [][\A a \in Accounts :
          /\ returned'[a] # returned[a] => info[a].status = "deactivating"
                                           /\ now >= left[a].at + left[a].cooldown
          /\ info[a].status \in {"deactivating", "withdrawn"} => info'[a].status \in {info[a].status, "withdrawn"}
          /\ info'[a].slashed >= info[a].slashed]_<<now, registryVars>>
=============================================================================
