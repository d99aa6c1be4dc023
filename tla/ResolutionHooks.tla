--------------------------- MODULE ResolutionHooks ---------------------------
(***************************************************************************)
(* contracts/src/resolution_hook.rs and hook_consumer.rs together: the     *)
(* operator dispatches a market's decided outcome once; consumers that     *)
(* registered are notified by event; an escrow bound to the market reads   *)
(* the outcome across contracts when anybody pushes its settlement.        *)
(***************************************************************************)
EXTENDS Motes, FiniteSetsExt

CONSTANTS HookedMarkets, Decisions

ASSUME HookedMarketsAreFinite == IsFiniteSet(HookedMarkets)

VARIABLES
    hooks,          \* hooks[m]: consumers registered for m
    decided,        \* decided[m]: the dispatched outcome, Unset before
    notified,       \* notified[m]: consumers a HookNotified event named
    escrow,         \* escrow[m]: terms of the escrow bound to m
    consumer,       \* motes EscrowConsumer holds
    received        \* received[m][a]: what the escrow of m transferred to a

hookVars == <<hooks, decided, notified, escrow, consumer, received>>

HookInit ==
    /\ hooks = [m \in HookedMarkets |-> {}]
    /\ decided = [m \in HookedMarkets |-> Unset]
    /\ notified = [m \in HookedMarkets |-> {}]
    /\ escrow = [m \in HookedMarkets |-> [state |-> "none"]]
    /\ consumer = 0
    /\ received = [m \in HookedMarkets |-> [a \in Accounts |-> 0]]

\* Permissionless, and accepted after the dispatch too.
RegisterHook(m, a) ==
    /\ a \notin hooks[m]
    /\ hooks' = [hooks EXCEPT ![m] = @ \cup {a}]
    /\ UNCHANGED <<decided, notified, escrow, consumer, received, now>>

\* Operators named Faulty... are not part of the model: each is the definition after it with
\* one plausible mistake, and shows that some property below notices it.
FaultyUndecided(m) == TRUE
Undecided(m) == decided[m] = Unset

Dispatch(m, outcome) ==
    /\ Undecided(m)
    /\ decided' = [decided EXCEPT ![m] = outcome]
    /\ notified' = [notified EXCEPT ![m] = hooks[m]]
    /\ UNCHANGED <<hooks, escrow, consumer, received, now>>

Fund(m, outcome, beneficiary, refund_to, amount) ==
    /\ escrow[m].state = "none"
    /\ escrow' = [escrow EXCEPT ![m] = [state |-> "funded", paying_outcome |-> outcome, amount |-> amount,
                                        beneficiary |-> beneficiary, refund_to |-> refund_to]]
    /\ consumer' = consumer + amount
    /\ UNCHANGED <<hooks, decided, notified, received, now>>

FaultyRecipient(e, outcome) == e.beneficiary
Recipient(e, outcome) == IF outcome = e.paying_outcome THEN e.beneficiary ELSE e.refund_to

\* Anybody may push it: the outcome is read from the hook, never from the caller.
SettleEscrow(m) ==
    /\ decided[m] # Unset
    /\ escrow[m].state = "funded"
    /\ escrow' = [escrow EXCEPT ![m].state = "settled"]
    /\ received' = [received EXCEPT ![m][Recipient(escrow[m], decided[m])] = @ + escrow[m].amount]
    /\ consumer' = consumer - escrow[m].amount
    /\ UNCHANGED <<hooks, decided, notified, now>>

HookNext ==
    \E m \in HookedMarkets :
       \/ SettleEscrow(m)
       \/ \E a \in Accounts : RegisterHook(m, a)
       \/ \E o \in Decisions :
             \/ Dispatch(m, o)
             \/ \E a, b \in Accounts, x \in Amounts : Fund(m, o, a, b, x)

HookSpec == (now = 0 /\ HookInit) /\ [][HookNext]_<<now, hookVars>>

-----------------------------------------------------------------------------
\* An escrow pays once, all of it, to the side the one dispatched outcome names, and nobody else.
EscrowPaysTheDecided ==
    \A m \in HookedMarkets, a \in Accounts :
        received[m][a] =
            IF /\ escrow[m].state = "settled"
               /\ a = IF decided[m] = escrow[m].paying_outcome THEN escrow[m].beneficiary ELSE escrow[m].refund_to
            THEN escrow[m].amount ELSE 0

\* ... and the consumer holds exactly the unsettled escrows: it needs no notification, so one
\* funded or registered after the dispatch settles like any other (settle reads the hook).
EscrowFollowsTheHook ==
    /\ EscrowPaysTheDecided
    /\ consumer = SumFunction([m \in {n \in HookedMarkets : escrow[n].state = "funded"} |-> escrow[m].amount])

\* What a consumer can rely on: the decided outcome never changes once dispatched, and the
\* consumers the dispatch notified are those registered before it, no later one ever.
VerdictIsFinal ==
    [][\A m \in HookedMarkets :
          /\ decided[m] # Unset => decided'[m] = decided[m] /\ notified'[m] = notified[m]
          /\ decided[m] = Unset /\ decided'[m] # Unset => notified'[m] = hooks[m]]_hookVars
=============================================================================
