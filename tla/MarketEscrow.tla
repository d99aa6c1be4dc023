----------------------------- MODULE MarketEscrow -----------------------------
(***************************************************************************)
(* What the vault promises, market by market: each market is an escrow of  *)
(* its own with its own purse.  While it is open bettors deposit; it is     *)
(* settled once, and at that moment everything it will ever pay is decided  *)
(* and covered by its own purse; afterwards each bettor is paid once, in    *)
(* any order.  The vault keeps one purse for all markets and computes each  *)
(* payout only when it is claimed.                                          *)
(***************************************************************************)
EXTENDS Integers, Functions

CONSTANTS Markets, Addresses

VARIABLES
    phase,      \* phase[m]: "absent", "open" or "settled"
    deposit,    \* deposit[m][b]: what b put in
    purse,      \* purse[m]: what the escrow of m holds
    due         \* due[m][b]: what b is still owed by a settled market

vars == <<phase, deposit, purse, due>>

Total(f) == SumFunctionOnSet(f, DOMAIN f)

Init ==
    /\ phase = [m \in Markets |-> "absent"]
    /\ deposit = [m \in Markets |-> [b \in Addresses |-> 0]]
    /\ purse = [m \in Markets |-> 0]
    /\ due = [m \in Markets |-> [b \in Addresses |-> 0]]

Open(m) ==
    /\ phase[m] = "absent"
    /\ phase' = [phase EXCEPT ![m] = "open"]
    /\ UNCHANGED <<deposit, purse, due>>

Deposit(m, b) ==
    /\ phase[m] = "open"
    /\ deposit'[m][b] > deposit[m][b]
    /\ deposit' = [deposit EXCEPT ![m][b] = deposit'[m][b]]
    /\ purse' = [purse EXCEPT ![m] = @ + (deposit'[m][b] - deposit[m][b])]
    /\ UNCHANGED <<phase, due>>

\* Pay the winners: nobody with a stake on the winning side gets back less than some
\* positive stake, the rest is the fee, and the purse covers the total.
SettleWithWinners(m) ==
    /\ phase[m] = "open"
    /\ \E b \in Addresses : due'[m][b] > 0
    /\ \A b \in Addresses : due'[m][b] > 0 => deposit[m][b] > 0
    /\ Total(due'[m]) <= purse'[m]
    /\ purse'[m] <= purse[m]
    /\ phase' = [phase EXCEPT ![m] = "settled"]
    /\ due' = [due EXCEPT ![m] = due'[m]]
    /\ purse' = [purse EXCEPT ![m] = purse'[m]]
    /\ UNCHANGED deposit

\* Refund everyone in full, without a fee.
SettleByRefund(m) ==
    /\ phase[m] = "open"
    /\ phase' = [phase EXCEPT ![m] = "settled"]
    /\ due' = [due EXCEPT ![m] = deposit[m]]
    /\ UNCHANGED <<deposit, purse>>

Pay(m, b) ==
    /\ phase[m] = "settled"
    /\ due[m][b] > 0
    /\ due[m][b] <= purse[m]
    /\ due' = [due EXCEPT ![m][b] = 0]
    /\ purse' = [purse EXCEPT ![m] = @ - due[m][b]]
    /\ UNCHANGED <<phase, deposit>>

Next ==
    \E m \in Markets :
        \/ Open(m)
        \/ \E b \in Addresses : Deposit(m, b) \/ Pay(m, b)
        \/ SettleWithWinners(m)
        \/ SettleByRefund(m)

Spec == Init /\ [][Next]_vars
=============================================================================
