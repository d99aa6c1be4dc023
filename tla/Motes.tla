-------------------------------- MODULE Motes --------------------------------
(***************************************************************************)
(* What every contract of the suite shares: the accounts that call it, the *)
(* values they may attach, and the block time.  Block time only moves      *)
(* forward; MaxTime is the bound of a check.                               *)
(***************************************************************************)
EXTENDS Integers, FiniteSets

CONSTANTS Accounts, Amounts, MaxTime

ASSUME AccountsAreFinite == IsFiniteSet(Accounts)
ASSUME AmountsArePositive == Amounts \subseteq Nat \ {0}

\* The empty string, where the code leaves a name, an address or a hash unset.
Unset == ""

BpsDenominator == 10000

VARIABLE now        \* block time, in steps as long as the shortest window

Tick == now < MaxTime /\ now' = now + 1
=============================================================================
