----------------------------- MODULE DisputePanel -----------------------------
(***************************************************************************)
(* contracts/src/dispute_panel.rs: a bonded proposal, a bonded challenge,  *)
(* a stake-weighted vote, and one settlement that pays everybody from one  *)
(* purse; with the two pure TypeScript modules that promise the same       *)
(* arithmetic and the same timing off chain (core/dispute-math.ts and      *)
(* core/dispute-window.ts).                                                *)
(***************************************************************************)
EXTENDS Motes, Sequences, FiniteSetsExt, Functions

CONSTANTS
    Disputes,           \* market ids
    ChallengeWindow, VotingWindow

ASSUME DisputesAreFinite == IsFiniteSet(Disputes)
ASSUME WindowsAreTimes == ChallengeWindow \in Nat /\ VotingWindow \in Nat

VARIABLES
    proposal,   \* proposal[m]: the record of m, status "none" while absent
    votes,      \* votes[m]: the ballots of m, in the order they were cast
    panel,      \* motes the contract holds
    payout      \* payout[m][a]: DisputePayout events of m for a, summed

panelVars == <<proposal, votes, panel, payout>>

Sides == {"uphold", "overturn"}

PanelInit ==
    /\ proposal = [m \in Disputes |-> [status |-> "none"]]
    /\ votes = [m \in Disputes |-> <<>>]
    /\ panel = 0
    /\ payout = [m \in Disputes |-> [a \in Accounts |-> 0]]

StakeOf(V, I) == SumFunction([i \in I |-> V[i].stake])
Ballots(V, side) == {i \in DOMAIN V : V[i].side = side}

Propose(m, a, bond) ==
    /\ proposal[m].status = "none"
    /\ proposal' = [proposal EXCEPT ![m] =
           [status |-> "proposed", proposer |-> a, bond |-> bond, challenger |-> a,
            dispute_bond |-> 0, began |-> now, deadline |-> now + ChallengeWindow]]
    /\ panel' = panel + bond
    /\ UNCHANGED <<votes, payout, now>>

\* When the contract lets anybody challenge, and when it lets anybody finalize.
MayChallenge(m) == proposal[m].status = "proposed" /\ now < proposal[m].deadline
MayFinalize(m) == proposal[m].status \in {"proposed", "challenged"} /\ now >= proposal[m].deadline

Challenge(m, a, bond) ==
    /\ MayChallenge(m)
    /\ proposal' = [proposal EXCEPT ![m].status = "challenged", ![m].challenger = a,
                                    ![m].dispute_bond = bond, ![m].began = now,
                                    ![m].deadline = now + VotingWindow]
    /\ panel' = panel + bond
    /\ UNCHANGED <<votes, payout, now>>

Vote(m, a, side, stake) ==
    /\ proposal[m].status = "challenged"
    /\ now < proposal[m].deadline
    /\ \A i \in DOMAIN votes[m] : votes[m][i].voter # a
    /\ votes' = [votes EXCEPT ![m] = Append(@, [voter |-> a, side |-> side, stake |-> stake])]
    /\ panel' = panel + stake
    /\ UNCHANGED <<proposal, payout, now>>

\* finalize before any challenge: the proposal stands and its bond goes home.
FinalizeUnchallenged(m) ==
    /\ MayFinalize(m)
    /\ proposal[m].status = "proposed"
    /\ proposal' = [proposal EXCEPT ![m].status = "finalized"]
    /\ payout' = [payout EXCEPT ![m][proposal[m].proposer] = proposal[m].bond]
    /\ panel' = panel - proposal[m].bond
    /\ UNCHANGED <<votes, now>>

\* Ties uphold.
Upheld(V) == StakeOf(V, Ballots(V, "overturn")) <= StakeOf(V, Ballots(V, "uphold"))

\* Operators named Faulty... are not part of the model: each is the definition after it with
\* one plausible mistake, and shows that some property below notices it.
FaultyBonder(p, upheld) == p.proposer
Bonder(p, upheld) == IF upheld THEN p.proposer ELSE p.challenger

FaultyTakesDust(i, right) == FALSE
TakesDust(i, right) == i = Min(right)

\* What finalize transfers to a, by who p says bonded and how V voted: the honest
\* bond, and either the whole penalty pool (nobody voted right) or stake, floored
\* share and, for the first right ballot, the dust.
Transfers(p, V, a) ==
    LET upheld == Upheld(V)
        right == Ballots(V, IF upheld THEN "uphold" ELSE "overturn")
        honest == IF upheld THEN p.bond ELSE p.dispute_bond
        forfeit == p.bond + p.dispute_bond - honest
        pool == forfeit + StakeOf(V, DOMAIN V \ right)
        total == StakeOf(V, right)
        share == [i \in right |-> (pool * V[i].stake) \div total]
        dust == pool - SumFunction(share)
        mine == {i \in right : V[i].voter = a}
    IN  (IF a = Bonder(p, upheld) THEN honest + (IF right = {} THEN pool ELSE 0) ELSE 0)
        + SumFunction([i \in mine |-> V[i].stake + share[i] + (IF TakesDust(i, right) THEN dust ELSE 0)])

FinalizeChallenged(m) ==
    /\ MayFinalize(m)
    /\ proposal[m].status = "challenged"
    /\ proposal' = [proposal EXCEPT ![m].status = "finalized"]
    /\ payout' = [payout EXCEPT ![m] = [a \in Accounts |-> Transfers(proposal[m], votes[m], a)]]
    /\ panel' = panel - SumFunction(payout'[m])
    /\ UNCHANGED <<votes, now>>

\* Off chain, settleDispute walks the ballots once and adds to a map of parties.
settleDispute(p, V) ==
    LET decision == IF StakeOf(V, Ballots(V, "overturn")) > StakeOf(V, Ballots(V, "uphold"))
                    THEN "overturn" ELSE "uphold"
        right == Ballots(V, decision)
        pool == StakeOf(V, DOMAIN V \ right)
                + (IF decision = "uphold" THEN p.dispute_bond ELSE p.bond)
        home == IF decision = "uphold" THEN <<p.proposer, p.bond>> ELSE <<p.challenger, p.dispute_bond>>
        cut == [i \in right |-> (pool * V[i].stake) \div StakeOf(V, right)]
        first == IF right = {} THEN home[1] ELSE V[Min(right)].voter
        left == pool - SumFunction(cut)
    IN  [a \in Accounts |-> (IF a = home[1] THEN home[2] ELSE 0) + (IF a = first THEN left ELSE 0)
           + SumFunction([i \in {j \in right : V[j].voter = a} |-> V[i].stake + cut[i]])]

FaultyElapsed(p, window) == now > p.began + window
Elapsed(p, window) == now >= p.began + window

\* Off chain, disputePhase answers from when the state began and how long it lasts.
disputePhase(p) ==
    CASE p.status = "none" -> "none"
      [] p.status = "finalized" -> "final"
      [] p.status = "challenged" -> IF Elapsed(p, VotingWindow) THEN "tallyable" ELSE "voting"
      [] p.status = "proposed" -> IF Elapsed(p, ChallengeWindow) THEN "finalizable" ELSE "challengeable"

canFinalize(p) == disputePhase(p) \in {"finalizable", "tallyable"}

PanelTick == Tick /\ UNCHANGED panelVars

PanelNext ==
    \/ PanelTick
    \/ \E m \in Disputes :
          \/ FinalizeUnchallenged(m)
          \/ FinalizeChallenged(m)
          \/ \E a \in Accounts, x \in Amounts :
                \/ Propose(m, a, x)
                \/ Challenge(m, a, x)
                \/ \E side \in Sides : Vote(m, a, side, x)

PanelSpec == (now = 0 /\ PanelInit) /\ [][PanelNext]_<<now, panelVars>>

-----------------------------------------------------------------------------
Staked(m) == IF proposal[m].status = "none" THEN 0
             ELSE proposal[m].bond + proposal[m].dispute_bond + StakeOf(votes[m], DOMAIN votes[m])

\* The panel holds exactly the bonds and stakes of the disputes it has not finalized,
\* and a finalized dispute has paid out exactly what was put into it: the floors and
\* the dust rule of finalize neither leave money behind nor borrow another dispute's.
DisputeConserved ==
    /\ panel = SumFunction([m \in {d \in Disputes : proposal[d].status # "finalized"} |-> Staked(m)])
    /\ \A m \in Disputes : proposal[m].status = "finalized" =>
          SumFunction(payout[m]) = Staked(m)

\* What a staked on one side of m, bond included.
StakedOn(m, a, side) ==
    StakeOf(votes[m], {i \in Ballots(votes[m], side) : votes[m][i].voter = a})
    + (IF side = "uphold" /\ proposal[m].proposer = a THEN proposal[m].bond ELSE 0)
    + (IF side = "overturn" /\ proposal[m].challenger = a THEN proposal[m].dispute_bond ELSE 0)

\* When a dispute is finalized nobody loses money staked on the side that prevailed,
\* and nobody who staked only on the other side gets anything back (finalize).
RightSideIsMadeWhole ==
    \A m \in Disputes, a \in Accounts : proposal[m].status = "finalized" =>
        LET side == IF Upheld(votes[m]) THEN "uphold" ELSE "overturn"
        IN  /\ payout[m][a] >= StakedOn(m, a, side)
            /\ StakedOn(m, a, side) = 0 => payout[m][a] = 0

\* Off chain and on chain agree at every moment: the phase a page shows is the call the
\* contract would accept, and settleDispute predicts every transfer of finalize.
OffChainDisputeAgrees ==
    \A m \in Disputes :
        LET p == proposal[m]
        IN  /\ disputePhase(p) = "challengeable" <=> MayChallenge(m)
            /\ canFinalize(p) <=> MayFinalize(m)
            /\ p.status = "finalized" /\ p.dispute_bond > 0 => payout[m] = settleDispute(p, votes[m])
=============================================================================
