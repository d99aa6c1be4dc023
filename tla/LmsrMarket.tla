------------------------------ MODULE LmsrMarket ------------------------------
(***************************************************************************)
(* The LMSR book contract (contracts/src/lmsr_market.rs): cost and prices  *)
(* in fixed point by range-reduced series, every division truncating.  The *)
(* scale WAD is a constant, 1e9 in the contract and smaller for TLC.  The  *)
(* contract's resolved flag guards trade and no entry point ever sets it.  *)
(***************************************************************************)
EXTENDS Integers, Sequences, FiniteSetsExt, Functions

CONSTANTS
    WAD, LN2,       \* the fixed-point scale, and ln 2 in it
    Liquidities,    \* values of b
    LmsrOutcomes,      \* outcome indices, 1..n
    Deltas,         \* share amounts a trade may move (negative sells)
    MaxShares       \* bound on |q|

VARIABLES b, q, collected     \* collected: the costs of all trades, summed

lmsrVars == <<b, q, collected>>

\* Rust's division: toward zero.
Div(x, y) == IF x >= 0 THEN x \div y ELSE -((-x) \div y)
SumOver(S, f(_)) == FoldSet(LAMBDA i, acc : acc + f(i), 0, S)

exp_neg_fp(x) ==
    LET halvings[r \in Int] == IF r < Div(-WAD, 2) THEN 1 + halvings[Div(r, 2)] ELSE 0
        halved[r \in Int] == IF r < Div(-WAD, 2) THEN halved[Div(r, 2)] ELSE r
        squared[n \in Nat, e \in Int] == IF n = 0 THEN e ELSE squared[n - 1, Div(e * e, WAD)]
        r1 == halved[x]
        r2 == Div(r1 * r1, WAD)
        r3 == Div(r2 * r1, WAD)
        r4 == Div(r3 * r1, WAD)
        r5 == Div(r4 * r1, WAD)
        taylor == WAD + r1 + Div(r2, 2) + Div(r3, 6) + Div(r4, 24) + Div(r5, 120)
    IN  IF x < -40 * WAD THEN 0 ELSE Max({0, squared[halvings[x], taylor]})

ln_fp(y) ==
    LET reduced[m \in Nat, k \in Nat] == IF m >= 2 * WAD THEN reduced[m \div 2, k + 1] ELSE <<m, k>>
        m == reduced[y, 0][1]
        z == Div((m - WAD) * WAD, m + WAD)
        z2 == Div(z * z, WAD)
        z3 == Div(z2 * z, WAD)
        z5 == Div(z3 * z2, WAD)
        z7 == Div(z5 * z2, WAD)
    IN  IF y <= WAD THEN 0
        ELSE reduced[y, 0][2] * LN2 + 2 * (z + Div(z3, 3) + Div(z5, 5) + Div(z7, 7))

exps(book) == [i \in LmsrOutcomes |-> exp_neg_fp(Div((book[i] - Max(Range(book))) * WAD, b))]

prices_wad(book) ==
    LET e == exps(book)
        sum == SumOver(LmsrOutcomes, LAMBDA i : e[i])
        floors == [i \in LmsrOutcomes |-> Div(e[i] * WAD, sum)]
        first == Min({i \in LmsrOutcomes : floors[i] = Max(Range(floors))})
    IN  [floors EXCEPT ![first] = @ + WAD - SumOver(LmsrOutcomes, LAMBDA i : floors[i])]

cost(book) ==
    Max(Range(book)) + Div(b * ln_fp(SumOver(LmsrOutcomes, LAMBDA i : exps(book)[i])), WAD)

cost_to_trade(i, delta) == cost([q EXCEPT ![i] = @ + delta]) - cost(q)
bounded_loss == Div(b * ln_fp(Cardinality(LmsrOutcomes) * WAD), WAD)

LmsrInit ==
    /\ b \in Liquidities
    /\ q = [i \in LmsrOutcomes |-> 0]
    /\ collected = 0

Trade(i, delta) ==
    /\ q[i] + delta \in -MaxShares .. MaxShares
    /\ collected' = collected + cost_to_trade(i, delta)
    /\ q' = [q EXCEPT ![i] = @ + delta]
    /\ UNCHANGED b

LmsrNext == \E i \in LmsrOutcomes, delta \in Deltas : Trade(i, delta)

-----------------------------------------------------------------------------
\* Whatever was bought and sold, the prices are a distribution, a purchase never makes its own
\* outcome cheaper, and whichever outcome wins the maker is out no more than bounded_loss -
\* in truncating fixed point, not in the reals.
LmsrBookIsSound ==
    /\ SumOver(LmsrOutcomes, LAMBDA i : prices_wad(q)[i]) = WAD
    /\ \A i \in LmsrOutcomes : prices_wad(q)[i] \in 0 .. WAD
    /\ \A i \in LmsrOutcomes, delta \in Deltas \cap Nat :
          prices_wad([q EXCEPT ![i] = @ + delta])[i] >= prices_wad(q)[i]
    /\ \A i \in LmsrOutcomes : q[i] - collected <= bounded_loss
=============================================================================
