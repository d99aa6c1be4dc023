----------------------------- MODULE ChainBoards -----------------------------
(***************************************************************************)
(* The boards folded from the chain: the deploys of the contracts bets go  *)
(* to, as CSPR.cloud lists them, are read page by page (deploy-events.ts), *)
(* decoded, sorted and folded into markets (indexer.ts), agents' records   *)
(* (agent-record.ts, calibration.ts), seasons, wash signals and headline   *)
(* numbers.  `escrowed' is the vault's own account of the same calls, and  *)
(* the reference the boards are held against.  A block is one step of      *)
(* `now', and its height is its timestamp.                                 *)
(***************************************************************************)
EXTENDS Motes, Sequences, SequencesExt

CONSTANTS
    BoardMarkets, Bettors, BoardKeys, Oracle,
    BoardFeeBps,
    PageSize, MaxPages, Limit,      \* rows of a page, pages of a contract, events of a fold
    SeasonLength, MinSettled,       \* blocks of a season; SEASON_MIN_SETTLED
    BurstWindow, MinOccurrences,    \* BURST_WINDOW_MS in blocks; PAIRED_MIN_OCCURRENCES
    MaxCalls                        \* bound: calls of one behaviour

ASSUME ReadsAreBounded == {PageSize, MaxPages, Limit, SeasonLength} \subseteq Nat \ {0}

VARIABLES
    deploys,        \* the rows of the service, in the order the calls ran
    escrowed        \* market -> what the vault did with them

boardVars == <<deploys, escrowed>>

NoKey == "no outcome"
Packages == {"v1", "vault"}
Unbacked == [a \in Bettors |-> [k \in BoardKeys |-> 0]]
Unmade == [state |-> "none", stakes |-> Unbacked, pool |-> [k \in BoardKeys |-> 0], winner |-> NoKey, by |-> "", claimed |-> {}]

Total(m) == MapThenSumSet(LAMBDA k : m.pool[k], BoardKeys)
StakedBy(m, a) == MapThenSumSet(LAMBDA k : m.stakes[a][k], BoardKeys)
Settled(m) == m.state \in {"resolved", "voided"}

\* The price of an outcome, in thousandths; an empty book has none.
impliedProbability(m, k) == IF Total(m) = 0 THEN 500 ELSE (1000 * m.pool[k]) \div Total(m)

-----------------------------------------------------------------------------
\* The chain: a call is a row whether it was executed or reverted; the hashes of a block's
\* rows order them in any way.
BoardsInit ==
    /\ deploys = << >>
    /\ escrowed = [m \in BoardMarkets |-> Unmade]

\* bound: one row is odd - the boards do not fold it, or its hash is before its block's.
Odd(row) == ~row.ok \/ row.market = NoKey \/ row.hash < 0

Called(package, entry, m, a, k, x, ok) == LET n == Len(deploys) + 1 IN
    /\ Len(deploys) < MaxCalls
    /\ \E hash \in {n, -n} :
          /\ hash < 0 => n > 1 /\ deploys[n - 1].block = now
          /\ deploys' = Append(deploys, [package |-> package, entry |-> entry, market |-> m, by |-> a,
                                         key |-> k, amount |-> x, block |-> now, hash |-> hash, ok |-> ok,
                                         accepted |-> IF entry = "bet" /\ m # NoKey
                                                      THEN impliedProbability(escrowed[m], k) ELSE 0])
          /\ Odd(deploys'[n]) => \A i \in DOMAIN deploys : ~Odd(deploys[i])
    /\ UNCHANGED now

CreateCall(m) == LET ok == escrowed[m].state = "none" IN
    /\ Called("vault", "create_market", m, "", NoKey, 0, ok)
    /\ escrowed' = IF ok THEN [escrowed EXCEPT ![m].state = "open"] ELSE escrowed

BetCall(m, a, k, x) == LET ok == escrowed[m].state = "open" IN
    /\ Called("vault", "bet", m, a, k, x, ok)
    /\ escrowed' = IF ok THEN [escrowed EXCEPT ![m].stakes[a][k] = @ + x, ![m].pool[k] = @ + x] ELSE escrowed

\* A market whose winning outcome nobody backed is voided by `resolve' itself.
ResolveCall(m, k) == LET ok == escrowed[m].state = "open" IN
    /\ Called("vault", "resolve", m, Oracle, k, 0, ok)
    /\ escrowed' = IF ~ok THEN escrowed
                   ELSE IF escrowed[m].pool[k] = 0
                   THEN [escrowed EXCEPT ![m].state = "voided", ![m].by = Oracle]
                   ELSE [escrowed EXCEPT ![m].state = "resolved", ![m].winner = k, ![m].by = Oracle]

VoidCall(m) == LET ok == escrowed[m].state = "open" IN
    /\ Called("vault", "void", m, Oracle, NoKey, 0, ok)
    /\ escrowed' = IF ok THEN [escrowed EXCEPT ![m].state = "voided", ![m].by = Oracle] ELSE escrowed

\* What the vault pays a of a settled market.
VaultPays(m, a) ==
    LET losing == Total(m) - m.pool[m.winner]
        shared == losing - (losing * BoardFeeBps) \div 10000
    IN  IF m.state = "voided" THEN StakedBy(m, a)
        ELSE IF m.stakes[a][m.winner] = 0 THEN 0
        ELSE m.stakes[a][m.winner] + (m.stakes[a][m.winner] * shared) \div m.pool[m.winner]

ClaimCall(m, a) ==
    LET ok == Settled(escrowed[m]) /\ a \notin escrowed[m].claimed /\ VaultPays(escrowed[m], a) > 0 IN
    /\ Called("vault", "claim", m, a, NoKey, 0, ok)
    /\ escrowed' = IF ok THEN [escrowed EXCEPT ![m].claimed = @ \cup {a}] ELSE escrowed

\* Calls the boards do not fold: an admin's, and a bet on a per-market v1 package, whose
\* `bet' takes no market id.
AdminCall == Called("vault", "approve_oracle", NoKey, "", NoKey, 0, TRUE) /\ UNCHANGED escrowed
V1BetCall(a, k, x) == Called("v1", "bet", NoKey, a, k, x, TRUE) /\ UNCHANGED escrowed

-----------------------------------------------------------------------------
\* Reading.  A read says how many pages of the vault the service answers before it fails
\* (a page that fails looks empty, and ends the walk), whether it serves the entry-point
\* table stored calls are decoded with, and from which block to fold.
\* Bound: at most one of the three is short.
Reads == [served : 0..MaxPages, table : {TRUE}, from : {0}]
            \cup {[served |-> MaxPages, table |-> FALSE, from |-> 0], [served |-> MaxPages, table |-> TRUE, from |-> 1]}

EntryPointKinds ==
    [create_market |-> "market_created", bet |-> "bet_placed", resolve |-> "market_resolved",
     void |-> "market_resolved", claim |-> "payout_claimed"]
StoredCalls == {"resolve", "void", "claim"}

CeilDiv(n, d) == (n + d - 1) \div d
perContract == CeilDiv(Limit, Cardinality(Packages))

\* The raw rows of a contract, newest first; a short page is the last.
FaultyFetchRaw(p, served) ==
    LET rows == SelectSeq(Reverse(deploys), LAMBDA row : row.package = p)
        short == {i \in 1..MaxPages : \E row \in Range(SubSeq(rows, PageSize * (i - 1) + 1,
                                        Min({Len(rows), PageSize * i}))) : ~row.ok}
        pages == Min({served, MaxPages, CeilDiv(perContract, PageSize)} \cup short)
    IN  SubSeq(rows, 1, Min({Len(rows), PageSize * pages}))
fetchRawContract(p, served) ==
    LET rows == SelectSeq(Reverse(deploys), LAMBDA row : row.package = p)
        pages == Min({served, MaxPages, CeilDiv(perContract, PageSize)})
    IN  SubSeq(rows, 1, Min({Len(rows), PageSize * pages}))

Decodable(row, table) ==
    row.ok /\ row.entry \in DOMAIN EntryPointKinds /\ (row.entry \in StoredCalls => table) /\ row.market # NoKey

decodeDeployEvent(row) ==
    [kind |-> EntryPointKinds[row.entry], market |-> row.market, by |-> row.by, key |-> row.key,
     amount |-> row.amount, voided |-> row.key = NoKey, block |-> row.block, hash |-> row.hash]

compareEvents(d, e) == d.block < e.block \/ (d.block = e.block /\ d.hash < e.hash)

\* The oldest Limit events of what was read.
Fetch(read) ==
    LET rows == fetchRawContract("v1", MaxPages) \o fetchRawContract("vault", read.served)
        usable == SelectSeq(rows, LAMBDA row : Decodable(row, read.table))
        sorted == SortSeq([i \in DOMAIN usable |-> decodeDeployEvent(usable[i])], compareEvents)
        wanted == SelectSeq(sorted, LAMBDA e : e.block >= read.from)
    IN  SubSeq(wanted, 1, Min({Len(wanted), Limit}))

\* The whole history was read.
Complete(read) ==
    /\ read.table /\ read.from = 0 /\ Len(deploys) <= Limit
    /\ Len(SelectSeq(deploys, LAMBDA row : row.package = "vault"))
          <= PageSize * Min({read.served, CeilDiv(perContract, PageSize)})
\* What the reads see of the chain.
Sights == {[events |-> Fetch(read), whole |-> Complete(read)] : read \in Reads}
Whole == {sight.events : sight \in {s \in Sights : s.whole}}

-----------------------------------------------------------------------------
\* Folding.  A fold keeps the markets, the bets with the price each took before its stake
\* landed, and what it had to skip.
Staking(m, e) == [m EXCEPT !.stakes[e.by][e.key] = @ + e.amount, !.pool[e.key] = @ + e.amount]

OnMarket(m, e) ==
    CASE e.kind = "bet_placed" /\ m.state = "open" -> Staking(m, e)
      [] e.kind = "market_resolved" /\ m.state = "open" ->
            [m EXCEPT !.state = IF e.voided THEN "voided" ELSE "resolved", !.winner = e.key, !.by = e.by]
      [] e.kind = "payout_claimed" -> [m EXCEPT !.claimed = @ \cup {e.by}]
      [] OTHER -> m

FaultyPriceTaken(m, e) == impliedProbability(OnMarket(m, e), e.key)
PriceTaken(m, e) == impliedProbability(m, e.key)

Folded(state, e) ==
    LET m == state.markets[e.market]
        late == e.kind = "bet_placed" /\ m.state # "open"
    IN  IF e.kind = "market_created"
        THEN IF m.state = "none" THEN [state EXCEPT !.markets[e.market].state = "open"] ELSE state
        ELSE IF m.state = "none" THEN [state EXCEPT !.skipped = @ \cup {e}]
        ELSE [markets |-> [state.markets EXCEPT ![e.market] = OnMarket(m, e)],
              skipped |-> IF late THEN state.skipped \cup {e} ELSE state.skipped,
              bets |-> IF e.kind # "bet_placed" \/ late THEN state.bets
                       ELSE Append(state.bets, [by |-> e.by, market |-> e.market, key |-> e.key,
                                      amount |-> e.amount, at |-> e.block, hash |-> e.hash,
                                      forecast |-> PriceTaken(m, e)])]

indexEvents(events) ==
    FoldLeft(Folded, [markets |-> [m \in BoardMarkets |-> Unmade], skipped |-> {}, bets |-> << >>], events)

\* The settlement manifest of an indexed market: what each bettor is due.
manifestFor(m) ==
    LET winning == IF m.state = "voided" THEN 0 ELSE m.pool[m.winner]
        shared == LET losing == Total(m) - winning IN losing - (losing * BoardFeeBps) \div 10000
    IN  [a \in Bettors |->
            IF winning = 0 THEN StakedBy(m, a)
            ELSE m.stakes[a][m.winner] + (m.stakes[a][m.winner] * shared) \div winning]

\* What a record says settlement pays: a winner nobody backed pays nobody.
payoutFor(m, a) ==
    LET losing == Total(m) - m.pool[m.winner] IN
    CASE m.state = "voided" -> StakedBy(m, a)
      [] m.state = "resolved" /\ m.stakes[a][m.winner] = 0 -> 0
      [] OTHER -> m.stakes[a][m.winner] + ((losing - (losing * BoardFeeBps) \div 10000)
                                             * m.stakes[a][m.winner]) \div m.pool[m.winner]

-----------------------------------------------------------------------------
\* The boards.  Probabilities are in thousandths.
Sum(S(_), seq) == FoldLeft(LAMBDA sum, b : sum + S(b), 0, seq)
Square(n) == n * n

\* An agent's record: a market it bet on several times is settled once, and a void is no
\* forecast.
recordOf(state, a) ==
    LET bets == SelectSeq(state.bets, LAMBDA b : b.by = a)
        in(m) == \E i \in DOMAIN bets : bets[i].market = m
        settled == {m \in BoardMarkets : in(m) /\ Settled(state.markets[m])}
        samples == SelectSeq(bets, LAMBDA b : state.markets[b.market].state = "resolved")
        wrong(b) == Square(b.forecast - (IF state.markets[b.market].winner = b.key THEN 1000 ELSE 0))
    IN  [bets |-> Len(bets),
         volume |-> Sum(LAMBDA b : b.amount, bets),
         staked |-> MapThenSumSet(LAMBDA m : StakedBy(state.markets[m], a), settled),
         returned |-> MapThenSumSet(LAMBDA m : payoutFor(state.markets[m], a), settled),
         wins |-> Cardinality({m \in settled :
                     payoutFor(state.markets[m], a) > StakedBy(state.markets[m], a)}),
         sampleCount |-> Len(samples),
         brier |-> IF samples = << >> THEN 0 ELSE Sum(wrong, samples) \div Len(samples)]

buildAgentRecords(state) ==
    [a \in {x \in Bettors : \E i \in DOMAIN state.bets : state.bets[i].by = x} |-> recordOf(state, a)]

\* The PnL of the leaderboard, through the manifests and not the bets, for whoever bet.
computeAgentLeaderboard(state) ==
    LET entries == {m \in BoardMarkets : Settled(state.markets[m])} IN
    [a \in Bettors |->
        MapThenSumSet(LAMBDA m : manifestFor(state.markets[m])[a] - StakedBy(state.markets[m], a), entries)]

\* Seasons are windows [start, end) of the timestamps; creations are carried into each.
seasonAt(at) == at \div SeasonLength
FaultyEventsInSeason(events, i) ==
    SelectSeq(events, LAMBDA e : e.kind = "market_created" \/ e.block \in SeasonLength * i .. SeasonLength * (i + 1))
eventsInSeason(events, i) ==
    SelectSeq(events, LAMBDA e : e.kind = "market_created" \/ seasonAt(e.block) = i)

\* The first of the agents that settled enough forecasts, by calibration and then PnL.
seasonWinner(records) ==
    LET eligible == {a \in DOMAIN records : records[a].sampleCount >= MinSettled}
        pnl(a) == records[a].returned - records[a].staked
    IN  {a \in eligible : \A o \in eligible :
            records[a].brier < records[o].brier
                \/ (records[a].brier = records[o].brier /\ pnl(a) >= pnl(o))}

\* Wash signals are read off the bets alone.
collectBets(events) == SelectSeq(events, LAMBDA e : e.kind = "bet_placed")
OnKey(bets, a, m, k) ==
    Sum(LAMBDA b : b.amount, SelectSeq(bets, LAMBDA b : b.by = a /\ b.market = m /\ b.key = k))
In(bets, a, m) == MapThenSumSet(LAMBDA k : OnKey(bets, a, m, k), BoardKeys)

selfCrossing(bets) ==
    {p \in Bettors \X BoardMarkets : \E k, l \in BoardKeys :
        LET more == OnKey(bets, p[1], p[2], k)
            less == OnKey(bets, p[1], p[2], l)
        IN  k # l /\ more >= less /\ 5 * less >= In(bets, p[1], p[2]) /\ less > 0}
poolDomination(bets) ==
    {p \in Bettors \X BoardMarkets :
        /\ \E o \in Bettors \ {p[1]} : In(bets, o, p[2]) > 0
        /\ 5 * In(bets, p[1], p[2]) >= 4 * MapThenSumSet(LAMBDA o : In(bets, o, p[2]), Bettors)}
pairedOffsetting(bets) ==
    LET meets(i, j) == /\ bets[i].market = bets[j].market /\ bets[i].key # bets[j].key
                       /\ bets[i].block - bets[j].block \in -BurstWindow..BurstWindow
        shared(a, o) == {m \in BoardMarkets : \E i, j \in DOMAIN bets :
                          bets[i].by = a /\ bets[j].by = o /\ bets[i].market = m /\ meets(i, j)}
    IN  {p \in Bettors \X Bettors : p[1] # p[2] /\ Cardinality(shared(p[1], p[2])) >= MinOccurrences}

\* The headline numbers count events, whatever a fold would skip.
computeStats(events) ==
    LET of(kind) == SelectSeq(events, LAMBDA e : e.kind = kind)
        in(seq, F(_)) == {F(seq[i]) : i \in DOMAIN seq}
    IN  [rounds |-> in(events, LAMBDA e : e.market),
         settled |-> in(of("market_resolved"), LAMBDA e : e.market),
         staked |-> Sum(LAMBDA e : e.amount, of("bet_placed")),
         claims |-> Len(of("payout_claimed")),
         bettors |-> in(of("bet_placed"), LAMBDA e : e.by)]

\* What the crowd's final odds said of a settled market: one forecast per outcome backed.
crowdCalibrationSamples(m) ==
    IF m.state # "resolved" \/ m.pool[m.winner] = 0 THEN {}
    ELSE {[key |-> k, forecast |-> (1000 * m.pool[k]) \div Total(m), won |-> k = m.winner] :
            k \in {k \in BoardKeys : m.pool[k] > 0}}

calibrationCurve(samples, binCount) ==
    [i \in 1..binCount |->
        {s \in samples : IF s.forecast >= 1000 THEN i = binCount ELSE (s.forecast * binCount) \div 1000 = i - 1}]

-----------------------------------------------------------------------------
\* The boards of a complete read show the vault, unless the fold says what it skipped; the
\* boards of any other read never show a stake, a claim or a settlement that is not there.
\* (indexer.ts folds what deploy-events.ts could read)
BoardsShowTheVault ==
    \A sight \in Sights : LET seen == indexEvents(sight.events) IN
      \A m \in BoardMarkets : LET shown == seen.markets[m] real == escrowed[m] IN
        /\ \A a \in Bettors, k \in BoardKeys : shown.stakes[a][k] <= real.stakes[a][k]
        /\ shown.claimed \subseteq real.claimed
        /\ Settled(shown) => Settled(real) /\ (real.winner # NoKey => shown.winner = real.winner)
        /\ (sight.whole /\ seen.skipped = {}) =>
              /\ shown.stakes = real.stakes /\ shown.claimed = real.claimed /\ shown.by = real.by
              /\ Settled(shown) <=> Settled(real)

\* An agent's record and the leaderboard, two folds of one history, say what the vault
\* pays; the record does not where a market resolved to an outcome nobody backed.  Agents
\* are scored on the price the vault had for them, unless a block lists its bets out of order.
\* (agent-record.ts payoutFor, agent-leaderboard.ts)
RecordsPayWhatTheVaultPays ==
    \A events \in Whole : LET seen == indexEvents(events)
                            records == buildAgentRecords(seen)
                            paid(a) == MapThenSumSet(LAMBDA m : VaultPays(escrowed[m], a) - StakedBy(escrowed[m], a),
                                                     {m \in BoardMarkets : Settled(escrowed[m])}) IN
      seen.skipped = {} =>
        /\ \A a \in Bettors : computeAgentLeaderboard(seen)[a] = paid(a)
        /\ \A a \in DOMAIN records : records[a].wins =
              Cardinality({m \in BoardMarkets : Settled(escrowed[m]) /\ VaultPays(escrowed[m], a) > StakedBy(escrowed[m], a)})
        /\ \A i \in DOMAIN seen.bets, j \in DOMAIN deploys :
              deploys[j].hash = seen.bets[i].hash /\ (\A row \in Range(deploys) : row.block = deploys[j].block => row.hash > 0)
                => seen.bets[i].forecast = deploys[j].accepted
        /\ (\A m \in BoardMarkets : escrowed[m].state = "voided" => seen.markets[m].state = "voided") =>
              \A a \in DOMAIN records : records[a].returned - records[a].staked = paid(a)

\* Every bet is in one season and no other, no forecast is settled twice, and who wins a
\* season forecast MinSettled outcomes the vault decided - or one nobody backed.
\* (seasons.ts)
SeasonsPartitionBets ==
    \A events \in Whole :
      LET all == buildAgentRecords(indexEvents(events))
          in == [i \in 0..seasonAt(MaxTime) |-> buildAgentRecords(indexEvents(eventsInSeason(events, i)))]
          over(a, F(_)) == MapThenSumSet(LAMBDA i : IF a \in DOMAIN in[i] THEN F(in[i][a]) ELSE 0, DOMAIN in) IN
      indexEvents(events).skipped = {} =>
        /\ \A a \in DOMAIN all :
              /\ over(a, LAMBDA r : r.volume) = all[a].volume /\ over(a, LAMBDA r : r.bets) = all[a].bets
              /\ over(a, LAMBDA r : r.sampleCount) <= all[a].sampleCount
        /\ \A i \in DOMAIN in : \A a \in seasonWinner(in[i]) :
              MinSettled <= Cardinality({j \in DOMAIN deploys : deploys[j].ok /\ deploys[j].entry = "bet"
                  /\ deploys[j].by = a /\ deploys[j].block \in SeasonLength * i .. SeasonLength * (i + 1) - 1
                  /\ deploys[j].market # NoKey /\ Settled(escrowed[deploys[j].market])})

\* The evidence of manipulation and the headline numbers of a complete read are true of
\* the vault, in whatever order the calls of a block are listed.
\* (wash-trading.ts, stats.ts)
EvidenceIsTrueOfTheVault ==
    \A events \in Whole :
      LET bets == collectBets(events) stats == computeStats(events) IN
        /\ \A s \in selfCrossing(bets) : Cardinality({k \in BoardKeys : escrowed[s[2]].stakes[s[1]][k] > 0}) > 1
        /\ \A s \in poolDomination(bets) :
              5 * StakedBy(escrowed[s[2]], s[1]) >= 4 * Total(escrowed[s[2]])
        /\ \A s \in pairedOffsetting(bets) : <<s[2], s[1]>> \in pairedOffsetting(bets)
        /\ stats.staked = MapThenSumSet(LAMBDA m : Total(escrowed[m]), BoardMarkets)
        /\ stats.settled = {m \in BoardMarkets : Settled(escrowed[m])}
        /\ stats.claims = MapThenSumSet(LAMBDA m : Cardinality(escrowed[m].claimed), BoardMarkets)

\* One outcome of a settled market came true, and the curve counts every forecast once.
\* (calibration-curve.ts)
OneForecastCameTrue ==
    \A m \in BoardMarkets : LET samples == crowdCalibrationSamples(escrowed[m]) IN
      escrowed[m].state = "resolved" =>
        /\ Cardinality({s \in samples : s.won}) = 1
        /\ LET bins == calibrationCurve(samples, 3) IN
             MapThenSumSet(LAMBDA i : Cardinality(bins[i]), 1..3) = Cardinality(samples)
=============================================================================
