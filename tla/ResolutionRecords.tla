-------------------------- MODULE ResolutionRecords --------------------------
(***************************************************************************)
(* Why a market resolved as it did, for anyone to check: the rule it was   *)
(* composed under (core/market-composer.ts, resolution-recipe.ts), the     *)
(* answer the arbiter took (agent/arbiter.ts, meta-resolution.ts,          *)
(* config/attestation.ts), the evidence bundle it published, the hashes it *)
(* anchored in the vault, and the replay that audits them                  *)
(* (core/resolution-replay.ts, app/api/markets/[slug]/evidence).           *)
(*                                                                         *)
(* One market.  A hash is what is hashed: the recipe hash is the rule      *)
(* (which leaves its description out), the bundle hash the bundle.         *)
(***************************************************************************)
EXTENDS Integers, FiniteSets, SequencesExt

CONSTANTS
    Proposals,      \* markets a creator asks for
    Curated,        \* the rules of catalogue markets
    OpenRules,      \* rules of the markets that are open when one is proposed
    Leaderboards,   \* what the agents' board and the arbiter's accuracy may say
    Announcements,  \* what the operator may announce of a contest; "none" to begin with
    Resolvers,      \* requests that may resolve the market: the sweep, the operator's
    MaxPublished    \* bound: bundles published

VARIABLES
    definition,     \* the definition's binding and outcomes, on this server
    stage,          \* "proposed", "open", or why the composer refused
    reading,        \* what the oracle would answer
    rankings,       \* the boards so far, [pnl, accuracy], the last one in force
    announcement,   \* MARKET_ATTESTATIONS so far, the last one in force
    oracleIsAdmin,  \* one key resolves and administers the vault
    vaultEntry,     \* the vault's market: [state, backed, recipe, bundle, by]
    auditTrail,     \* [settled, link]: the mirror's settlement and the evidence link
    storedTrail,    \* the audit trail as last flushed
    resolution,     \* resolution[w]: [at, answer, bundle, recipe]
    anchored,       \* what the feed says is anchored: <<bundle, hash>>
    answersTaken,   \* history: the answers the arbiter took
    publications    \* bundles published so far

marketRules == <<definition, stage>>
facts == <<reading, rankings, announcement, oracleIsAdmin>>
trails == <<auditTrail, storedTrail>>
histories == <<anchored, answersTaken, publications>>
recordVars == <<marketRules, facts, vaultEntry, trails, resolution, histories>>

\* What a snapshot holds of its metric: a number or a text.
Num(n) == [number |-> n]
Text(w) == [text |-> w]
NoLink == [rule |-> << >>, winner |-> "", at |-> 0, snapshot |-> [of |-> "", value |-> Text("")]]
resting == [at |-> "idle"]
Among(s) == {s[i] : i \in 1 .. Len(s)}

RecordsInit ==
    /\ \/ stage = "proposed" /\ definition \in Proposals
       \/ stage = "open" /\ definition \in Curated
    /\ reading \in Among(definition.keys)
    /\ rankings \in {<<x>> : x \in Leaderboards}
    /\ definition.source = "internal" \/ rankings = <<CHOOSE x \in Leaderboards : TRUE>>
    /\ announcement = <<"none">>
    /\ oracleIsAdmin \in BOOLEAN
    /\ vaultEntry = [state |-> "open", backed |-> {}, recipe |-> << >>, bundle |-> NoLink, by |-> ""]
    /\ auditTrail = [settled |-> "no", link |-> NoLink] /\ storedTrail = auditTrail
    /\ resolution = [w \in Resolvers |-> resting]
    /\ anchored = {} /\ answersTaken = {} /\ publications = 0

-----------------------------------------------------------------------------
\* The composer.

SOURCE_METRICS == [coingecko |-> {"cspr_usd"}, drand |-> {"beacon"},
                   internal |-> {"prophet_pnl", "arbiter_accuracy_pct"}, attested |-> {"grand_prize"}]

Canonical(r) == <<r.source, r.metric, r.kind, r.target, r.comparator, r.when, r.keys>>

FaultyValidateRecipe(r) == Len(r.keys) >= 2 /\ Cardinality(Among(r.keys)) = Len(r.keys)
validateRecipe(r) ==
    /\ Len(r.keys) >= 2 /\ Cardinality(Among(r.keys)) = Len(r.keys)
    /\ "Not A Key" \notin Among(r.keys)
    /\ r.kind = "threshold" => r.target # "none" /\ r.comparator # "none"
    /\ r.kind = "coin_flip" => r.source = "drand"
    /\ r.when # "no date"

FaultyFindDuplicates(r) == {o \in OpenRules : o.title = r.title}
findDuplicates(r) == {o \in OpenRules : Canonical(o) = Canonical(r) \/ o.title = r.title}

composeMarket(r) ==
    CASE r.title \in {"", "too long"} -> "invalid-input"
      [] r.title = "prohibited" -> "category"
      [] r.source \in {"internal", "attested"} -> "invalid-input"
      [] r.feeBps > 500 \/ Len(r.keys) \notin 2 .. 8 -> "invalid-input"
      [] ~validateRecipe(r) \/ r.metric \notin SOURCE_METRICS[r.source] -> "invalid-recipe"
      [] findDuplicates(r) # {} -> "duplicate"
      [] OTHER -> "open"

Compose ==
    /\ stage = "proposed"
    /\ stage' = composeMarket(definition)
    /\ UNCHANGED <<definition, facts, vaultEntry, trails, resolution, histories>>

\* A bet lands on an outcome, on chain and in the mirror.
Backs(k) ==
    /\ stage = "open" /\ vaultEntry.state = "open" /\ auditTrail.settled = "no"
    /\ k \in Among(definition.keys) \ vaultEntry.backed
    /\ vaultEntry' = [vaultEntry EXCEPT !.backed = @ \cup {k}]
    /\ UNCHANGED <<marketRules, facts, trails, resolution, histories>>

\* Another server opened a market under the same slug: its definition won the merge.
DefinitionReplaced(r) ==
    /\ stage = "open" /\ definition.source \notin {"internal", "attested"}
    /\ definition' = r
    /\ UNCHANGED <<stage, facts, vaultEntry, trails, resolution, histories>>

-----------------------------------------------------------------------------
\* What the arbiter answers.

META_MIN_SETTLED == 2

FaultyMayWin(board) == {i \in 1 .. Len(board.pnl) : board.pnl[i].agent \in Among(definition.keys)}
\* The best ranked candidate with enough settled markets; the board is ranked best first.
MayWin(board) == {i \in 1 .. Len(board.pnl) : /\ board.pnl[i].agent \in Among(definition.keys)
                                              /\ board.pnl[i].settled >= META_MIN_SETTLED}
resolveMetaMarket ==
    LET board == Last(rankings)
        fit == MayWin(board)
        Yes == IF "yes" \in Among(definition.keys) THEN "yes" ELSE definition.keys[1]
        No == IF "no" \in Among(definition.keys) THEN "no" ELSE definition.keys[Len(definition.keys)]
    IN CASE definition.metric = "prophet_pnl" ->
              IF fit = {} THEN "void" ELSE board.pnl[CHOOSE i \in fit : \A j \in fit : i <= j].agent
         [] definition.metric = "arbiter_accuracy_pct" ->
              IF definition.comparator = "lte" THEN (IF board.accuracy <= 10 THEN Yes ELSE No)
              ELSE (IF board.accuracy >= 10 THEN Yes ELSE No)
         [] OTHER -> "void"

FaultyDecidable == TRUE
\* Without a valid announcement an attested market stays locked.
Decidable == definition.source = "attested" => Last(announcement) \in Among(definition.keys) \cup {"void"}
Decision ==
    CASE definition.source = "attested" -> Last(announcement)
      [] definition.source = "internal" -> resolveMetaMarket
      [] OTHER -> reading

Announce(a) ==
    /\ announcement' = Append(announcement, a)
    /\ UNCHANGED <<marketRules, reading, rankings, oracleIsAdmin, vaultEntry, trails, resolution, histories>>
BoardsMove(x) ==
    /\ rankings' = Append(rankings, x)
    /\ UNCHANGED <<marketRules, reading, announcement, oracleIsAdmin, vaultEntry, trails, resolution, histories>>

StartsResolving(w) ==
    /\ stage = "open" /\ resolution[w].at = "idle" /\ auditTrail.settled = "no" /\ Decidable
    /\ resolution' = [resolution EXCEPT ![w] = [at |-> IF Decision = "void" THEN "settling" ELSE "resolving",
                                            answer |-> Decision]]
    /\ answersTaken' = answersTaken \cup {Decision}
    /\ UNCHANGED <<marketRules, facts, vaultEntry, trails, anchored, publications>>

\* resolve in the vault: an outcome nobody backed voids it.
Resolved(k, who) == [vaultEntry EXCEPT !.state = IF k \in vaultEntry.backed THEN k ELSE "void", !.by = who]
\* The vault takes the answer, or has settled already and the mirror follows.
VaultAnswers(w) ==
    /\ resolution[w].at = "resolving"
    /\ vaultEntry' = IF vaultEntry.state = "open" THEN Resolved(resolution[w].answer, "arbiter") ELSE vaultEntry
    /\ resolution' = [resolution EXCEPT ![w].at = "settling"]
    /\ UNCHANGED <<marketRules, facts, trails, histories>>
VaultFails(w) ==
    /\ resolution[w].at = "resolving"
    /\ resolution' = [resolution EXCEPT ![w] = resting]
    /\ UNCHANGED <<marketRules, facts, vaultEntry, trails, histories>>
OperatorResolves(k) ==
    /\ stage = "open" /\ vaultEntry.state = "open" /\ k \in Among(definition.keys)
    /\ vaultEntry' = Resolved(k, "operator")
    /\ UNCHANGED <<marketRules, facts, trails, resolution, histories>>

-----------------------------------------------------------------------------
\* The evidence.

\* Number and its neighbours in double precision, where ten stands for a price and a
\* thousand for a number whose neighbours it cannot tell apart.
Double(n) == IF n < 100 THEN n ELSE ((n + 5) \div 10) * 10
TargetOf(r) == CASE r.target = "none" -> 0 [] r.target = "price" -> 10 [] r.target = "huge" -> 1000 [] OTHER -> -1
Finite(n) == n # -1

\* A number on the wrong side of the target.
FaultyMissed(r) == TargetOf(r)
Missed(r) == Double(TargetOf(r) + IF r.comparator = "gte" THEN -1 ELSE 1)

\* The datum that makes the rule say what was decided.
snapshotForOutcome(r, winner) ==
    LET first == winner = r.keys[1] IN
    [of |-> r.metric,
     value |-> CASE r.kind \in {"nway_winner", "coin_flip"} -> Text(winner)
                 [] r.kind = "direction" -> Num(IF winner = "void" THEN 0 ELSE IF first THEN 1 ELSE -1)
                 [] winner = "void" -> Text("void")
                 [] ~Finite(TargetOf(r)) -> Text("NaN")
                 [] OTHER -> Num(IF first THEN TargetOf(r) ELSE Missed(r))]

\* What a rule says of a snapshot: an outcome, "void", or "undecided".
replayRecipe(r, snapshot) ==
    LET raw == snapshot.value
        named == DOMAIN raw = {"text"}
        First(b) == IF b THEN r.keys[1] ELSE r.keys[2]
    IN CASE snapshot.of # r.metric -> "undecided"
         [] r.kind \in {"nway_winner", "coin_flip"} ->
              IF named /\ raw.text \in Among(r.keys) \cup {"void"} THEN raw.text ELSE "undecided"
         [] named -> "undecided"
         [] r.kind = "direction" -> IF raw.number = 0 THEN "void" ELSE First(raw.number > 0)
         [] ~Finite(TargetOf(r)) \/ r.comparator = "none" -> "undecided"
         [] r.comparator = "gte" -> First(raw.number >= TargetOf(r))
         [] OTHER -> First(raw.number <= TargetOf(r))

\* What /api/markets/[slug]/evidence says of the linked bundle.
verifyResolution == /\ auditTrail.link.rule = Canonical(definition)
                    /\ replayRecipe(definition, auditTrail.link.snapshot) = auditTrail.link.winner

\* The mirror settles, once, and the bundle is published and linked.
SettlesAndPublishes(w) ==
    /\ resolution[w].at = "settling" /\ publications < MaxPublished
    /\ LET won == resolution[w].answer
           bundle == [rule |-> Canonical(definition), winner |-> won, at |-> publications + 1,
                      snapshot |-> snapshotForOutcome(definition, won)]
       IN /\ auditTrail' = [settled |-> IF auditTrail.settled # "no" THEN auditTrail.settled
                                    ELSE IF won \in vaultEntry.backed THEN won ELSE "void",
                        link |-> bundle]
          /\ resolution' = [resolution EXCEPT ![w] = [at |-> "anchoring", answer |-> won, bundle |-> bundle, recipe |-> FALSE]]
    /\ publications' = publications + 1
    /\ UNCHANGED <<marketRules, facts, vaultEntry, storedTrail, anchored, answersTaken>>

\* commit_recipe: the creator or the admin, while nobody has bet.
RecipeAccepted == oracleIsAdmin /\ vaultEntry.backed = {}
AnchorsRecipe(w, lands) ==
    /\ resolution[w].at = "anchoring" /\ (lands => RecipeAccepted)
    /\ vaultEntry' = IF lands THEN [vaultEntry EXCEPT !.recipe = resolution[w].bundle.rule] ELSE vaultEntry
    /\ resolution' = [resolution EXCEPT ![w] = [@ EXCEPT !.at = "anchored", !.recipe = lands]]
    /\ UNCHANGED <<marketRules, facts, trails, histories>>
\* commit_bundle: the oracle, once the vault's market is settled; then the action is logged.
AnchorsBundle(w, lands) ==
    /\ resolution[w].at = "anchored" /\ (lands => vaultEntry.state # "open")
    /\ vaultEntry' = IF lands THEN [vaultEntry EXCEPT !.bundle = resolution[w].bundle] ELSE vaultEntry
    /\ anchored' = anchored \cup {<<resolution[w].bundle, CASE resolution[w].recipe -> "recipe" [] lands -> "bundle" [] OTHER -> "none">>}
    /\ resolution' = [resolution EXCEPT ![w] = resting]
    /\ UNCHANGED <<marketRules, facts, trails, answersTaken, publications>>

Flushes ==
    /\ storedTrail # auditTrail /\ storedTrail' = auditTrail
    /\ UNCHANGED <<marketRules, facts, vaultEntry, auditTrail, resolution, histories>>
RecordsDie ==
    /\ auditTrail' = storedTrail /\ resolution' = [w \in Resolvers |-> resting]
    /\ UNCHANGED <<marketRules, facts, vaultEntry, storedTrail, histories>>

-----------------------------------------------------------------------------
\* What the evidence promises.

\* A replay can reproduce what was decided: a threshold knows two outcomes and no void, and
\* needs a number with neighbours on the side it missed; a direction knows two and the void.
Reconstructible(r, winner) ==
    CASE r.kind = "threshold" -> /\ winner = r.keys[1] \/ (winner = r.keys[2] /\ r.target # "huge")
                                 /\ r.target \notin {"none", "word"} /\ r.comparator # "none"
      [] r.kind = "direction" -> winner \in {"void", r.keys[1], r.keys[2]}
      [] OTHER -> TRUE

\* Whoever may open a market, its rule decides for every answer its feed can give - but for a
\* target that is no number, which the composer takes - and asks what no open market asks
\* (composeMarket, validateRecipe, sourceMetricError).
PublicMarketsAreDecidable == stage = "open" /\ definition \in Proposals =>
    /\ definition.metric \in SOURCE_METRICS[definition.source] \cap {"cspr_usd", "beacon"}
    /\ \A o \in OpenRules : Canonical(o) # Canonical(definition)
    /\ \A k \in Among(definition.keys) :
          \/ replayRecipe(definition, snapshotForOutcome(definition, k)) \in Among(definition.keys)
          \/ definition.target = "word"

\* An audit passes exactly when the rule shown is the rule the market was resolved under and a
\* replay can reproduce the decision: nobody is told an honest resolution drifted, nor that it was
\* replayed under a rule it was not (verifyResolution, the evidence route).
AuditsAreExact == auditTrail.link # NoLink =>
    (verifyResolution <=> /\ auditTrail.link.rule = Canonical(definition)
                          /\ Reconstructible(definition, auditTrail.link.winner))

\* The bundle linked, and the one anchored in the vault, name the outcome that was paid, unless
\* nobody had backed it, or several answers were taken before one settled (resolveMarket).
EvidenceNamesThePayout == Cardinality(answersTaken) <= 1 =>
    /\ auditTrail.link # NoLink /\ auditTrail.settled # auditTrail.link.winner =>
          auditTrail.settled = "void" /\ auditTrail.link.winner \notin vaultEntry.backed
    /\ vaultEntry.bundle # NoLink /\ vaultEntry.state # vaultEntry.bundle.winner =>
          \/ vaultEntry.state = "void" /\ vaultEntry.bundle.winner \notin vaultEntry.backed
          \/ vaultEntry.by = "operator"

\* What the feed says is anchored the vault holds, or something a later resolution put there
\* (anchorResolution).
AnchorsHold == \A entry \in anchored :
    /\ entry[2] = "recipe" => vaultEntry.recipe # << >>
    /\ entry[2] = "bundle" => vaultEntry.bundle # NoLink /\ vaultEntry.bundle.at > 0 /\ vaultEntry.state # "open"

\* A contest is decided by an announcement and by nothing else; the agents' market by a board on
\* which the winner led every other candidate that settled enough (decide, resolveMetaMarket).
AnswersHaveAuthority == \A a \in answersTaken :
    /\ definition.source = "attested" => a \in Among(announcement) \cap (Among(definition.keys) \cup {"void"})
    /\ definition.metric = "prophet_pnl" /\ a # "void" => \E board \in Among(rankings) :
          \E i \in DOMAIN board.pnl : /\ board.pnl[i].agent = a /\ board.pnl[i].settled > 1
                                     /\ \A j \in 1 .. i - 1 : board.pnl[j].settled > 1 =>
                                            board.pnl[j].agent \notin Among(definition.keys)
=============================================================================
