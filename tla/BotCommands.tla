----------------------------- MODULE BotCommands -----------------------------
(***************************************************************************)
(* What a chat message means: the strict grammar in front of the money     *)
(* path, with the two rules that drop a platform's decoration              *)
(* (core/bot-command.ts).  A message is a sequence of tokens; which tokens *)
(* are amounts, outcomes or slugs is all the parser asks of their letters. *)
(***************************************************************************)
EXTENDS Naturals, Sequences, FiniteSets

CONSTANTS AmountTokens, OutcomeTokens, SlugTokens, CountTokens,
          MarketOf    \* the slug a slug or a link to a market names

MentionTokens == {"@bot"}
HashtagTokens == {"#tag"}
UrlTokens == {"https://link", "https://market"}
Decoration == MentionTokens \cup HashtagTokens

fail == [kind |-> "fail"]

slugFromToken(token) == IF token \in SlugTokens \cup {"https://market"} THEN MarketOf[token] ELSE ""

parseBet(tokens) ==
    LET unit == Len(tokens) > 2 /\ tokens[3] = "cspr"
        rest == SubSeq(tokens, IF unit THEN 4 ELSE 3, Len(tokens))
    IN  IF /\ Len(tokens) > 1 /\ tokens[2] \in AmountTokens
           /\ Len(rest) = 3 /\ rest[1] \in OutcomeTokens \ {"on"} /\ rest[2] = "on"
           /\ slugFromToken(rest[3]) # ""
        THEN [kind |-> "bet", slug |-> slugFromToken(rest[3]), outcome |-> rest[1], amount |-> tokens[2]]
        ELSE fail

parseTokens(tokens) ==
    CASE tokens[1] = "help" /\ Len(tokens) = 1 -> [kind |-> "help"]
      [] tokens[1] = "markets" /\ (Len(tokens) = 1 \/ (Len(tokens) = 2 /\ tokens[2] \in CountTokens)) ->
            [kind |-> "markets", limit |-> IF Len(tokens) = 1 THEN "default" ELSE tokens[2]]
      [] tokens[1] = "odds" /\ Len(tokens) = 2 /\ slugFromToken(tokens[2]) # "" ->
            [kind |-> "odds", slug |-> slugFromToken(tokens[2])]
      [] tokens[1] = "bet" -> parseBet(tokens)
      [] OTHER -> fail

\* Leading mentions and trailing decoration go first; then one trailing link, if the command
\* makes no sense with it and makes sense without it.
FaultyParseBotCommand(text) ==
    LET starts == {i \in DOMAIN text : \A k \in 1 .. i - 1 : text[k] \in MentionTokens}
        ends == {j \in DOMAIN text : \A k \in j + 1 .. Len(text) : text[k] \in Decoration \cup UrlTokens}
        tokens == SubSeq(text, CHOOSE i \in starts : text[i] \notin MentionTokens,
                               CHOOSE j \in ends : text[j] \notin Decoration \cup UrlTokens)
    IN  IF \A k \in DOMAIN text : text[k] \in Decoration \cup UrlTokens THEN fail ELSE parseTokens(tokens)

parseBotCommand(text) ==
    LET leading == {i \in DOMAIN text : \A k \in 1 .. i : text[k] \in MentionTokens}
        trailing == {j \in DOMAIN text : \A k \in j .. Len(text) : text[k] \in Decoration}
        tokens == SubSeq(text, Cardinality(leading) + 1, Len(text) - Cardinality(trailing))
        first == parseTokens(tokens)
        linked == Len(tokens) > 1 /\ tokens[Len(tokens)] \in UrlTokens
    IN  IF tokens = << >> THEN fail
        ELSE IF first = fail /\ linked THEN parseTokens(SubSeq(tokens, 1, Len(tokens) - 1)) ELSE first

-----------------------------------------------------------------------------
\* The documented grammar, as the commands a run of tokens spells; an outcome called cspr needs
\* the unit before it.
Grammar(core) ==
    LET slug == MarketOf[core[Len(core)]]
        after == SubSeq(core, 3, Len(core))
        named == core[Len(core)] \in SlugTokens \cup {"https://market"}
    IN  CASE core = <<"help">> -> {[kind |-> "help"]}
          [] core = <<"markets">> -> {[kind |-> "markets", limit |-> "default"]}
          [] Len(core) = 2 /\ core[1] = "markets" -> {[kind |-> "markets", limit |-> n] : n \in CountTokens \cap {core[2]}}
          [] Len(core) = 2 /\ core[1] = "odds" /\ named -> {[kind |-> "odds", slug |-> slug]}
          [] Len(core) > 4 /\ core[1] = "bet" /\ named ->
               {[kind |-> "bet", slug |-> slug, outcome |-> o, amount |-> a] :
                  o \in {x \in OutcomeTokens \ {"on"} :
                            \/ after = <<"cspr", x, "on", core[Len(core)]>>
                            \/ after = <<x, "on", core[Len(core)]>> /\ x # "cspr"},
                  a \in AmountTokens \cap {core[2]}}
          [] OTHER -> {}

\* Every reading of a message: mentions, a command, at most one link, decoration.
Readings(text) ==
    UNION {Grammar(SubSeq(text, span[1], span[2])) :
        span \in {p \in (DOMAIN text) \X (DOMAIN text) :
            /\ p[1] <= p[2]
            /\ \A k \in 1 .. p[1] - 1 : text[k] \in MentionTokens
            /\ \A k \in p[2] + 1 .. Len(text) :
                  text[k] \in Decoration \/ (k = p[2] + 1 /\ text[k] \in UrlTokens)}}

\* The messages TLC tries: sequences built around one that says something.
Texts ==
    LET Upto(n, S) == UNION {[1 .. k -> S] : k \in 0 .. n}
        bets == {<<"bet", "5">> \o rest : rest \in Upto(3, {"cspr", "yes", "on", "flip", "https://market"})}
        asks == {<<verb>> \o rest : verb \in {"help", "markets", "odds"}, rest \in Upto(2, {"5", "flip", "https://link", "https://market"})}
    IN  {before \o core \o after : before \in Upto(1, {"@bot", "#tag"}),
           core \in bets \cup asks \cup {<<"bet", "5", "cspr", "yes", "on", "flip">>},
           after \in Upto(2, {"@bot", "#tag", "https://link", "https://market"})}

\* A message has at most one reading, and means that; a message with none means nothing, and no
\* link or decoration is ever taken for the market, the outcome or the amount.
CommandsMeanOneThing ==
    \A text \in Texts : Readings(text) = IF parseBotCommand(text) = fail THEN {} ELSE {parseBotCommand(text)}
=============================================================================
