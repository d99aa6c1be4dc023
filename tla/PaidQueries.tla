----------------------------- MODULE PaidQueries -----------------------------
(***************************************************************************)
(* The metered reads (app/api/oracle/query, app/api/odds): a free tier per *)
(* caller, then one verified CSPR transfer per answer (lib/query-meter.ts, *)
(* core/query-pricing.ts, adapters/casper/real-payment.ts,                 *)
(* x402/verify.ts).  Meter and spent payments live in one server's memory; *)
(* a verification polls the node for as long as the transfer is pending,   *)
(* and other requests are served meanwhile.                                *)
(***************************************************************************)
EXTENDS Motes, Sequences

CONSTANTS
    Servers, Callers,
    Topics, Listed,         \* what can be asked about, and what has an answer
    Wires, WireOf,          \* WireOf[w]: from, whether native, the args it names, what it moves
    Treasury, QueryPrice,
    FreeTiers,              \* values of ORACLE_FREE_QUERIES_PER_HOUR
    MeterWindow, PendingWindow,
    MaxQueries              \* bound on requests

ASSUME MeterAssumption == FreeTiers \subseteq Nat /\ MeterWindow \in Nat \ {0} /\ PendingWindow \in Nat
\* A native transfer that executed moved what its arguments say.
ASSUME NativeWiresMove == \A w \in Wires : WireOf[w].native => WireOf[w].args \in WireOf[w].moves

VARIABLES
    freePerWindow,
    meter, burnt,           \* METER and CONSUMED of each server
    serverLife,             \* how often each server restarted
    wires,                  \* the transfers, on chain
    queries                 \* the requests, in order of arrival

queryVars == <<freePerWindow, meter, burnt, serverLife, wires, queries>>

NoProof == [wire |-> "none", nonce |-> <<>>]
Fresh == [start |-> -MeterWindow, count |-> 0]

QueriesInit ==
    /\ freePerWindow \in FreeTiers
    /\ meter = [s \in Servers |-> [c \in Callers |-> Fresh]]
    /\ burnt = [s \in Servers |-> {}]
    /\ serverLife = [s \in Servers |-> 0]
    /\ wires = [w \in Wires |-> "unsent"]
    /\ queries = <<>>

\* Operators named Faulty... are not part of the model: each is the definition after it with
\* one plausible mistake, and shows that some property below notices it.
FaultyMeterQuery(s, c) ==
    LET window == meter[s][c]
        current == IF now - window.start >= MeterWindow THEN [start |-> now, count |-> 0] ELSE window
    IN  [free |-> current.count <= freePerWindow,
         window |-> IF current.count <= freePerWindow THEN [current EXCEPT !.count = @ + 1] ELSE current]

\* The window starts with the first call after the last one ended; only a free call is counted.
meterQuery(s, c) ==
    LET window == meter[s][c]
        current == IF now - window.start >= MeterWindow THEN [start |-> now, count |-> 0] ELSE window
        free == current.count < freePerWindow
    IN  [free |-> free, window |-> IF free THEN [current EXCEPT !.count = @ + 1] ELSE current]

\* What a proof must name: quote binds the topic and the payer.
quoteNonce(topic, c) == <<topic, c>>
answerTo(topic) == IF topic \in Listed THEN "answered" ELSE "missed"

\* A request arrives: metered at once, and past the free tier challenged, refused for its
\* nonce, or sent to the node with the transfer it names.
Ask(s, c, topic, proof) ==
    LET d == meterQuery(s, c)
        step == CASE d.free -> answerTo(topic)
                  [] ~d.free /\ proof = NoProof -> "challenged"
                  [] ~d.free /\ proof # NoProof /\ proof.nonce # quoteNonce(topic, c) -> "refused"
                  [] OTHER -> "verifying"
    IN
    /\ Len(queries) < MaxQueries
    /\ meter' = [meter EXCEPT ![s][c] = d.window]
    /\ queries' = Append(queries,
          [server |-> s, life |-> serverLife[s], caller |-> c, topic |-> topic, free |-> d.free,
           wire |-> IF step = "verifying" THEN proof.wire ELSE "none", asked |-> now, took |-> FALSE,
           step |-> step, why |-> IF step = "refused" THEN "nonce" ELSE "none"])
    /\ UNCHANGED <<freePerWindow, burnt, serverLife, wires>>

FaultyCandidates(w) == {WireOf[w].args} \cup WireOf[w].moves
\* Where a transaction's money may have gone: a native transfer's own arguments, and the
\* transfers its execution recorded.
candidates(w) == (IF WireOf[w].native THEN {WireOf[w].args} ELSE {}) \cup WireOf[w].moves

FaultyVerify(w, c) ==
    /\ wires[w] = "executed"
    /\ \E t \in candidates(w) : t.to = Treasury /\ t.amount >= QueryPrice
verifyTransferResult(w, c) ==
    /\ wires[w] = "executed"
    /\ WireOf[w].from = c
    /\ \E t \in candidates(w) : t.to = Treasury /\ t.amount >= QueryPrice

Goes(i, step, why) == queries' = [queries EXCEPT ![i].step = step, ![i].why = why]

\* One look at the node: an outage and an unknown hash are final, a pending transfer is not
\* until the window closes.
ReadNode(i) ==
    LET q == queries[i] IN
    /\ q.step = "verifying"
    /\ \/ Goes(i, "refused", "unheard")
       \/ wires[q.wire] # "unsent" /\ verifyTransferResult(q.wire, q.caller) /\ Goes(i, "verified", "none")
       \/ /\ wires[q.wire] \in {"executed", "reverted"} /\ ~verifyTransferResult(q.wire, q.caller)
          /\ Goes(i, "refused", "bad")
       \/ wires[q.wire] = "pending" /\ now >= q.asked + PendingWindow /\ Goes(i, "refused", "late")
    /\ UNCHANGED <<freePerWindow, meter, burnt, serverLife, wires>>

FaultySpentOn(s, w) == FALSE
spentOn(s, w) == w \in burnt[s]

\* enforcePayment resumes: the transfer is looked up and burnt in one step.
Burn(i) ==
    LET q == queries[i] IN
    /\ q.step = "verified"
    /\ IF spentOn(q.server, q.wire)
       THEN Goes(i, "refused", "spent") /\ UNCHANGED burnt
       ELSE /\ queries' = [queries EXCEPT ![i].step = "paid", ![i].took = TRUE]
            /\ burnt' = [burnt EXCEPT ![q.server] = @ \cup {q.wire}]
    /\ UNCHANGED <<freePerWindow, meter, serverLife, wires>>

\* The answer, or 404 for a topic that was paid for and does not exist.
AnswerQuery(i) ==
    /\ queries[i].step = "paid"
    /\ Goes(i, answerTo(queries[i].topic), "none")
    /\ UNCHANGED <<freePerWindow, meter, burnt, serverLife, wires>>

\* A caller's wallet, and the network.
WireMoves(w) ==
    /\ \/ wires[w] = "unsent" /\ wires' = [wires EXCEPT ![w] = "pending"]
       \/ wires[w] = "pending" /\ \E end \in {"executed", "reverted"} : wires' = [wires EXCEPT ![w] = end]
    /\ UNCHANGED <<freePerWindow, meter, burnt, serverLife, queries>>

Pending(q) == q.step \in {"verifying", "verified", "paid"}

\* A serverless instance goes, with its memory and whatever it was doing.
ServerDies(s) ==
    /\ serverLife' = [serverLife EXCEPT ![s] = @ + 1]
    /\ meter' = [meter EXCEPT ![s] = [c \in Callers |-> Fresh]]
    /\ burnt' = [burnt EXCEPT ![s] = {}]
    /\ queries' = [i \in DOMAIN queries |->
          IF queries[i].server = s /\ Pending(queries[i])
          THEN [queries[i] EXCEPT !.step = "lost"] ELSE queries[i]]
    /\ UNCHANGED <<freePerWindow, wires>>

-----------------------------------------------------------------------------
PaidOn(i, s, l, w) ==
    LET q == queries[i] IN q.took /\ q.server = s /\ q.life = l /\ q.wire = w

\* One transfer is taken for at most one read, over both surfaces, while a server lives: however
\* its verification and another request's with the same transfer overlap.
OneWireOneRead ==
    \A i, j \in DOMAIN queries : \A w \in Wires :
        LET q == queries[i] IN
        PaidOn(i, q.server, q.life, w) /\ PaidOn(j, q.server, q.life, w) => i = j

\* A read that was charged for was paid for: the treasury has the price of it, from the caller.
ReadsArePaidFor ==
    \A i \in DOMAIN queries : LET q == queries[i] IN
        q.took \/ (~q.free /\ q.step \in {"answered", "missed"}) =>
            /\ wires[q.wire] = "executed" /\ WireOf[q.wire].from = q.caller
            /\ \E t \in WireOf[q.wire].moves : t.to = Treasury /\ t.amount >= QueryPrice

\* A caller with a good transfer is refused only for what the node said or did not say in time,
\* or because the transfer was taken for another read on that server.
HonestPayersAreRead ==
    \A i \in DOMAIN queries : LET q == queries[i] IN
        /\ q.why = "bad" => ~verifyTransferResult(q.wire, q.caller)
        /\ q.why = "spent" =>
              \E j \in DOMAIN queries \ {i} : PaidOn(j, q.server, q.life, q.wire)

\* A caller gets at most one free tier per window and, as the windows are fixed by their first
\* call, less than two in any stretch as long as one: never twice the tier.
FreeTierIsBounded ==
    \A i \in DOMAIN queries : LET q == queries[i] IN
        q.free =>
            LET stretch == {j \in DOMAIN queries :
                    /\ queries[j].free /\ queries[j].caller = q.caller
                    /\ queries[j].server = q.server /\ queries[j].life = q.life
                    /\ queries[j].asked \in q.asked .. q.asked + MeterWindow - 1}
            IN  Cardinality(stretch) < 2 * freePerWindow
=============================================================================
