----------------------------- MODULE ServiceProofs -----------------------------
(***************************************************************************)
(* Proofs about the services beside the pages: the metered reads, for any  *)
(* servers, callers, transfers, tiers and windows; the bots in the chats,  *)
(* for any bots, messages and deliveries of them; and the chain adapter,   *)
(* for any listings, wirings and redeploys between them.                   *)
(***************************************************************************)
EXTENDS PaidQueries, BotMentions, ChainAdapter, FiniteSetTheorems, TLAPS

-----------------------------------------------------------------------------
(***************************************************************************)
(* The metered reads                                                       *)
(***************************************************************************)

AtNode == {"verifying", "verified", "paid"}
MeteredReads ==
    [server : Servers, life : Nat, caller : Callers, topic : Topics, free : BOOLEAN, wire : Wires \cup {"none"},
     asked : Nat, took : BOOLEAN, step : AtNode \cup {"answered", "missed", "challenged", "refused", "lost"},
     why : {"none", "nonce", "unheard", "bad", "late", "spent"}]
MeterWindows == [start : Int, count : Nat]

QueriesTypeOK ==
    /\ now \in Nat /\ freePerWindow \in Nat
    /\ meter \in [Servers -> [Callers -> MeterWindows]]
    /\ burnt \in [Servers -> SUBSET Wires]
    /\ serverLife \in [Servers -> Nat]
    /\ wires \in [Wires -> {"unsent", "pending", "executed", "reverted"}]
    /\ queries \in Seq(MeteredReads)

\* A read is of its server's life, and pending only while that lasts; it took its transfer only
\* after the node said that it pays, and is refused for it only if it does not.
Pays(w, c) == WireOf[w].from = c /\ \E t \in candidates(w) : t.to = Treasury /\ t.amount >= QueryPrice
ReadStands(q, lives, at, chain) ==
    /\ q.life <= lives[q.server] /\ q.asked <= at
    /\ q.step \in AtNode => q.life = lives[q.server] /\ q.free = FALSE /\ q.wire \in Wires
    /\ q.step \in {"verifying", "verified"} => q.took = FALSE
    /\ q.step = "paid" => q.took = TRUE
    /\ q.free = FALSE /\ q.step \in {"answered", "missed"} => q.took = TRUE
    /\ q.took = TRUE => q.wire \in Wires
    /\ q.took = TRUE \/ q.step = "verified" => chain[q.wire] = "executed" /\ Pays(q.wire, q.caller)
    /\ q.why = "bad" => q.wire \in Wires /\ chain[q.wire] \in {"executed", "reverted"}
                        /\ ~(chain[q.wire] = "executed" /\ Pays(q.wire, q.caller))
ReadsStand(Q, lives, at, chain) == \A i \in DOMAIN Q : ReadStands(Q[i], lives, at, chain)

\* What is burnt is what was taken in this life, once, and who is told that a transfer was spent
\* lost it to another.
TookWire(Q, i, s, l, w) == Q[i].took = TRUE /\ Q[i].server = s /\ Q[i].life = l /\ Q[i].wire = w
BurntIsTaken(Q, ash, lives) ==
    /\ \A s \in Servers, w \in Wires : w \in ash[s] <=> \E i \in DOMAIN Q : TookWire(Q, i, s, lives[s], w)
    /\ \A i, j \in DOMAIN Q, s \in Servers, l \in Nat, w \in Wires : TookWire(Q, i, s, l, w) /\ TookWire(Q, j, s, l, w) => i = j
    /\ \A i \in DOMAIN Q : Q[i].why = "spent" => \E j \in DOMAIN Q \ {i} : TookWire(Q, j, Q[i].server, Q[i].life, Q[i].wire)

FreeOf(q, s, l, c) == q.free = TRUE /\ q.caller = c /\ q.server = s /\ q.life = l
FreeReads(Q, s, l, c, lo, hi) == {j \in DOMAIN Q : FreeOf(Q[j], s, l, c) /\ lo <= Q[j].asked /\ Q[j].asked <= hi}

\* A caller's window starts with a free read and counts those since; the ones before it that are
\* less than a window away are less than a tier.
MeterCounts(Q, m, F, s, l, c) ==
    /\ m.count <= F
    /\ m.count = 0 => F = 0 \/ m.start = -MeterWindow
    /\ \A j \in DOMAIN Q : FreeOf(Q[j], s, l, c) =>
          /\ Q[j].asked < m.start + MeterWindow
          /\ m.count > 0
          /\ m.start - MeterWindow < Q[j].asked /\ Q[j].asked < m.start =>
                Cardinality(FreeReads(Q, s, l, c, Q[j].asked, m.start - 1)) < F
    /\ m.count > 0 => \E j \in DOMAIN Q : FreeOf(Q[j], s, l, c) /\ Q[j].asked = m.start
    /\ Cardinality(FreeReads(Q, s, l, c, m.start, m.start + MeterWindow - 1)) <= m.count

TierIsKept(Q, F) ==
    \A i \in DOMAIN Q : Q[i].free = TRUE =>
        Cardinality(FreeReads(Q, Q[i].server, Q[i].life, Q[i].caller, Q[i].asked, Q[i].asked + MeterWindow - 1)) < 2 * F

QueriesInv ==
    /\ QueriesTypeOK
    /\ ReadsStand(queries, serverLife, now, wires)
    /\ BurntIsTaken(queries, burnt, serverLife)
    /\ \A s \in Servers, c \in Callers :
          meter[s][c].start <= now /\ MeterCounts(queries, meter[s][c], freePerWindow, s, serverLife[s], c)
    /\ TierIsKept(queries, freePerWindow)

-----------------------------------------------------------------------------
\* Reads are finitely many.
LEMMA FreeReadsAreFinite ==
    ASSUME NEW Q \in Seq(MeteredReads), NEW s, NEW l, NEW c, NEW lo, NEW hi
    PROVE  IsFiniteSet(FreeReads(Q, s, l, c, lo, hi)) /\ Cardinality(FreeReads(Q, s, l, c, lo, hi)) \in Nat
<1>1. IsFiniteSet(1 .. Len(Q)) BY FS_Interval
<1>2. FreeReads(Q, s, l, c, lo, hi) \subseteq 1 .. Len(Q) BY DEF FreeReads
<1>3. IsFiniteSet(FreeReads(Q, s, l, c, lo, hi)) BY <1>1, <1>2, FS_Subset
<1> QED BY <1>3, FS_CardinalityType

\* No reads are counted where there are none.
LEMMA NoFreeReads ==
    ASSUME NEW Q \in Seq(MeteredReads), NEW s, NEW l, NEW c, NEW lo, NEW hi,
           \A j \in DOMAIN Q : FreeOf(Q[j], s, l, c) => ~(lo <= Q[j].asked /\ Q[j].asked <= hi)
    PROVE  Cardinality(FreeReads(Q, s, l, c, lo, hi)) = 0
<1>1. FreeReads(Q, s, l, c, lo, hi) = {} BY DEF FreeReads
<1> QED BY <1>1, FS_EmptySet

\* P has the reads of Q, for all that the meter looks at.
SameReads(Q, P) ==
    /\ DOMAIN P = DOMAIN Q
    /\ \A j \in DOMAIN Q : /\ P[j].server = Q[j].server /\ P[j].life = Q[j].life /\ P[j].caller = Q[j].caller
                           /\ P[j].free = Q[j].free /\ P[j].asked = Q[j].asked

LEMMA SameReadsCount ==
    ASSUME NEW Q, NEW P, SameReads(Q, P), NEW s, NEW l, NEW c, NEW lo, NEW hi
    PROVE  FreeReads(P, s, l, c, lo, hi) = FreeReads(Q, s, l, c, lo, hi)
BY DEF SameReads, FreeReads, FreeOf

LEMMA SameReadsMeter ==
    ASSUME NEW Q, NEW P, SameReads(Q, P), NEW m, NEW F, NEW s, NEW l, NEW c, MeterCounts(Q, m, F, s, l, c)
    PROVE  MeterCounts(P, m, F, s, l, c)
<1>1. \A lo, hi : FreeReads(P, s, l, c, lo, hi) = FreeReads(Q, s, l, c, lo, hi) BY SameReadsCount
<1>2. DOMAIN P = DOMAIN Q /\ \A j \in DOMAIN Q : P[j].asked = Q[j].asked /\ (FreeOf(P[j], s, l, c) <=> FreeOf(Q[j], s, l, c))
    BY DEF SameReads, FreeOf
<1> QED BY <1>1, <1>2 DEF MeterCounts

LEMMA SameReadsTier ==
    ASSUME NEW Q, NEW P, SameReads(Q, P), NEW F, TierIsKept(Q, F)
    PROVE  TierIsKept(P, F)
<1>1. \A s, l, c, lo, hi : FreeReads(P, s, l, c, lo, hi) = FreeReads(Q, s, l, c, lo, hi) BY SameReadsCount
<1> QED BY <1>1 DEF SameReads, TierIsKept

\* P is Q and one more read.
Grows(Q, P, r, n) ==
    /\ Q \in Seq(MeteredReads) /\ P \in Seq(MeteredReads) /\ r \in MeteredReads
    /\ n \notin DOMAIN Q /\ DOMAIN P = DOMAIN Q \cup {n} /\ P[n] = r
    /\ \A j \in DOMAIN Q : P[j] = Q[j] /\ Q[j] \in MeteredReads

LEMMA AskingGrows ==
    ASSUME NEW Q \in Seq(MeteredReads), NEW r \in MeteredReads
    PROVE  Grows(Q, Append(Q, r), r, Len(Q) + 1)
BY DEF Grows

\* The read that came is counted where it belongs, and nowhere else.
LEMMA GrowsCounts ==
    ASSUME NEW Q, NEW P, NEW r, NEW n, Grows(Q, P, r, n), NEW s, NEW l, NEW c, NEW lo, NEW hi
    PROVE  IF FreeOf(r, s, l, c) /\ lo <= r.asked /\ r.asked <= hi
           THEN Cardinality(FreeReads(P, s, l, c, lo, hi)) = Cardinality(FreeReads(Q, s, l, c, lo, hi)) + 1
           ELSE FreeReads(P, s, l, c, lo, hi) = FreeReads(Q, s, l, c, lo, hi)
<1> DEFINE before == FreeReads(Q, s, l, c, lo, hi)
<1>1. CASE FreeOf(r, s, l, c) /\ lo <= r.asked /\ r.asked <= hi
    <2>1. FreeReads(P, s, l, c, lo, hi) = before \cup {n} BY <1>1 DEF Grows, FreeReads
    <2>2. n \notin before BY DEF Grows, FreeReads
    <2>3. IsFiniteSet(before) BY FreeReadsAreFinite DEF Grows
    <2> QED BY <1>1, <2>1, <2>2, <2>3, FS_AddElement
<1>2. CASE ~(FreeOf(r, s, l, c) /\ lo <= r.asked /\ r.asked <= hi)
    <2>1. FreeReads(P, s, l, c, lo, hi) = before BY <1>2 DEF Grows, FreeReads
    <2> QED BY <1>2, <2>1
<1> QED BY <1>1, <1>2

\* A read of somebody else's, or one that is not free, leaves a caller's meter right.
LEMMA OtherReadsKeepMeter ==
    ASSUME NEW Q, NEW P, NEW r, NEW n, Grows(Q, P, r, n), NEW m, NEW F, NEW s, NEW l, NEW c,
           ~FreeOf(r, s, l, c), MeterCounts(Q, m, F, s, l, c)
    PROVE  MeterCounts(P, m, F, s, l, c)
<1>1. \A lo, hi : FreeReads(P, s, l, c, lo, hi) = FreeReads(Q, s, l, c, lo, hi) BY GrowsCounts
<1>2. \A j \in DOMAIN P : FreeOf(P[j], s, l, c) => j \in DOMAIN Q /\ P[j] = Q[j] BY DEF Grows
<1>3. \A j \in DOMAIN Q : j \in DOMAIN P /\ P[j] = Q[j] BY DEF Grows
<1> QED BY <1>1, <1>2, <1>3 DEF MeterCounts

\* A time within a window's reach is in it or before it.
LEMMA EarlierOrLately ==
    ASSUME NEW x \in Int, NEW y \in Int, NEW W \in Int, x < y + W
    PROVE  x <= y - 1 \/ (y <= x /\ x <= y + W - 1)
OBVIOUS

LEMMA TwoParts ==
    \A x, y, z, n, F \in Nat : x <= y + z /\ y < F /\ z <= n /\ n <= F => x < 2 * F
OBVIOUS

\* A meter that counts right, with a tier above the reads before its window, keeps the tier.
LEMMA MeterKeepsTier ==
    ASSUME NEW P \in Seq(MeteredReads), NEW m \in MeterWindows, NEW F \in Nat, NEW s, NEW l, NEW c,
           MeterCounts(P, m, F, s, l, c),
           NEW i \in DOMAIN P, FreeOf(P[i], s, l, c), m.start - MeterWindow < P[i].asked
    PROVE  Cardinality(FreeReads(P, s, l, c, P[i].asked, P[i].asked + MeterWindow - 1)) < 2 * F
<1> DEFINE t == P[i].asked
           earlier == FreeReads(P, s, l, c, t, m.start - 1)
           lately == FreeReads(P, s, l, c, m.start, m.start + MeterWindow - 1)
           stretch == FreeReads(P, s, l, c, t, t + MeterWindow - 1)
<1>0. MeterWindow \in Nat /\ m.start \in Int /\ m.count \in Nat BY MeterAssumption DEF MeterWindows
<1>1. \A j \in DOMAIN P : P[j].asked \in Nat
    <2>1. \A j \in DOMAIN P : P[j] \in MeteredReads OBVIOUS
    <2> QED BY <2>1 DEF MeteredReads
<1>2. t \in Nat BY <1>1
<1>a. m.count <= F /\ Cardinality(lately) <= m.count /\ m.count > 0 BY DEF MeterCounts
<1>3. \A j \in DOMAIN P : FreeOf(P[j], s, l, c) => P[j].asked < m.start + MeterWindow BY DEF MeterCounts
<1>4. stretch \subseteq earlier \cup lately
    <2> SUFFICES ASSUME NEW j \in stretch PROVE j \in earlier \cup lately OBVIOUS
    <2>1. j \in DOMAIN P /\ FreeOf(P[j], s, l, c) /\ t <= P[j].asked BY DEF FreeReads
    <2>2. P[j].asked \in Nat /\ P[j].asked < m.start + MeterWindow BY <1>1, <1>3, <2>1
    <2>3. P[j].asked <= m.start - 1 \/ (m.start <= P[j].asked /\ P[j].asked <= m.start + MeterWindow - 1)
        <3>1. P[j].asked \in Int /\ m.start \in Int /\ MeterWindow \in Int BY <1>0, <2>2
        <3> QED BY ONLY <3>1, <2>2, EarlierOrLately
    <2> QED BY <2>1, <2>3 DEF FreeReads
<1>6. IsFiniteSet(earlier) /\ IsFiniteSet(lately) /\ Cardinality(earlier) \in Nat /\ Cardinality(lately) \in Nat
      /\ Cardinality(stretch) \in Nat BY FreeReadsAreFinite
<1>7. Cardinality(stretch) <= Cardinality(earlier) + Cardinality(lately)
    <2>1. IsFiniteSet(earlier \cup lately) /\ IsFiniteSet(earlier \cap lately)
          /\ Cardinality(earlier \cup lately) = Cardinality(earlier) + Cardinality(lately) - Cardinality(earlier \cap lately)
        BY <1>6, FS_Union, FS_Intersection
    <2>2. Cardinality(earlier \cap lately) \in Nat /\ Cardinality(earlier \cup lately) \in Nat BY <2>1, FS_CardinalityType
    <2>3. Cardinality(stretch) <= Cardinality(earlier \cup lately) BY <1>4, <2>1, FS_Subset
    <2> HIDE DEF earlier, lately, stretch
    <2>4. Cardinality(earlier \cup lately) <= Cardinality(earlier) + Cardinality(lately) BY ONLY <1>6, <2>1, <2>2
    <2> QED BY <1>6, <2>2, <2>3, <2>4
<1>8. Cardinality(earlier) < F
    <2>1. CASE t < m.start BY <2>1 DEF MeterCounts
    <2>2. CASE ~(t < m.start)
        <3>1. \A x \in Nat : ~(t <= x /\ x <= m.start - 1) BY ONLY <1>0, <1>2, <2>2
        <3>2. Cardinality(earlier) = 0 BY <3>1, <1>1, NoFreeReads
        <3> HIDE DEF earlier
        <3> QED BY <1>0, <1>a, <3>2
    <2> QED BY <2>1, <2>2
<1> HIDE DEF earlier, lately, stretch
<1>9. Cardinality(stretch) < 2 * F BY <1>0, <1>a, <1>6, <1>7, <1>8, TwoParts
<1> QED BY <1>9 DEF stretch

\* What meterQuery does to a window.
Counts(m, m2, F, at, free) ==
    \/ /\ free = TRUE /\ at - m.start < MeterWindow /\ m.count < F
       /\ m2.start = m.start /\ m2.count = m.count + 1
    \/ /\ free = TRUE /\ at - m.start >= MeterWindow /\ 0 < F
       /\ m2.start = at /\ m2.count = 1
    \/ /\ free = FALSE /\ at - m.start < MeterWindow /\ m2 = m
    \/ /\ free = FALSE /\ at - m.start >= MeterWindow /\ F = 0
       /\ m2.start = at /\ m2.count = 0

LEMMA MeterQueryCounts ==
    ASSUME NEW s \in Servers, NEW c \in Callers, QueriesTypeOK
    PROVE  /\ meterQuery(s, c).free \in BOOLEAN /\ meterQuery(s, c).window \in MeterWindows
           /\ Counts(meter[s][c], meterQuery(s, c).window, freePerWindow, now, meterQuery(s, c).free)
<1> DEFINE m == meter[s][c]
<1>1. m \in MeterWindows /\ now \in Nat /\ freePerWindow \in Nat BY DEF QueriesTypeOK
<1>2. m.start \in Int /\ m.count \in Nat /\ MeterWindow \in Nat BY <1>1, MeterAssumption DEF MeterWindows
<1> HIDE DEF m
<1> DEFINE f == meterQuery(s, c).free
           w == meterQuery(s, c).window
<1>3. CASE now - m.start >= MeterWindow
    <2>1. f = (0 < freePerWindow)
          /\ w = (IF 0 < freePerWindow THEN [start |-> now, count |-> 1] ELSE [start |-> now, count |-> 0])
        BY <1>3 DEF meterQuery, m
    <2>a. [start |-> now, count |-> 1] \in MeterWindows /\ [start |-> now, count |-> 0] \in MeterWindows BY <1>1 DEF MeterWindows
    <2> HIDE DEF f, w
    <2>2. CASE 0 < freePerWindow
        <3>1. f = TRUE BY <2>1, <2>2
        <3>2. w \in MeterWindows /\ w.start = now /\ w.count = 1 BY <2>1, <2>a, <2>2
        <3>3. Counts(m, w, freePerWindow, now, f) BY <1>3, <2>2, <3>1, <3>2 DEF Counts
        <3> QED BY <3>1, <3>2, <3>3 DEF m, f, w
    <2>3. CASE ~(0 < freePerWindow)
        <3>1. (0 < freePerWindow) = FALSE BY <2>3
        <3>2. f = FALSE BY <2>1, <3>1, Zenon
        <3>3. w \in MeterWindows /\ w.start = now /\ w.count = 0 BY <2>1, <2>a, <2>3
        <3>4. freePerWindow = 0 BY <1>1, <2>3
        <3>5. Counts(m, w, freePerWindow, now, f) BY <1>3, <3>2, <3>3, <3>4 DEF Counts
        <3> QED BY <3>2, <3>3, <3>5 DEF m, f, w
    <2> QED BY <2>2, <2>3
<1>4. CASE ~(now - m.start >= MeterWindow)
    <2>1. f = (m.count < freePerWindow) /\ w = (IF m.count < freePerWindow THEN [m EXCEPT !.count = @ + 1] ELSE m)
        BY <1>4 DEF meterQuery, m
    <2>2. now - m.start < MeterWindow BY <1>1, <1>2, <1>4
    <2> HIDE DEF f, w
    <2>3. CASE m.count < freePerWindow
        <3>1. f = TRUE BY <2>1, <2>3
        <3>2. w \in MeterWindows /\ w.start = m.start /\ w.count = m.count + 1 BY <1>1, <1>2, <2>1, <2>3 DEF MeterWindows
        <3>3. Counts(m, w, freePerWindow, now, f) BY <2>2, <2>3, <3>1, <3>2 DEF Counts
        <3> QED BY <3>1, <3>2, <3>3 DEF m, f, w
    <2>4. CASE ~(m.count < freePerWindow)
        <3>1. (m.count < freePerWindow) = FALSE BY <2>4
        <3>2. f = FALSE BY <2>1, <3>1, Zenon
        <3>3. w = m BY <2>1, <2>4
        <3>4. Counts(m, w, freePerWindow, now, f) BY <2>2, <3>2, <3>3 DEF Counts
        <3> QED BY <1>1, <3>2, <3>3, <3>4 DEF m, f, w
    <2> QED BY <2>3, <2>4
<1> QED BY <1>3, <1>4

\* A window that goes on, and one more read in it.
LEMMA WindowGoesOn ==
    ASSUME NEW Q, NEW P, NEW r, NEW n, Grows(Q, P, r, n),
           NEW m \in MeterWindows, NEW m2 \in MeterWindows, NEW F \in Nat, NEW s, NEW l, NEW c, FreeOf(r, s, l, c),
           MeterCounts(Q, m, F, s, l, c), m.start <= r.asked,
           r.asked - m.start < MeterWindow, m.count < F, m2.start = m.start, m2.count = m.count + 1
    PROVE  MeterCounts(P, m2, F, s, l, c)
<1>0. MeterWindow \in Nat /\ MeterWindow # 0 /\ m.start \in Int /\ m.count \in Nat /\ r.asked \in Nat
    BY MeterAssumption DEF MeterWindows, Grows, MeteredReads
<1>1. \A j \in DOMAIN P : j = n \/ (j \in DOMAIN Q /\ P[j] = Q[j]) BY DEF Grows
<1>a. n \in DOMAIN P /\ P[n] = r /\ \A j \in DOMAIN Q : j \in DOMAIN P /\ P[j] = Q[j] BY DEF Grows
<1>2. m2.count <= F /\ m2.count > 0 BY <1>0
<1>3. \A j \in DOMAIN P : FreeOf(P[j], s, l, c) => P[j].asked < m2.start + MeterWindow
    <2>1. r.asked < m.start + MeterWindow BY <1>0
    <2>2. \A j \in DOMAIN Q : FreeOf(Q[j], s, l, c) => Q[j].asked < m.start + MeterWindow BY DEF MeterCounts
    <2> QED BY <1>1, <1>a, <2>1, <2>2
<1>4. ASSUME NEW j \in DOMAIN P, FreeOf(P[j], s, l, c), m2.start - MeterWindow < P[j].asked, P[j].asked < m2.start
      PROVE  Cardinality(FreeReads(P, s, l, c, P[j].asked, m2.start - 1)) < F
    <2>1. ~(r.asked <= m.start - 1) /\ ~(r.asked < m.start) BY <1>0
    <2>2. j \in DOMAIN Q /\ P[j] = Q[j] BY <1>1, <1>a, <1>4, <2>1
    <2>3. Cardinality(FreeReads(Q, s, l, c, Q[j].asked, m.start - 1)) < F BY <1>4, <2>2 DEF MeterCounts
    <2>4. FreeReads(P, s, l, c, P[j].asked, m.start - 1) = FreeReads(Q, s, l, c, P[j].asked, m.start - 1) BY <2>1, GrowsCounts
    <2> QED BY <2>2, <2>3, <2>4
<1>5. \E j \in DOMAIN P : FreeOf(P[j], s, l, c) /\ P[j].asked = m2.start
    <2>1. m.count > 0
        <3>1. SUFFICES ASSUME m.count = 0 PROVE FALSE BY <1>0
        <3>2. F # 0 /\ m.start = -MeterWindow BY <1>0, <3>1 DEF MeterCounts
        <3> QED BY <1>0, <3>2
    <2>2. PICK j \in DOMAIN Q : FreeOf(Q[j], s, l, c) /\ Q[j].asked = m.start BY <2>1 DEF MeterCounts
    <2> QED BY <1>a, <2>2
<1>6. Cardinality(FreeReads(P, s, l, c, m2.start, m2.start + MeterWindow - 1)) <= m2.count
    <2>1. m.start <= r.asked /\ r.asked <= m.start + MeterWindow - 1 BY <1>0
    <2>2. Cardinality(FreeReads(P, s, l, c, m.start, m.start + MeterWindow - 1))
          = Cardinality(FreeReads(Q, s, l, c, m.start, m.start + MeterWindow - 1)) + 1 BY <2>1, GrowsCounts
    <2>3. Cardinality(FreeReads(Q, s, l, c, m.start, m.start + MeterWindow - 1)) <= m.count BY DEF MeterCounts
    <2>4. Cardinality(FreeReads(Q, s, l, c, m.start, m.start + MeterWindow - 1)) \in Nat BY FreeReadsAreFinite DEF Grows
    <2> QED BY <1>0, <2>2, <2>3, <2>4
<1>7. m2.count # 0 BY <1>0
<1> QED BY <1>2, <1>3, <1>4, <1>5, <1>6, <1>7 DEF MeterCounts

\* A window that starts anew with a read: the one before it had one at its own start, so that
\* less than a tier of it is less than a window away.
LEMMA WindowStarts ==
    ASSUME NEW Q, NEW P, NEW r, NEW n, Grows(Q, P, r, n),
           NEW m \in MeterWindows, NEW m2 \in MeterWindows, NEW F \in Nat, NEW s, NEW l, NEW c, FreeOf(r, s, l, c),
           MeterCounts(Q, m, F, s, l, c), r.asked - m.start >= MeterWindow, 0 < F, m2.start = r.asked, m2.count = 1
    PROVE  MeterCounts(P, m2, F, s, l, c)
<1>0. MeterWindow \in Nat /\ MeterWindow # 0 /\ m.start \in Int /\ m.count \in Nat /\ r.asked \in Nat
    BY MeterAssumption DEF MeterWindows, Grows, MeteredReads
<1>1. \A j \in DOMAIN P : j = n \/ (j \in DOMAIN Q /\ P[j] = Q[j]) BY DEF Grows
<1>a. n \in DOMAIN P /\ P[n] = r /\ \A j \in DOMAIN Q : j \in DOMAIN P /\ P[j] = Q[j] BY DEF Grows
<1>b. \A j \in DOMAIN Q : Q[j].asked \in Nat BY DEF Grows, MeteredReads
<1>c. \A j \in DOMAIN Q : FreeOf(Q[j], s, l, c) => Q[j].asked < r.asked
    <2> SUFFICES ASSUME NEW j \in DOMAIN Q, FreeOf(Q[j], s, l, c) PROVE Q[j].asked < r.asked OBVIOUS
    <2>1. Q[j].asked < m.start + MeterWindow /\ Q[j].asked \in Nat BY <1>b DEF MeterCounts
    <2> QED BY ONLY <1>0, <2>1, r.asked - m.start >= MeterWindow
<1>2. m2.count <= F /\ m2.count > 0 /\ m2.count # 0 BY <1>0
<1>3. \A j \in DOMAIN P : FreeOf(P[j], s, l, c) => P[j].asked < m2.start + MeterWindow
    <2>1. r.asked < r.asked + MeterWindow BY <1>0
    <2>2. \A x \in Nat : x < r.asked => x < r.asked + MeterWindow BY <1>0
    <2> QED BY <1>1, <1>a, <1>b, <1>c, <2>1, <2>2
<1>4. ASSUME NEW j \in DOMAIN P, FreeOf(P[j], s, l, c), m2.start - MeterWindow < P[j].asked, P[j].asked < m2.start
      PROVE  Cardinality(FreeReads(P, s, l, c, P[j].asked, m2.start - 1)) < F
    <2> DEFINE part == FreeReads(Q, s, l, c, Q[j].asked, r.asked - 1)
               full == FreeReads(Q, s, l, c, m.start, m.start + MeterWindow - 1)
    <2>1. ~(r.asked <= r.asked - 1) /\ ~(r.asked < r.asked) BY <1>0
    <2>2. j \in DOMAIN Q /\ P[j] = Q[j] BY <1>1, <1>a, <1>4, <2>1
    <2>3. FreeReads(P, s, l, c, P[j].asked, r.asked - 1) = part BY <2>1, <2>2, GrowsCounts
    <2>4. m.start < Q[j].asked
        <3>1. Q[j].asked \in Nat /\ r.asked - MeterWindow < Q[j].asked BY <1>b, <1>4, <2>2
        <3> QED BY ONLY <1>0, <3>1, r.asked - m.start >= MeterWindow
    <2>5. m.count > 0 /\ m.count <= F /\ Cardinality(full) <= m.count BY <1>4, <2>2 DEF MeterCounts
    <2>6. PICK k \in DOMAIN Q : FreeOf(Q[k], s, l, c) /\ Q[k].asked = m.start BY <2>5 DEF MeterCounts
    <2>7. part \subseteq full \ {k}
        <3> SUFFICES ASSUME NEW i \in part PROVE i \in full \ {k} OBVIOUS
        <3>1. i \in DOMAIN Q /\ FreeOf(Q[i], s, l, c) /\ Q[j].asked <= Q[i].asked BY DEF FreeReads
        <3>2. Q[i].asked < m.start + MeterWindow /\ Q[i].asked \in Nat /\ Q[j].asked \in Nat
            BY <1>b, <2>2, <3>1 DEF MeterCounts
        <3>3. m.start <= Q[i].asked /\ Q[i].asked <= m.start + MeterWindow - 1 /\ Q[i].asked # m.start
            BY ONLY <1>0, <2>4, <3>1, <3>2
        <3> QED BY <2>6, <3>1, <3>3 DEF FreeReads
    <2>8. k \in full
        <3>1. m.start <= m.start /\ m.start <= m.start + MeterWindow - 1 BY ONLY <1>0
        <3> QED BY <2>6, <3>1 DEF FreeReads
    <2>9. IsFiniteSet(full) /\ Cardinality(full) \in Nat /\ Cardinality(part) \in Nat BY FreeReadsAreFinite DEF Grows
    <2> HIDE DEF part, full
    <2>10. IsFiniteSet(full \ {k}) /\ Cardinality(full \ {k}) = Cardinality(full) - 1 BY <2>8, <2>9, FS_RemoveElement
    <2>11. Cardinality(part) <= Cardinality(full \ {k}) BY <2>7, <2>10, FS_Subset
    <2>12. Cardinality(part) < F BY ONLY <1>0, <2>5, <2>9, <2>10, <2>11, F \in Nat
    <2> QED BY <2>3, <2>12
<1>5. \E j \in DOMAIN P : FreeOf(P[j], s, l, c) /\ P[j].asked = m2.start BY <1>a
<1>6. Cardinality(FreeReads(P, s, l, c, m2.start, m2.start + MeterWindow - 1)) <= m2.count
    <2>1. r.asked <= r.asked /\ r.asked <= r.asked + MeterWindow - 1 BY <1>0
    <2>2. Cardinality(FreeReads(P, s, l, c, r.asked, r.asked + MeterWindow - 1))
          = Cardinality(FreeReads(Q, s, l, c, r.asked, r.asked + MeterWindow - 1)) + 1 BY <2>1, GrowsCounts
    <2>3. Cardinality(FreeReads(Q, s, l, c, r.asked, r.asked + MeterWindow - 1)) = 0
        <3>1. \A x \in Nat : x < r.asked => ~(r.asked <= x) BY <1>0
        <3>2. Q \in Seq(MeteredReads) BY DEF Grows
        <3> QED BY <1>b, <1>c, <3>1, <3>2, NoFreeReads
    <2> QED BY <2>2, <2>3
<1> QED BY <1>2, <1>3, <1>4, <1>5, <1>6 DEF MeterCounts

\* A window that starts anew without a read: there is no tier, and so no free read.
LEMMA NoTierNoReads ==
    ASSUME NEW Q, NEW P, NEW r, NEW n, Grows(Q, P, r, n),
           NEW m \in MeterWindows, NEW m2 \in MeterWindows, NEW s, NEW l, NEW c, ~FreeOf(r, s, l, c),
           MeterCounts(Q, m, 0, s, l, c), m2.count = 0
    PROVE  MeterCounts(P, m2, 0, s, l, c)
<1>0. m.count \in Nat BY DEF MeterWindows
<1>1. \A j \in DOMAIN Q : ~FreeOf(Q[j], s, l, c) BY <1>0 DEF MeterCounts
<1>2. \A j \in DOMAIN P : ~FreeOf(P[j], s, l, c) BY <1>1 DEF Grows
<1>3. P \in Seq(MeteredReads) BY DEF Grows
<1>4. Cardinality(FreeReads(P, s, l, c, m2.start, m2.start + MeterWindow - 1)) = 0 BY <1>2, <1>3, NoFreeReads
<1> QED BY <1>2, <1>4 DEF MeterCounts

LEMMA CountedReadsKeepMeter ==
    ASSUME NEW Q, NEW P, NEW r, NEW n, Grows(Q, P, r, n),
           NEW m \in MeterWindows, NEW m2 \in MeterWindows, NEW F \in Nat,
           MeterCounts(Q, m, F, r.server, r.life, r.caller), m.start <= r.asked,
           Counts(m, m2, F, r.asked, r.free)
    PROVE  MeterCounts(P, m2, F, r.server, r.life, r.caller) /\ m2.start <= r.asked
<1> DEFINE mine == MeterCounts(P, m2, F, r.server, r.life, r.caller)
<1>0. r.asked \in Nat BY DEF Grows, MeteredReads
<1>1. CASE r.free = TRUE
    <2>1. FreeOf(r, r.server, r.life, r.caller) BY <1>1 DEF FreeOf
    <2>2. CASE r.asked - m.start < MeterWindow /\ m.count < F /\ m2.start = m.start /\ m2.count = m.count + 1
        <3>1. mine BY <2>1, <2>2, WindowGoesOn
        <3> QED BY <2>2, <3>1
    <2>3. CASE r.asked - m.start >= MeterWindow /\ 0 < F /\ m2.start = r.asked /\ m2.count = 1
        <3>1. mine BY <2>1, <2>3, WindowStarts
        <3> QED BY <1>0, <2>3, <3>1
    <2> QED BY <1>1, <2>2, <2>3 DEF Counts
<1>2. CASE r.free = FALSE
    <2>1. ~FreeOf(r, r.server, r.life, r.caller) BY <1>2 DEF FreeOf
    <2>2. CASE m2 = m
        <3>1. mine BY <2>1, <2>2, OtherReadsKeepMeter
        <3> QED BY <2>2, <3>1
    <2>3. CASE F = 0 /\ m2.start = r.asked /\ m2.count = 0
        <3>1. mine BY <2>1, <2>3, NoTierNoReads
        <3> QED BY <1>0, <2>3, <3>1
    <2> QED BY <1>2, <2>2, <2>3 DEF Counts
<1>3. r.free \in BOOLEAN BY DEF Grows, MeteredReads
<1> QED BY <1>1, <1>2, <1>3

LEMMA CountedReadsKeepTier ==
    ASSUME NEW Q, NEW P, NEW r, NEW n, Grows(Q, P, r, n),
           NEW m2 \in MeterWindows, NEW F \in Nat, TierIsKept(Q, F),
           MeterCounts(P, m2, F, r.server, r.life, r.caller), m2.start <= r.asked
    PROVE  TierIsKept(P, F)
<1>0. MeterWindow \in Nat /\ MeterWindow # 0 /\ m2.start \in Int /\ r.asked \in Nat /\ P \in Seq(MeteredReads)
    BY MeterAssumption DEF MeterWindows, Grows, MeteredReads
<1> SUFFICES ASSUME NEW i \in DOMAIN P, P[i].free = TRUE
             PROVE  Cardinality(FreeReads(P, P[i].server, P[i].life, P[i].caller, P[i].asked, P[i].asked + MeterWindow - 1)) < 2 * F
    BY DEF TierIsKept
<1>1. i = n \/ (i \in DOMAIN Q /\ P[i] = Q[i]) BY DEF Grows
<1>2. P[n] = r /\ P[i].asked \in Nat
    <2>1. P[n] = r BY DEF Grows
    <2>2. P[i] \in MeteredReads BY <1>0
    <2> QED BY <2>1, <2>2 DEF MeteredReads
<1>3. ASSUME i \in DOMAIN Q, P[i] = Q[i],
             ~(FreeOf(r, P[i].server, P[i].life, P[i].caller) /\ P[i].asked <= r.asked /\ r.asked <= P[i].asked + MeterWindow - 1)
      PROVE  Cardinality(FreeReads(P, P[i].server, P[i].life, P[i].caller, P[i].asked, P[i].asked + MeterWindow - 1)) < 2 * F
    <2>1. FreeReads(P, P[i].server, P[i].life, P[i].caller, P[i].asked, P[i].asked + MeterWindow - 1)
          = FreeReads(Q, P[i].server, P[i].life, P[i].caller, P[i].asked, P[i].asked + MeterWindow - 1) BY <1>3, GrowsCounts
    <2> QED BY <1>3, <2>1 DEF TierIsKept
<1>4. CASE FreeOf(r, P[i].server, P[i].life, P[i].caller)
    <2>1. r.server = P[i].server /\ r.life = P[i].life /\ r.caller = P[i].caller BY <1>4 DEF FreeOf
    <2>2. FreeOf(P[i], P[i].server, P[i].life, P[i].caller) BY DEF FreeOf
    <2>3. CASE m2.start - MeterWindow < P[i].asked BY <1>0, <2>1, <2>2, <2>3, MeterKeepsTier
    <2>4. CASE ~(m2.start - MeterWindow < P[i].asked)
        <3>1. ~(r.asked <= P[i].asked + MeterWindow - 1) /\ r.asked # P[i].asked
            BY ONLY <1>0, <1>2, <2>4, m2.start <= r.asked
        <3> QED BY <1>1, <1>2, <1>3, <3>1
    <2> QED BY <2>3, <2>4
<1>5. CASE ~FreeOf(r, P[i].server, P[i].life, P[i].caller)
    <2>1. i # n BY <1>2, <1>5 DEF FreeOf
    <2> QED BY <1>1, <1>3, <1>5, <2>1
<1> QED BY <1>4, <1>5

-----------------------------------------------------------------------------
\* A fresh window is right for a life that has no reads yet.
LEMMA FreshCounts ==
    ASSUME NEW Q \in Seq(MeteredReads), NEW F \in Nat, NEW s, NEW l, NEW c, \A j \in DOMAIN Q : ~FreeOf(Q[j], s, l, c)
    PROVE  MeterCounts(Q, Fresh, F, s, l, c)
<1>1. Fresh.start = -MeterWindow /\ Fresh.count = 0 BY DEF Fresh
<1>2. Cardinality(FreeReads(Q, s, l, c, Fresh.start, Fresh.start + MeterWindow - 1)) = 0 BY NoFreeReads
<1> QED BY <1>1, <1>2 DEF MeterCounts

LEMMA QueriesStart == QueriesInit /\ now = 0 => QueriesInv
<1> SUFFICES ASSUME QueriesInit, now = 0 PROVE QueriesInv OBVIOUS
<1> USE DEF QueriesInit
<1>1. queries = <<>> /\ DOMAIN queries = {} /\ queries \in Seq(MeteredReads) OBVIOUS
<1>2. MeterWindow \in Nat /\ freePerWindow \in Nat BY MeterAssumption
<1>3. Fresh \in MeterWindows /\ Fresh.start = -MeterWindow /\ Fresh.count = 0 BY <1>2 DEF Fresh, MeterWindows
<1>4. QueriesTypeOK BY <1>1, <1>2, <1>3 DEF QueriesTypeOK
<1>5. ReadsStand(queries, serverLife, now, wires) /\ BurntIsTaken(queries, burnt, serverLife) /\ TierIsKept(queries, freePerWindow)
    BY <1>1 DEF ReadsStand, BurntIsTaken, TierIsKept
<1>6. ASSUME NEW s \in Servers, NEW c \in Callers
      PROVE  meter[s][c].start <= now /\ MeterCounts(queries, meter[s][c], freePerWindow, s, serverLife[s], c)
    <2>1. meter[s][c] = Fresh OBVIOUS
    <2>2. MeterCounts(queries, Fresh, freePerWindow, s, serverLife[s], c) BY <1>1, <1>2, FreshCounts
    <2>3. Fresh.start <= 0 BY <1>2, <1>3
    <2> QED BY <2>1, <2>2, <2>3
<1> QED BY <1>4, <1>5, <1>6 DEF QueriesInv

\* The read that a request becomes.
IsAsked(r, s, c) ==
    /\ r \in MeteredReads /\ r.server = s /\ r.life = serverLife[s] /\ r.caller = c /\ r.asked = now
    /\ r.free = meterQuery(s, c).free /\ r.took = FALSE /\ r.why \in {"none", "nonce"}
    /\ r.free = TRUE => r.step \in {"answered", "missed"}
    /\ r.free = FALSE => r.step \in {"challenged", "refused", "verifying"}
    /\ r.step = "verifying" => r.wire \in Wires

LEMMA AskedRead ==
    ASSUME QueriesTypeOK, NEW s \in Servers, NEW c \in Callers, NEW topic \in Topics, NEW given,
           given = NoProof \/ given.wire \in Wires, Ask(s, c, topic, given)
    PROVE  \E r : IsAsked(r, s, c) /\ queries' = Append(queries, r)
<1> DEFINE free == meterQuery(s, c).free
           to == CASE free -> answerTo(topic)
                     [] ~free /\ given = NoProof -> "challenged"
                     [] ~free /\ given # NoProof /\ given.nonce # quoteNonce(topic, c) -> "refused"
                     [] OTHER -> "verifying"
           r == [server |-> s, life |-> serverLife[s], caller |-> c, topic |-> topic, free |-> free,
                 wire |-> IF to = "verifying" THEN given.wire ELSE "none", asked |-> now, took |-> FALSE,
                 step |-> to, why |-> IF to = "refused" THEN "nonce" ELSE "none"]
<1>1. queries' = Append(queries, r) BY DEF Ask
<1>2. free \in BOOLEAN /\ serverLife[s] \in Nat /\ now \in Nat BY MeterQueryCounts DEF QueriesTypeOK
<1> HIDE DEF free
<1>3. free = TRUE => to \in {"answered", "missed"} BY DEF answerTo
<1>4. free = FALSE => to \in {"challenged", "refused", "verifying"} /\ (to = "verifying" => given.wire \in Wires) OBVIOUS
<1> HIDE DEF to
<1>5. r \in MeteredReads BY <1>2, <1>3, <1>4 DEF MeteredReads, AtNode
<1>6. IsAsked(r, s, c) BY <1>2, <1>3, <1>4, <1>5 DEF IsAsked, free
<1> QED BY <1>1, <1>6

LEMMA AskKeepsInv ==
    ASSUME QueriesInv, NEW s \in Servers, NEW c \in Callers, NEW topic \in Topics, NEW given,
           given = NoProof \/ given.wire \in Wires, Ask(s, c, topic, given), UNCHANGED now
    PROVE  QueriesInv'
<1>0. QueriesTypeOK BY DEF QueriesInv
<1>1. PICK r : IsAsked(r, s, c) /\ queries' = Append(queries, r) BY <1>0, AskedRead
<1> DEFINE n == Len(queries) + 1
           w == meterQuery(s, c).window
<1>2. queries \in Seq(MeteredReads) /\ now \in Nat /\ freePerWindow \in Nat BY <1>0 DEF QueriesTypeOK
<1>3. r \in MeteredReads /\ r.server = s /\ r.life = serverLife[s] /\ r.caller = c /\ r.asked = now BY <1>1 DEF IsAsked
<1>4. Grows(queries, queries', r, n) BY <1>1, <1>2, <1>3, AskingGrows
<1>5. w \in MeterWindows /\ Counts(meter[s][c], w, freePerWindow, r.asked, r.free)
    BY <1>0, <1>1, <1>3, MeterQueryCounts DEF IsAsked
<1>6. /\ meter' = [meter EXCEPT ![s][c] = w]
      /\ freePerWindow' = freePerWindow /\ burnt' = burnt /\ serverLife' = serverLife /\ wires' = wires /\ now' = now
    BY DEF Ask, queryVars
<1> HIDE DEF w, n
<1>7. QueriesTypeOK'
    <2>1. queries' \in Seq(MeteredReads) BY <1>4 DEF Grows
    <2>2. meter' \in [Servers -> [Callers -> MeterWindows]] BY <1>0, <1>5, <1>6 DEF QueriesTypeOK
    <2> QED BY <1>0, <1>6, <2>1, <2>2 DEF QueriesTypeOK
<1>8. ReadsStand(queries', serverLife', now', wires')
    <2>1. ReadStands(r, serverLife, now, wires)
        <3>1. serverLife[s] \in Nat BY <1>0 DEF QueriesTypeOK
        <3> QED BY <1>1, <1>2, <3>1 DEF IsAsked, ReadStands, AtNode, MeteredReads
    <2>2. ReadsStand(queries, serverLife, now, wires) BY DEF QueriesInv
    <2> QED BY <1>4, <1>6, <2>1, <2>2 DEF ReadsStand, Grows
<1>9. BurntIsTaken(queries', burnt', serverLife')
    <2>1. BurntIsTaken(queries, burnt, serverLife) BY DEF QueriesInv
    <2>2. r.took = FALSE /\ r.why # "spent" BY <1>1 DEF IsAsked
    <2>3. \A i \in DOMAIN queries' : i = n \/ (i \in DOMAIN queries /\ queries'[i] = queries[i]) BY <1>4 DEF Grows
    <2>4. queries'[n] = r /\ \A i \in DOMAIN queries : i \in DOMAIN queries' /\ queries'[i] = queries[i] BY <1>4 DEF Grows
    <2>5. \A i, t, l, x : i \in DOMAIN queries' /\ TookWire(queries', i, t, l, x) <=> i \in DOMAIN queries /\ TookWire(queries, i, t, l, x)
        BY <2>2, <2>3, <2>4 DEF TookWire
    <2>6. \A i \in DOMAIN queries' : queries'[i].why = "spent" => i \in DOMAIN queries /\ queries'[i] = queries[i]
        BY <2>2, <2>3, <2>4
    <2> QED BY <1>6, <2>1, <2>5, <2>6 DEF BurntIsTaken
<1>10. meter[s][c] \in MeterWindows /\ meter[s][c].start <= now
       /\ MeterCounts(queries, meter[s][c], freePerWindow, s, serverLife[s], c) BY <1>0 DEF QueriesInv, QueriesTypeOK
<1>11. MeterCounts(queries', w, freePerWindow, s, serverLife[s], c) /\ w.start <= now
    BY <1>2, <1>3, <1>4, <1>5, <1>10, CountedReadsKeepMeter
<1>12. ASSUME NEW t \in Servers, NEW d \in Callers
       PROVE  meter'[t][d].start <= now' /\ MeterCounts(queries', meter'[t][d], freePerWindow', t, serverLife'[t], d)
    <2>1. CASE t = s /\ d = c
        <3>1. meter'[t][d] = w BY <1>0, <1>6, <2>1 DEF QueriesTypeOK
        <3> QED BY <1>6, <1>11, <2>1, <3>1
    <2>2. CASE ~(t = s /\ d = c)
        <3>1. meter'[t][d] = meter[t][d] BY <1>0, <1>6, <2>2 DEF QueriesTypeOK
        <3>2. meter[t][d].start <= now /\ MeterCounts(queries, meter[t][d], freePerWindow, t, serverLife[t], d) BY DEF QueriesInv
        <3>3. ~FreeOf(r, t, serverLife[t], d) BY <1>3, <2>2 DEF FreeOf
        <3>4. MeterCounts(queries', meter[t][d], freePerWindow, t, serverLife[t], d) BY <1>4, <3>2, <3>3, OtherReadsKeepMeter
        <3> QED BY <1>6, <3>1, <3>2, <3>4
    <2> QED BY <2>1, <2>2
<1>13. TierIsKept(queries', freePerWindow')
    <2>1. TierIsKept(queries, freePerWindow) BY DEF QueriesInv
    <2>2. TierIsKept(queries', freePerWindow) BY <1>2, <1>3, <1>4, <1>5, <1>11, <2>1, CountedReadsKeepTier
    <2> QED BY <1>6, <2>2
<1> QED BY <1>7, <1>8, <1>9, <1>12, <1>13 DEF QueriesInv

\* A step that leaves alone what the meter counts.
LEMMA MeterStandsStill ==
    ASSUME QueriesInv, UNCHANGED <<now, freePerWindow, meter, serverLife>>,
           burnt' \in [Servers -> SUBSET Wires], wires' \in [Wires -> {"unsent", "pending", "executed", "reverted"}],
           queries' \in Seq(MeteredReads), SameReads(queries, queries'),
           ReadsStand(queries', serverLife, now, wires'), BurntIsTaken(queries', burnt', serverLife)
    PROVE  QueriesInv'
<1>1. /\ now' = now /\ freePerWindow' = freePerWindow /\ meter' = meter /\ serverLife' = serverLife
      /\ QueriesTypeOK /\ TierIsKept(queries, freePerWindow) BY DEF QueriesInv
<1>2. QueriesTypeOK' BY <1>1 DEF QueriesTypeOK
<1>3. TierIsKept(queries', freePerWindow) BY <1>1, SameReadsTier
<1>4. ASSUME NEW s \in Servers, NEW c \in Callers
      PROVE  meter[s][c].start <= now /\ MeterCounts(queries', meter[s][c], freePerWindow, s, serverLife[s], c)
    <2>1. meter[s][c].start <= now /\ MeterCounts(queries, meter[s][c], freePerWindow, s, serverLife[s], c) BY DEF QueriesInv
    <2> QED BY <2>1, SameReadsMeter
<1> QED BY <1>1, <1>2, <1>3, <1>4 DEF QueriesInv

\* P is Q with read i moved on, the transfer it names and whose it is kept.
MovesOn(Q, P, i) ==
    /\ P \in Seq(MeteredReads) /\ SameReads(Q, P)
    /\ i \in DOMAIN Q /\ i \in DOMAIN P /\ DOMAIN P = DOMAIN Q
    /\ Q[i] \in MeteredReads /\ P[i] \in MeteredReads
    /\ P[i].server = Q[i].server /\ P[i].life = Q[i].life /\ P[i].wire = Q[i].wire /\ P[i].caller = Q[i].caller
    /\ P[i].asked = Q[i].asked /\ P[i].free = Q[i].free
    /\ \A j \in DOMAIN Q \ {i} : P[j] = Q[j]

LEMMA OneReadMoves ==
    ASSUME NEW Q \in Seq(MeteredReads), NEW i \in DOMAIN Q, NEW r \in MeteredReads, NEW P, P = [Q EXCEPT ![i] = r]
    PROVE  P \in Seq(MeteredReads) /\ DOMAIN P = DOMAIN Q /\ P[i] = r /\ \A j \in DOMAIN Q \ {i} : P[j] = Q[j]
OBVIOUS

SteppedTo(Q, i, st, y) == [Q EXCEPT ![i].step = st, ![i].why = y]
PaidAt(Q, i) == [Q EXCEPT ![i].step = "paid", ![i].took = TRUE]

LEMMA GoesMovesOn ==
    ASSUME NEW Q \in Seq(MeteredReads), NEW i \in DOMAIN Q, NEW st \in AtNode \cup {"answered", "missed", "refused"},
           NEW y \in {"none", "unheard", "bad", "late", "spent"}, NEW P, P = SteppedTo(Q, i, st, y)
    PROVE  MovesOn(Q, P, i) /\ P[i].step = st /\ P[i].why = y /\ P[i].took = Q[i].took
<1> DEFINE r == [Q[i] EXCEPT !.step = st, !.why = y]
<1>1. Q[i] \in MeteredReads OBVIOUS
<1>2. r \in MeteredReads BY <1>1 DEF MeteredReads
<1>5. r.step = st /\ r.why = y /\ r.took = Q[i].took /\ r.server = Q[i].server /\ r.life = Q[i].life /\ r.wire = Q[i].wire /\ r.caller = Q[i].caller
      /\ r.asked = Q[i].asked /\ r.free = Q[i].free BY <1>1 DEF MeteredReads
<1>3. P = [Q EXCEPT ![i] = r] BY DEF SteppedTo
<1> HIDE DEF r
<1>4. P \in Seq(MeteredReads) /\ DOMAIN P = DOMAIN Q /\ P[i] = r /\ \A j \in DOMAIN Q \ {i} : P[j] = Q[j]
    BY ONLY <1>2, <1>3, OneReadMoves, Q \in Seq(MeteredReads), i \in DOMAIN Q
<1> QED BY <1>1, <1>2, <1>4, <1>5 DEF MovesOn, SameReads

LEMMA PaidMovesOn ==
    ASSUME NEW Q \in Seq(MeteredReads), NEW i \in DOMAIN Q, NEW P, P = PaidAt(Q, i)
    PROVE  MovesOn(Q, P, i) /\ P[i].step = "paid" /\ P[i].why = Q[i].why /\ P[i].took = TRUE
<1> DEFINE r == [Q[i] EXCEPT !.step = "paid", !.took = TRUE]
<1>1. Q[i] \in MeteredReads OBVIOUS
<1>2. r \in MeteredReads /\ r.step = "paid" /\ r.why = Q[i].why /\ r.took = TRUE
      /\ r.server = Q[i].server /\ r.life = Q[i].life /\ r.wire = Q[i].wire /\ r.caller = Q[i].caller
      /\ r.asked = Q[i].asked /\ r.free = Q[i].free BY <1>1 DEF MeteredReads, AtNode
<1>3. P = [Q EXCEPT ![i] = r] BY DEF PaidAt
<1> HIDE DEF r
<1>4. P \in Seq(MeteredReads) /\ DOMAIN P = DOMAIN Q /\ P[i] = r /\ \A j \in DOMAIN Q \ {i} : P[j] = Q[j]
    BY ONLY <1>2, <1>3, OneReadMoves, Q \in Seq(MeteredReads), i \in DOMAIN Q
<1> QED BY <1>1, <1>2, <1>4 DEF MovesOn, SameReads

\* A read that moves on without taking its transfer, for a reason of its own.
LEMMA MovingOnKeepsBurnt ==
    ASSUME NEW Q, NEW P, NEW i, MovesOn(Q, P, i), P[i].took = Q[i].took, NEW ash, NEW lives, BurntIsTaken(Q, ash, lives),
           P[i].why = "spent" => \E j \in DOMAIN Q \ {i} : TookWire(Q, j, Q[i].server, Q[i].life, Q[i].wire)
    PROVE  BurntIsTaken(P, ash, lives)
<1>1. DOMAIN P = DOMAIN Q /\ i \in DOMAIN Q /\ P[i].server = Q[i].server /\ P[i].life = Q[i].life /\ P[i].wire = Q[i].wire
    BY DEF MovesOn
<1>2. \A j \in DOMAIN Q : j = i \/ P[j] = Q[j] BY DEF MovesOn
<1>3. \A j \in DOMAIN Q : \A s, l, w : TookWire(P, j, s, l, w) <=> TookWire(Q, j, s, l, w) BY <1>1, <1>2 DEF TookWire
<1>4. ASSUME NEW k \in DOMAIN P, P[k].why = "spent"
      PROVE  \E j \in DOMAIN P \ {k} : TookWire(P, j, P[k].server, P[k].life, P[k].wire)
    <2>1. CASE k = i
        <3>1. PICK j \in DOMAIN Q \ {i} : TookWire(Q, j, Q[i].server, Q[i].life, Q[i].wire) BY <1>4, <2>1
        <3> QED BY <1>1, <1>3, <2>1, <3>1
    <2>2. CASE k # i
        <3>1. P[k] = Q[k] /\ k \in DOMAIN Q BY <1>1, <1>2, <2>2
        <3>2. PICK j \in DOMAIN Q \ {k} : TookWire(Q, j, Q[k].server, Q[k].life, Q[k].wire) BY <1>4, <3>1 DEF BurntIsTaken
        <3> QED BY <1>1, <1>3, <3>1, <3>2
    <2> QED BY <2>1, <2>2
<1> QED BY <1>1, <1>3, <1>4 DEF BurntIsTaken

\* A read that moves on within the server's life, to where its step allows.
LEMMA MovingOnStands ==
    ASSUME NEW Q, NEW P, NEW i, MovesOn(Q, P, i), NEW lives, NEW at, NEW chain, ReadsStand(Q, lives, at, chain),
           P[i].step \in AtNode => Q[i].step \in AtNode,
           P[i].step \in {"verifying", "verified"} => P[i].took = FALSE,
           P[i].step = "paid" => P[i].took = TRUE,
           P[i].free = FALSE /\ P[i].step \in {"answered", "missed"} => P[i].took = TRUE,
           P[i].took = TRUE => Q[i].step \in AtNode,
           P[i].took = TRUE \/ P[i].step = "verified" => chain[Q[i].wire] = "executed" /\ Pays(Q[i].wire, Q[i].caller),
           P[i].why = "bad" => Q[i].wire \in Wires /\ chain[Q[i].wire] \in {"executed", "reverted"}
                               /\ ~(chain[Q[i].wire] = "executed" /\ Pays(Q[i].wire, Q[i].caller))
    PROVE  ReadsStand(P, lives, at, chain)
<1>1. /\ P[i].server = Q[i].server /\ P[i].life = Q[i].life /\ P[i].wire = Q[i].wire /\ P[i].caller = Q[i].caller
      /\ P[i].asked = Q[i].asked /\ P[i].free = Q[i].free /\ i \in DOMAIN Q /\ DOMAIN P = DOMAIN Q
      /\ \A j \in DOMAIN Q \ {i} : P[j] = Q[j] BY DEF MovesOn
<1>2. ReadStands(Q[i], lives, at, chain) BY <1>1 DEF ReadsStand
<1>3. ReadStands(P[i], lives, at, chain) BY <1>1, <1>2 DEF ReadStands
<1> QED BY <1>1, <1>3 DEF ReadsStand

LEMMA ReadNodeKeepsInv ==
    ASSUME QueriesInv, NEW i \in DOMAIN queries, ReadNode(i), UNCHANGED now
    PROVE  QueriesInv'
<1> DEFINE q == queries[i]
<1>0. QueriesTypeOK /\ ReadsStand(queries, serverLife, now, wires) /\ BurntIsTaken(queries, burnt, serverLife) BY DEF QueriesInv
<1>1. queries \in Seq(MeteredReads) /\ q \in MeteredReads BY <1>0 DEF QueriesTypeOK
<1>2. q.step = "verifying" /\ UNCHANGED <<freePerWindow, meter, burnt, serverLife, wires>> BY DEF ReadNode
<1>3. ReadStands(q, serverLife, now, wires) BY <1>0 DEF ReadsStand
<1>4. q.took = FALSE /\ q.free = FALSE /\ q.wire \in Wires BY <1>2, <1>3 DEF ReadStands, AtNode
<1>5. wires[q.wire] = "executed" /\ Pays(q.wire, q.caller) <=> verifyTransferResult(q.wire, q.caller)
    BY DEF verifyTransferResult, Pays
<1>6. \E st \in {"refused", "verified"}, y \in {"none", "unheard", "bad", "late"} :
          /\ Goes(i, st, y)
          /\ st = "verified" => wires[q.wire] = "executed" /\ Pays(q.wire, q.caller)
          /\ y = "bad" => wires[q.wire] \in {"executed", "reverted"} /\ ~(wires[q.wire] = "executed" /\ Pays(q.wire, q.caller))
    <2>1. CASE Goes(i, "refused", "unheard") BY <2>1
    <2>2. CASE verifyTransferResult(q.wire, q.caller) /\ Goes(i, "verified", "none") BY <1>5, <2>2
    <2>3. CASE /\ wires[q.wire] \in {"executed", "reverted"} /\ ~verifyTransferResult(q.wire, q.caller)
               /\ Goes(i, "refused", "bad") BY <1>5, <2>3
    <2>4. CASE Goes(i, "refused", "late") BY <2>4
    <2> QED BY <2>1, <2>2, <2>3, <2>4 DEF ReadNode
<1>7. PICK st \in {"refused", "verified"}, y \in {"none", "unheard", "bad", "late"} :
          /\ Goes(i, st, y)
          /\ st = "verified" => wires[q.wire] = "executed" /\ Pays(q.wire, q.caller)
          /\ y = "bad" => wires[q.wire] \in {"executed", "reverted"} /\ ~(wires[q.wire] = "executed" /\ Pays(q.wire, q.caller))
    BY <1>6
<1>8. queries' = SteppedTo(queries, i, st, y) BY <1>7 DEF Goes, SteppedTo
<1>9. MovesOn(queries, queries', i) /\ queries'[i].step = st /\ queries'[i].why = y /\ queries'[i].took = q.took
    <2>1. st \in AtNode \cup {"answered", "missed", "refused"} /\ y \in {"none", "unheard", "bad", "late", "spent"} /\ i \in DOMAIN queries
        BY DEF AtNode
    <2> QED BY ONLY <1>1, <1>8, <2>1, GoesMovesOn
<1>10. ReadsStand(queries', serverLife, now, wires)
    <2>1. queries'[i].took = FALSE /\ queries'[i].step \in {"refused", "verified"} /\ q.step \in AtNode BY <1>2, <1>4, <1>9 DEF AtNode
    <2> QED BY <1>0, <1>4, <1>7, <1>9, <2>1, MovingOnStands
<1>11. BurntIsTaken(queries', burnt, serverLife) BY <1>0, <1>9, MovingOnKeepsBurnt
<1>12. queries' \in Seq(MeteredReads) /\ SameReads(queries, queries') BY <1>9 DEF MovesOn
<1>13. burnt' = burnt /\ wires' = wires /\ burnt \in [Servers -> SUBSET Wires]
       /\ wires \in [Wires -> {"unsent", "pending", "executed", "reverted"}] BY <1>0, <1>2 DEF QueriesTypeOK
<1> QED BY <1>2, <1>10, <1>11, <1>12, <1>13, MeterStandsStill

LEMMA AnswerQueryKeepsInv ==
    ASSUME QueriesInv, NEW i \in DOMAIN queries, AnswerQuery(i), UNCHANGED now
    PROVE  QueriesInv'
<1> DEFINE q == queries[i]
<1>0. QueriesTypeOK /\ ReadsStand(queries, serverLife, now, wires) /\ BurntIsTaken(queries, burnt, serverLife) BY DEF QueriesInv
<1>1. queries \in Seq(MeteredReads) BY <1>0 DEF QueriesTypeOK
<1>2. q.step = "paid" /\ UNCHANGED <<freePerWindow, meter, burnt, serverLife, wires>> BY DEF AnswerQuery
<1>3. ReadStands(q, serverLife, now, wires) BY <1>0 DEF ReadsStand
<1>4. q.took = TRUE /\ wires[q.wire] = "executed" /\ Pays(q.wire, q.caller) BY <1>2, <1>3 DEF ReadStands
<1>5. PICK st \in {"answered", "missed"} : queries' = SteppedTo(queries, i, st, "none")
    BY DEF AnswerQuery, Goes, answerTo, SteppedTo
<1>6. MovesOn(queries, queries', i) /\ queries'[i].step = st /\ queries'[i].why = "none" /\ queries'[i].took = q.took
    <2>1. st \in AtNode \cup {"answered", "missed", "refused"} /\ "none" \in {"none", "unheard", "bad", "late", "spent"}
          /\ i \in DOMAIN queries OBVIOUS
    <2> QED BY ONLY <1>1, <1>5, <2>1, GoesMovesOn
<1>7. ReadsStand(queries', serverLife, now, wires)
    <2>1. q.step \in AtNode /\ st \notin AtNode BY <1>2 DEF AtNode
    <2> QED BY <1>0, <1>4, <1>6, <2>1, MovingOnStands DEF AtNode
<1>8. BurntIsTaken(queries', burnt, serverLife) BY <1>0, <1>6, MovingOnKeepsBurnt
<1>9. queries' \in Seq(MeteredReads) /\ SameReads(queries, queries') BY <1>6 DEF MovesOn
<1>10. burnt' = burnt /\ wires' = wires /\ burnt \in [Servers -> SUBSET Wires]
       /\ wires \in [Wires -> {"unsent", "pending", "executed", "reverted"}] BY <1>0, <1>2 DEF QueriesTypeOK
<1> QED BY <1>2, <1>7, <1>8, <1>9, <1>10, MeterStandsStill

LEMMA BurnKeepsInv ==
    ASSUME QueriesInv, NEW i \in DOMAIN queries, Burn(i), UNCHANGED now
    PROVE  QueriesInv'
<1> DEFINE q == queries[i]
<1>0. QueriesTypeOK /\ ReadsStand(queries, serverLife, now, wires) /\ BurntIsTaken(queries, burnt, serverLife) BY DEF QueriesInv
<1>1. /\ queries \in Seq(MeteredReads) /\ q \in MeteredReads /\ burnt \in [Servers -> SUBSET Wires]
      /\ wires \in [Wires -> {"unsent", "pending", "executed", "reverted"}] BY <1>0 DEF QueriesTypeOK
<1>2. q.step = "verified" /\ UNCHANGED <<freePerWindow, meter, serverLife, wires>> BY DEF Burn
<1>3. ReadStands(q, serverLife, now, wires) BY <1>0 DEF ReadsStand
<1>4. /\ q.took = FALSE /\ q.free = FALSE /\ q.wire \in Wires /\ q.life = serverLife[q.server]
      /\ wires[q.wire] = "executed" /\ Pays(q.wire, q.caller) BY <1>2, <1>3 DEF ReadStands, AtNode
<1>5. q.server \in Servers /\ q.life \in Nat /\ q.why # "bad"
    <2>1. q.server \in Servers /\ q.life \in Nat BY <1>1 DEF MeteredReads
    <2> QED BY <1>3, <1>4, <2>1 DEF ReadStands
<1>6. CASE spentOn(q.server, q.wire)
    <2>1. queries' = SteppedTo(queries, i, "refused", "spent") /\ burnt' = burnt BY <1>6 DEF Burn, Goes, SteppedTo
    <2>2. MovesOn(queries, queries', i) /\ queries'[i].step = "refused" /\ queries'[i].why = "spent" /\ queries'[i].took = q.took
        <3>1. "refused" \in AtNode \cup {"answered", "missed", "refused"} /\ "spent" \in {"none", "unheard", "bad", "late", "spent"}
              /\ i \in DOMAIN queries OBVIOUS
        <3> QED BY ONLY <1>1, <2>1, <3>1, GoesMovesOn
    <2>3. ReadsStand(queries', serverLife, now, wires)
        <3>1. "refused" \notin AtNode BY DEF AtNode
        <3> QED BY <1>0, <1>4, <2>2, <3>1, MovingOnStands
    <2>4. \E j \in DOMAIN queries \ {i} : TookWire(queries, j, q.server, q.life, q.wire)
        <3>1. PICK j \in DOMAIN queries : TookWire(queries, j, q.server, q.life, q.wire)
            BY <1>0, <1>4, <1>5, <1>6 DEF BurntIsTaken, spentOn
        <3>2. j # i BY <1>4, <3>1 DEF TookWire
        <3> QED BY <3>1, <3>2
    <2>5. BurntIsTaken(queries', burnt, serverLife) BY <1>0, <2>2, <2>4, MovingOnKeepsBurnt
    <2>6. queries' \in Seq(MeteredReads) /\ SameReads(queries, queries') BY <2>2 DEF MovesOn
    <2> QED BY <1>1, <1>2, <2>1, <2>3, <2>5, <2>6, MeterStandsStill
<1>7. CASE ~spentOn(q.server, q.wire)
    <2>0. queries' = PaidAt(queries, i) BY <1>7 DEF Burn, PaidAt
    <2>1. burnt' = [burnt EXCEPT ![q.server] = @ \cup {q.wire}] BY <1>7 DEF Burn
    <2>2. MovesOn(queries, queries', i) /\ queries'[i].step = "paid" /\ queries'[i].why = q.why /\ queries'[i].took = TRUE
        <3>1. queries \in Seq(MeteredReads) /\ i \in DOMAIN queries BY <1>1
        <3> QED BY ONLY <3>1, <2>0, PaidMovesOn
    <2>3. ReadsStand(queries', serverLife, now, wires)
        <3>1. q.step \in AtNode BY <1>2 DEF AtNode
        <3> QED BY <1>0, <1>4, <1>5, <2>2, <3>1, MovingOnStands
    <2>4. BurntIsTaken(queries', burnt', serverLife)
        <3>1. \A j, s, l, w : j \in DOMAIN queries' /\ TookWire(queries', j, s, l, w)
                  <=> \/ j \in DOMAIN queries /\ TookWire(queries, j, s, l, w)
                      \/ (j = i /\ s = q.server /\ l = q.life /\ w = q.wire)
            <4>1. \A j \in DOMAIN queries \ {i} : queries'[j] = queries[j] BY <2>2 DEF MovesOn
            <4>2. /\ DOMAIN queries' = DOMAIN queries /\ queries'[i].server = q.server /\ queries'[i].life = q.life
                  /\ queries'[i].wire = q.wire BY <2>2 DEF MovesOn
            <4> QED BY <1>4, <2>2, <4>1, <4>2 DEF TookWire
        <3>2. \A j \in DOMAIN queries : ~TookWire(queries, j, q.server, q.life, q.wire)
            BY <1>0, <1>4, <1>5, <1>7 DEF BurntIsTaken, spentOn
        <3>3. \A s \in Servers, w \in Wires : w \in burnt'[s] <=> w \in burnt[s] \/ (s = q.server /\ w = q.wire)
            BY <1>1, <1>5, <2>1
        <3>4. \A s \in Servers, w \in Wires : w \in burnt'[s] <=> \E j \in DOMAIN queries' : TookWire(queries', j, s, serverLife[s], w)
            BY <1>0, <1>4, <3>1, <3>3 DEF BurntIsTaken
        <3>5. \A j, k \in DOMAIN queries', s \in Servers, l \in Nat, w \in Wires :
                  TookWire(queries', j, s, l, w) /\ TookWire(queries', k, s, l, w) => j = k
            BY <1>0, <3>1, <3>2 DEF BurntIsTaken
        <3>6. ASSUME NEW k \in DOMAIN queries', queries'[k].why = "spent"
              PROVE  \E j \in DOMAIN queries' \ {k} : TookWire(queries', j, queries'[k].server, queries'[k].life, queries'[k].wire)
            <4>1. /\ k \in DOMAIN queries /\ queries[k].why = "spent"
                  /\ queries'[k].server = queries[k].server /\ queries'[k].life = queries[k].life /\ queries'[k].wire = queries[k].wire
                <5>1. CASE k = i BY <2>2, <3>6, <5>1 DEF MovesOn
                <5>2. CASE k # i BY <2>2, <3>6, <5>2 DEF MovesOn
                <5> QED BY <5>1, <5>2
            <4>2. PICK j \in DOMAIN queries \ {k} : TookWire(queries, j, queries[k].server, queries[k].life, queries[k].wire)
                BY <1>0, <4>1 DEF BurntIsTaken
            <4> QED BY <3>1, <4>1, <4>2
        <3> QED BY <3>4, <3>5, <3>6 DEF BurntIsTaken
    <2>5. queries' \in Seq(MeteredReads) /\ SameReads(queries, queries') BY <2>2 DEF MovesOn
    <2>6. burnt' \in [Servers -> SUBSET Wires] BY <1>1, <1>4, <2>1
    <2> QED BY <1>1, <1>2, <2>3, <2>4, <2>5, <2>6, MeterStandsStill
<1> QED BY <1>6, <1>7

LEMMA WireMovesKeepsInv ==
    ASSUME QueriesInv, NEW w \in Wires, WireMoves(w), UNCHANGED now
    PROVE  QueriesInv'
<1>0. QueriesTypeOK /\ ReadsStand(queries, serverLife, now, wires) /\ BurntIsTaken(queries, burnt, serverLife) BY DEF QueriesInv
<1>1. UNCHANGED <<freePerWindow, meter, burnt, serverLife, queries>> BY DEF WireMoves
<1>2. wires \in [Wires -> {"unsent", "pending", "executed", "reverted"}] /\ burnt \in [Servers -> SUBSET Wires]
      /\ queries \in Seq(MeteredReads) BY <1>0 DEF QueriesTypeOK
<1>3. wires[w] \in {"unsent", "pending"} /\ \E end \in {"pending", "executed", "reverted"} : wires' = [wires EXCEPT ![w] = end]
    BY DEF WireMoves
<1>4. wires' \in [Wires -> {"unsent", "pending", "executed", "reverted"}]
      /\ \A x \in Wires : wires[x] \in {"executed", "reverted"} => wires'[x] = wires[x] BY <1>2, <1>3
<1>5. ReadsStand(queries, serverLife, now, wires')
    <2> SUFFICES ASSUME NEW i \in DOMAIN queries PROVE ReadStands(queries[i], serverLife, now, wires') BY DEF ReadsStand
    <2>1. ReadStands(queries[i], serverLife, now, wires) BY <1>0 DEF ReadsStand
    <2> QED BY <1>4, <2>1 DEF ReadStands, AtNode
<1>6. SameReads(queries, queries) BY DEF SameReads
<1> QED BY <1>0, <1>1, <1>2, <1>4, <1>5, <1>6, MeterStandsStill

LEMMA ServerDiesKeepsInv ==
    ASSUME QueriesInv, NEW s \in Servers, ServerDies(s), UNCHANGED now
    PROVE  QueriesInv'
<1>0. QueriesTypeOK /\ ReadsStand(queries, serverLife, now, wires) /\ BurntIsTaken(queries, burnt, serverLife)
      /\ TierIsKept(queries, freePerWindow) BY DEF QueriesInv
<1>1. /\ queries \in Seq(MeteredReads) /\ serverLife \in [Servers -> Nat] /\ burnt \in [Servers -> SUBSET Wires]
      /\ meter \in [Servers -> [Callers -> MeterWindows]] /\ now \in Nat /\ freePerWindow \in Nat BY <1>0 DEF QueriesTypeOK
<1>2. /\ serverLife' = [serverLife EXCEPT ![s] = @ + 1] /\ meter' = [meter EXCEPT ![s] = [c \in Callers |-> Fresh]]
      /\ burnt' = [burnt EXCEPT ![s] = {}] /\ freePerWindow' = freePerWindow /\ wires' = wires /\ now' = now
    BY DEF ServerDies
<1>3. Fresh \in MeterWindows /\ Fresh.start <= now BY <1>1, MeterAssumption DEF Fresh, MeterWindows
<1>4. \A i \in DOMAIN queries : queries[i] \in MeteredReads BY <1>1
<1>5. queries' = [i \in DOMAIN queries |->
          IF queries[i].server = s /\ Pending(queries[i]) THEN [queries[i] EXCEPT !.step = "lost"] ELSE queries[i]]
    BY DEF ServerDies
<1>6. DOMAIN queries' = DOMAIN queries /\ DOMAIN queries = 1 .. Len(queries) /\ Len(queries) \in Nat BY <1>1, <1>5
<1>7. ASSUME NEW i \in DOMAIN queries
      PROVE  /\ queries'[i] \in MeteredReads /\ queries'[i].server = queries[i].server /\ queries'[i].life = queries[i].life
             /\ queries'[i].caller = queries[i].caller /\ queries'[i].free = queries[i].free /\ queries'[i].asked = queries[i].asked
             /\ queries'[i].took = queries[i].took /\ queries'[i].wire = queries[i].wire /\ queries'[i].why = queries[i].why
             /\ queries'[i].step = IF queries[i].server = s /\ queries[i].step \in AtNode THEN "lost" ELSE queries[i].step
    <2>1. queries[i] \in MeteredReads BY <1>4
    <2>2. queries'[i] = IF queries[i].server = s /\ queries[i].step \in AtNode THEN [queries[i] EXCEPT !.step = "lost"] ELSE queries[i]
        BY <1>5 DEF Pending, AtNode
    <2>3. [queries[i] EXCEPT !.step = "lost"] \in MeteredReads BY <2>1 DEF MeteredReads
    <2> QED BY <2>1, <2>2, <2>3 DEF MeteredReads
<1>8. queries' \in Seq(MeteredReads)
    <2>1. queries' = [i \in 1 .. Len(queries) |-> queries'[i]] BY <1>5, <1>6
    <2>2. \A i \in 1 .. Len(queries) : queries'[i] \in MeteredReads BY <1>6, <1>7
    <2> QED BY <1>6, <2>1, <2>2
<1>9. SameReads(queries, queries') BY <1>6, <1>7 DEF SameReads
<1>10. QueriesTypeOK'
    <2>1. serverLife' \in [Servers -> Nat] /\ burnt' \in [Servers -> SUBSET Wires] BY <1>1, <1>2
    <2>2. meter' \in [Servers -> [Callers -> MeterWindows]] BY <1>1, <1>2, <1>3
    <2> QED BY <1>0, <1>2, <1>8, <2>1, <2>2 DEF QueriesTypeOK
<1>11. serverLife'[s] = serverLife[s] + 1 /\ serverLife[s] \in Nat /\ \A t \in Servers \ {s} : serverLife'[t] = serverLife[t]
    BY <1>1, <1>2
<1>12. \A i \in DOMAIN queries : ReadStands(queries[i], serverLife, now, wires) /\ queries[i].server \in Servers /\ queries[i].life \in Nat
    BY <1>0, <1>4 DEF ReadsStand, MeteredReads
<1>13. ReadsStand(queries', serverLife', now', wires')
    <2> SUFFICES ASSUME NEW i \in DOMAIN queries PROVE ReadStands(queries'[i], serverLife', now, wires)
        BY <1>2, <1>6 DEF ReadsStand
    <2>1. ReadStands(queries[i], serverLife, now, wires) /\ queries[i].server \in Servers /\ queries[i].life \in Nat BY <1>12
    <2>2. queries'[i].life <= serverLife'[queries'[i].server]
        <3>1. queries[i].life <= serverLife[queries[i].server] BY <2>1 DEF ReadStands
        <3> QED BY <1>7, <1>11, <2>1, <3>1
    <2>3. queries'[i].step \in AtNode => queries'[i].life = serverLife'[queries'[i].server]
        <3>1. SUFFICES ASSUME queries'[i].step \in AtNode PROVE queries'[i].life = serverLife'[queries'[i].server] OBVIOUS
        <3>2. "lost" \notin AtNode BY DEF AtNode
        <3>3. queries[i].server # s /\ queries[i].step \in AtNode BY <1>7, <3>1, <3>2
        <3> QED BY <1>7, <1>11, <2>1, <3>3 DEF ReadStands
    <2> QED BY <1>7, <2>1, <2>2, <2>3 DEF ReadStands, AtNode
<1>14. BurntIsTaken(queries', burnt', serverLife')
    <2>1. \A i, t, l, w : i \in DOMAIN queries => (TookWire(queries', i, t, l, w) <=> TookWire(queries, i, t, l, w))
        BY <1>7 DEF TookWire
    <2>2. \A i \in DOMAIN queries : \A w : ~TookWire(queries, i, s, serverLife'[s], w)
        <3>1. \A i \in DOMAIN queries : queries[i].server = s => queries[i].life <= serverLife[s] /\ queries[i].life \in Nat
            BY <1>12 DEF ReadStands
        <3>2. \A i \in DOMAIN queries : queries[i].server = s => queries[i].life # serverLife'[s] BY <1>11, <3>1
        <3> QED BY <3>2 DEF TookWire
    <2>3. burnt'[s] = {} /\ \A t \in Servers \ {s} : burnt'[t] = burnt[t] BY <1>1, <1>2
    <2>4. \A t \in Servers, w \in Wires : w \in burnt'[t] <=> \E i \in DOMAIN queries : TookWire(queries', i, t, serverLife'[t], w)
        <3> SUFFICES ASSUME NEW t \in Servers, NEW w \in Wires
                     PROVE  w \in burnt'[t] <=> \E i \in DOMAIN queries : TookWire(queries', i, t, serverLife'[t], w) OBVIOUS
        <3>1. CASE t = s BY <2>1, <2>2, <2>3, <3>1
        <3>2. CASE t # s
            <4>1. w \in burnt[t] <=> \E i \in DOMAIN queries : TookWire(queries, i, t, serverLife[t], w) BY <1>0 DEF BurntIsTaken
            <4> QED BY <1>11, <2>1, <2>3, <3>2, <4>1
        <3> QED BY <3>1, <3>2
    <2>5. \A i, j \in DOMAIN queries, t \in Servers, l \in Nat, w \in Wires :
              TookWire(queries', i, t, l, w) /\ TookWire(queries', j, t, l, w) => i = j BY <1>0, <2>1 DEF BurntIsTaken
    <2>6. ASSUME NEW i \in DOMAIN queries, queries'[i].why = "spent"
          PROVE  \E j \in DOMAIN queries \ {i} : TookWire(queries', j, queries'[i].server, queries'[i].life, queries'[i].wire)
        <3>1. PICK j \in DOMAIN queries \ {i} : TookWire(queries, j, queries[i].server, queries[i].life, queries[i].wire)
            BY <1>0, <1>7, <2>6 DEF BurntIsTaken
        <3> QED BY <1>7, <2>1, <3>1
    <2> QED BY <1>6, <2>4, <2>5, <2>6 DEF BurntIsTaken
<1>15. TierIsKept(queries', freePerWindow') BY <1>0, <1>2, <1>9, SameReadsTier
<1>16. ASSUME NEW t \in Servers, NEW c \in Callers
       PROVE  meter'[t][c].start <= now' /\ MeterCounts(queries', meter'[t][c], freePerWindow', t, serverLife'[t], c)
    <2>1. CASE t = s
        <3>1. meter'[t][c] = Fresh BY <1>1, <1>2, <2>1
        <3>2. ASSUME NEW j \in DOMAIN queries, FreeOf(queries'[j], s, serverLife'[s], c) PROVE FALSE
            <4>1. queries[j].server = s /\ queries[j].life = serverLife[s] + 1 BY <1>7, <1>11, <3>2 DEF FreeOf
            <4>2. queries[j].life <= serverLife[s] BY <1>12, <4>1 DEF ReadStands
            <4> QED BY <1>11, <4>1, <4>2
        <3>3. MeterCounts(queries', Fresh, freePerWindow, s, serverLife'[s], c) BY <1>1, <1>6, <1>8, <3>2, FreshCounts
        <3> QED BY <1>2, <1>3, <2>1, <3>1, <3>3
    <2>2. CASE t # s
        <3>1. meter'[t][c] = meter[t][c] /\ serverLife'[t] = serverLife[t] BY <1>1, <1>2, <2>2
        <3>2. meter[t][c].start <= now /\ MeterCounts(queries, meter[t][c], freePerWindow, t, serverLife[t], c) BY DEF QueriesInv
        <3>3. MeterCounts(queries', meter[t][c], freePerWindow, t, serverLife[t], c) BY <1>9, <3>2, SameReadsMeter
        <3> QED BY <1>2, <3>1, <3>2, <3>3
    <2> QED BY <2>1, <2>2
<1> QED BY <1>10, <1>13, <1>14, <1>15, <1>16 DEF QueriesInv

\* The clock only moves on.
LEMMA QueriesWait ==
    ASSUME QueriesInv, now' = now \/ now' = now + 1, UNCHANGED queryVars
    PROVE  QueriesInv'
<1>0. QueriesTypeOK /\ ReadsStand(queries, serverLife, now, wires) BY DEF QueriesInv
<1>1. /\ freePerWindow' = freePerWindow /\ meter' = meter /\ burnt' = burnt /\ serverLife' = serverLife
      /\ wires' = wires /\ queries' = queries BY DEF queryVars
<1>2. now \in Nat /\ now' \in Nat /\ \A x \in Int : x <= now => x <= now' BY <1>0 DEF QueriesTypeOK
<1>3. QueriesTypeOK' BY <1>0, <1>1, <1>2 DEF QueriesTypeOK
<1>4. queries \in Seq(MeteredReads) /\ meter \in [Servers -> [Callers -> MeterWindows]] BY <1>0 DEF QueriesTypeOK
<1>5. \A i \in DOMAIN queries : queries[i].asked \in Int
    <2>1. \A i \in DOMAIN queries : queries[i] \in MeteredReads BY <1>4
    <2> QED BY <2>1 DEF MeteredReads
<1>6. ReadsStand(queries, serverLife, now', wires) BY <1>0, <1>2, <1>5 DEF ReadsStand, ReadStands
<1>7. \A s \in Servers, c \in Callers : meter[s][c].start \in Int BY <1>4 DEF MeterWindows
<1>8. \A s \in Servers, c \in Callers : meter[s][c].start <= now' BY <1>2, <1>7 DEF QueriesInv
<1> QED BY <1>1, <1>3, <1>6, <1>8 DEF QueriesInv

\* The calls on the metered reads, and what happens meanwhile.
QueryMoves ==
    \/ \E s \in Servers, c \in Callers, topic \in Topics, given \in {NoProof} \cup [wire : Wires, nonce : Topics \X Callers] :
          Ask(s, c, topic, given)
    \/ \E i \in DOMAIN queries : ReadNode(i) \/ Burn(i) \/ AnswerQuery(i)
    \/ \E w \in Wires : WireMoves(w)
    \/ \E s \in Servers : ServerDies(s)
QueriesNext == (QueryMoves /\ UNCHANGED now) \/ (Tick /\ UNCHANGED queryVars)

LEMMA QueriesKeepInv == QueriesInv /\ [QueriesNext]_<<now, queryVars>> => QueriesInv'
<1> SUFFICES ASSUME QueriesInv, [QueriesNext]_<<now, queryVars>> PROVE QueriesInv'
    OBVIOUS
<1>1. CASE QueryMoves /\ UNCHANGED now
    BY <1>1, AskKeepsInv, ReadNodeKeepsInv, BurnKeepsInv, AnswerQueryKeepsInv, WireMovesKeepsInv, ServerDiesKeepsInv DEF QueryMoves
<1>2. CASE Tick /\ UNCHANGED queryVars
    BY <1>2, QueriesWait DEF Tick
<1>3. CASE UNCHANGED <<now, queryVars>>
    BY <1>3, QueriesWait
<1> QED
    BY <1>1, <1>2, <1>3 DEF QueriesNext

LEMMA QueriesInvReadsOnce == QueriesInv => OneWireOneRead
<1> SUFFICES ASSUME QueriesInv, NEW i \in DOMAIN queries, NEW j \in DOMAIN queries, NEW w \in Wires,
                    PaidOn(i, queries[i].server, queries[i].life, w), PaidOn(j, queries[i].server, queries[i].life, w)
             PROVE  i = j
    BY DEF OneWireOneRead
<1>1. queries[i] \in MeteredReads BY DEF QueriesInv, QueriesTypeOK
<1>2. queries[i].server \in Servers /\ queries[i].life \in Nat BY <1>1 DEF MeteredReads
<1>3. queries[i].took = TRUE /\ queries[j].took = TRUE BY DEF PaidOn, QueriesInv, QueriesTypeOK, MeteredReads
<1> QED BY <1>2, <1>3 DEF QueriesInv, BurntIsTaken, TookWire, PaidOn

LEMMA QueriesInvPaysForReads == QueriesInv => ReadsArePaidFor
<1> SUFFICES ASSUME QueriesInv, NEW i \in DOMAIN queries,
                    queries[i].took \/ (~queries[i].free /\ queries[i].step \in {"answered", "missed"})
             PROVE  /\ wires[queries[i].wire] = "executed" /\ WireOf[queries[i].wire].from = queries[i].caller
                    /\ \E t \in WireOf[queries[i].wire].moves : t.to = Treasury /\ t.amount >= QueryPrice
    BY DEF ReadsArePaidFor
<1>1. queries[i] \in MeteredReads BY DEF QueriesInv, QueriesTypeOK
<1>2. queries[i].took \in BOOLEAN /\ queries[i].free \in BOOLEAN BY <1>1 DEF MeteredReads
<1>3. ReadStands(queries[i], serverLife, now, wires) BY DEF QueriesInv, ReadsStand
<1>4. queries[i].took = TRUE BY <1>2, <1>3 DEF ReadStands
<1>5. wires[queries[i].wire] = "executed" /\ Pays(queries[i].wire, queries[i].caller) /\ queries[i].wire \in Wires
    BY <1>3, <1>4 DEF ReadStands
<1>6. PICK t \in candidates(queries[i].wire) : t.to = Treasury /\ t.amount >= QueryPrice BY <1>5 DEF Pays
<1>7. t \in WireOf[queries[i].wire].moves BY <1>5, <1>6, NativeWiresMove DEF candidates
<1> QED BY <1>5, <1>6, <1>7 DEF Pays

LEMMA QueriesInvReadsHonestPayers == QueriesInv => HonestPayersAreRead
<1> SUFFICES ASSUME QueriesInv, NEW i \in DOMAIN queries
             PROVE  /\ queries[i].why = "bad" => ~verifyTransferResult(queries[i].wire, queries[i].caller)
                    /\ queries[i].why = "spent" =>
                          \E j \in DOMAIN queries \ {i} : PaidOn(j, queries[i].server, queries[i].life, queries[i].wire)
    BY DEF HonestPayersAreRead
<1>1. ASSUME queries[i].why = "bad" PROVE ~verifyTransferResult(queries[i].wire, queries[i].caller)
    <2>1. ReadStands(queries[i], serverLife, now, wires) BY DEF QueriesInv, ReadsStand
    <2>2. ~(wires[queries[i].wire] = "executed" /\ Pays(queries[i].wire, queries[i].caller)) BY <1>1, <2>1 DEF ReadStands
    <2> QED BY <2>2 DEF Pays, verifyTransferResult
<1>2. ASSUME queries[i].why = "spent"
      PROVE  \E j \in DOMAIN queries \ {i} : PaidOn(j, queries[i].server, queries[i].life, queries[i].wire)
    <2>1. PICK j \in DOMAIN queries \ {i} : TookWire(queries, j, queries[i].server, queries[i].life, queries[i].wire)
        BY <1>2 DEF QueriesInv, BurntIsTaken
    <2> QED BY <2>1 DEF TookWire, PaidOn
<1> QED BY <1>1, <1>2

LEMMA QueriesInvBoundsTheTier == QueriesInv => FreeTierIsBounded
<1> SUFFICES ASSUME QueriesInv, NEW i \in DOMAIN queries, queries[i].free
             PROVE  Cardinality({j \in DOMAIN queries :
                        /\ queries[j].free /\ queries[j].caller = queries[i].caller
                        /\ queries[j].server = queries[i].server /\ queries[j].life = queries[i].life
                        /\ queries[j].asked \in queries[i].asked .. queries[i].asked + MeterWindow - 1}) < 2 * freePerWindow
    BY DEF FreeTierIsBounded
<1> DEFINE q == queries[i]
           stretch == {j \in DOMAIN queries :
                         /\ queries[j].free /\ queries[j].caller = q.caller /\ queries[j].server = q.server /\ queries[j].life = q.life
                         /\ queries[j].asked \in q.asked .. q.asked + MeterWindow - 1}
<1>1. queries \in Seq(MeteredReads) /\ MeterWindow \in Nat BY MeterAssumption DEF QueriesInv, QueriesTypeOK
<1>2. ASSUME NEW j \in DOMAIN queries PROVE queries[j].free \in BOOLEAN /\ queries[j].asked \in Nat
    <2>1. queries[j] \in MeteredReads BY <1>1
    <2> QED BY <2>1 DEF MeteredReads
<1>3. \A x \in Nat : x \in q.asked .. q.asked + MeterWindow - 1 <=> q.asked <= x /\ x <= q.asked + MeterWindow - 1 BY <1>1, <1>2
<1>4. \A j \in DOMAIN queries : queries[j].free <=> queries[j].free = TRUE BY <1>2
<1>5. stretch = FreeReads(queries, q.server, q.life, q.caller, q.asked, q.asked + MeterWindow - 1)
    BY <1>2, <1>3, <1>4 DEF FreeReads, FreeOf
<1>6. q.free = TRUE BY <1>4
<1>7. Cardinality(FreeReads(queries, q.server, q.life, q.caller, q.asked, q.asked + MeterWindow - 1)) < 2 * freePerWindow
    BY <1>6 DEF QueriesInv, TierIsKept
<1>8. Cardinality(stretch) < 2 * freePerWindow BY <1>5, <1>7
<1> QED BY <1>8

-----------------------------------------------------------------------------
(***************************************************************************)
(* The chat bots                                                           *)
(***************************************************************************)

BotReplies == {"info", "refused", "placed"}
BetsSaid == {BetOf(m) : m \in Mentions}
Deliveries ==
    [bot : Bots, life : Nat, mention : Mentions, fresh : BOOLEAN,
     step : {"unauthorized", "quoting", "paying", "placing", "replying", "silent", "answered", "unanswered", "lost"},
     reply : BotReplies \cup {"nothing", "excused"}, escrow : {"none", "submitted", "executed", "reverted"},
     indexed : BOOLEAN, unsaved : BOOLEAN, knew : SUBSET BetsSaid]

\* A server's memory holds what the store held when it was read last.
LedgersTrue ==
    /\ booked \in [Bots -> SUBSET BetsSaid] /\ storedBets \subseteq BetsSaid /\ overwritten \subseteq BetsSaid
    /\ answerDue \in [Bots -> SUBSET SUBSET BetsSaid] /\ lastHeard \in [Bots -> SUBSET BetsSaid]
    /\ \A s \in Bots : lastHeard[s] \subseteq booked[s]

MentionsTypeOK ==
    /\ mentionLedger \in [Bots -> [Mentions -> BotReplies \cup {"new", "pending"}]]
    /\ LedgersTrue
    /\ botLife \in [Bots -> Nat] /\ boardOpen \in BOOLEAN
    /\ deliveries \in Seq(Deliveries)

\* The delivery's server is the one that took it; what it answers the message with today.
Current(d) == d.life = botLife[d.bot]
Heard(d) == mentionLedger[d.bot][d.mention]
AtWork(d) == d.step \in {"quoting", "paying", "placing"}
HasClaim(d) == AtWork(d) \/ d.escrow # "none"

\* A delivery at work holds its message's claim; one that staked never gives it back, and knew of
\* no such bet.
ClaimIsHeld(d) ==
    /\ d.life <= botLife[d.bot]
    /\ AtWork(d) \/ d.step = "replying" => Current(d)
    /\ AtWork(d) => d.fresh = TRUE /\ d.indexed = FALSE /\ d.reply = "nothing" /\ Heard(d) = "pending"
    /\ d.step \in {"quoting", "paying"} => d.escrow = "none"
    /\ d.escrow # "none" => BetOf(d.mention) \notin d.knew
    /\ d.escrow # "none" /\ Current(d) => Heard(d) # "new"

\* A bet a server booked is in its memory, in the store or known to be overwritten.
Lasting == storedBets \cup overwritten
Kept(s) == booked[s] \cup Lasting

\* What a delivery was answered with is what the next one will hear, and what it booked is
\* stored with its answer.
AnswerStands(d) ==
    /\ Current(d) /\ d.reply \in {"placed", "refused"} => Heard(d) = d.reply
    /\ d.indexed = TRUE /\ d.step = "replying" => d.fresh = TRUE /\ d.reply = "placed" /\ BetOf(d.mention) \in Kept(d.bot)
    /\ d.indexed = TRUE /\ d.step = "answered" => BetOf(d.mention) \in Lasting \/ d.unsaved = TRUE

SameMessage(d, e) == Together(d, e) /\ d.mention = e.mention
OneHasClaim == \A i, j \in DOMAIN deliveries :
    i # j /\ SameMessage(deliveries[i], deliveries[j]) => ~HasClaim(deliveries[i]) \/ ~HasClaim(deliveries[j])
OneAnswer == \A i, j \in DOMAIN deliveries :
    SameMessage(deliveries[i], deliveries[j]) => deliveries[i].reply # "refused" \/ deliveries[j].reply # "placed"
HasStaked(b, l, m) == \E j \in DOMAIN deliveries :
    LET d == deliveries[j] IN d.bot = b /\ d.life = l /\ d.mention = m /\ d.escrow = "executed"
PlacedIsStaked ==
    /\ \A i \in DOMAIN deliveries : LET d == deliveries[i] IN d.reply = "placed" => HasStaked(d.bot, d.life, d.mention)
    /\ \A b \in Bots, m \in Mentions : mentionLedger[b][m] = "placed" => HasStaked(b, botLife[b], m)

MentionsInv ==
    /\ MentionsTypeOK
    /\ \A i \in DOMAIN deliveries : ClaimIsHeld(deliveries[i]) /\ AnswerStands(deliveries[i])
    /\ OneHasClaim /\ OneAnswer /\ PlacedIsStaked

LEMMA MentionsStart == MentionsInit => MentionsInv
    BY DEF MentionsInit, MentionsInv, MentionsTypeOK, LedgersTrue, BotReplies, OneHasClaim, OneAnswer, PlacedIsStaked

\* What a step may do to the ledgers while no server dies.
LedgersGrow == LedgersTrue' /\ Lasting \subseteq Lasting' /\ \A s \in Bots : Kept(s) \subseteq Kept(s)'

LEMMA LedgersStay == LedgersTrue /\ UNCHANGED ledgerVars => LedgersGrow
BY DEF ledgerVars, LedgersGrow, LedgersTrue, Lasting, Kept

LEMMA FlushGrows ==
    ASSUME LedgersTrue, NEW s \in Bots, NEW lands \in BOOLEAN, FlushOf(s, lands)
    PROVE  LedgersGrow /\ (lands => Kept(s) \subseteq Lasting')
<1>1. /\ storedBets' = (IF lands THEN storedBets \cup booked[s] ELSE storedBets)
      /\ UNCHANGED <<answerDue, overwritten>>
      /\ lands => booked' = [booked EXCEPT ![s] = @ \cup storedBets]
      /\ \/ booked' = [booked EXCEPT ![s] = @ \cup storedBets] /\ lastHeard' = [lastHeard EXCEPT ![s] = storedBets]
         \/ UNCHANGED <<booked, lastHeard>>
    BY DEF FlushOf
<1>2. LedgersTrue'
    BY <1>1 DEF LedgersTrue
<1>3. \A t \in Bots : booked[t] \subseteq booked'[t]
    BY <1>1 DEF LedgersTrue
<1> QED
    BY <1>1, <1>2, <1>3 DEF LedgersGrow, Lasting, Kept

LEMMA HearsGrow ==
    ASSUME LedgersTrue, NEW s \in Bots, BotReads(s) \/ BotHears(s)
    PROVE  LedgersGrow
<1>1. CASE BotReads(s)
    BY <1>1 DEF BotReads, LedgersGrow, LedgersTrue, Lasting, Kept
<1>2. CASE BotHears(s)
    <2>1. answerDue' = [answerDue EXCEPT ![s] = {}] /\ storedBets' = storedBets
        BY <1>2 DEF BotHears
    <2>2. CASE UNCHANGED <<booked, lastHeard, overwritten>>
        BY <2>1, <2>2 DEF LedgersGrow, LedgersTrue, Lasting, Kept
    <2>3. CASE ~UNCHANGED <<booked, lastHeard, overwritten>>
        <3> PICK bets \in answerDue[s] :
                /\ booked' = [booked EXCEPT ![s] = bets] /\ lastHeard' = [lastHeard EXCEPT ![s] = bets]
                /\ overwritten' = overwritten \cup (booked[s] \ storedBets)
            BY <1>2, <2>3 DEF BotHears
        <3>1. bets \subseteq BetsSaid
            BY DEF LedgersTrue
        <3>2. LedgersTrue'
            BY <2>1, <3>1 DEF LedgersTrue
        <3>3. \A t \in Bots : Kept(t) \subseteq Kept(t)'
            BY <2>1 DEF LedgersTrue, Lasting, Kept
        <3> QED
            BY <2>1, <3>2, <3>3 DEF LedgersGrow, Lasting
    <2> QED
        BY <2>2, <2>3
<1> QED
    BY <1>1, <1>2

\* The invariant of the next state, unfolded.
LEMMA MentionsInvNext ==
    ASSUME MentionsTypeOK', OneHasClaim', OneAnswer', PlacedIsStaked',
           \A i \in DOMAIN deliveries' : \A e \in Deliveries :
               e = deliveries'[i] => ClaimIsHeld(e)' /\ AnswerStands(e)'
    PROVE  MentionsInv'
<1>1. ASSUME NEW i \in DOMAIN deliveries' PROVE (ClaimIsHeld(deliveries[i]) /\ AnswerStands(deliveries[i]))'
    <2>1. deliveries'[i] \in Deliveries
        BY DEF MentionsTypeOK
    <2> QED
        BY <2>1, Zenon DEF ClaimIsHeld, AnswerStands, Current, Heard, AtWork
<1> QED
    BY <1>1, Zenon DEF MentionsInv

\* The same delivery, later: it keeps its stake, and makes no new claim.
Follows(d, e) ==
    /\ e \in Deliveries /\ e.bot = d.bot /\ e.life = d.life /\ e.mention = d.mention
    /\ HasClaim(e) => HasClaim(d)
    /\ d.escrow = "executed" => e.escrow = "executed"
\* What it leaves alone: the other messages, and the bets there are.
LeavesAlone(d) ==
    /\ botLife' = botLife /\ MentionsTypeOK'
    /\ LedgersGrow
    /\ \A s \in Bots, m \in Mentions : s # d.bot \/ m # d.mention => mentionLedger'[s][m] = mentionLedger[s][m]
\* Only a delivery at work answers, and what is answered as placed is staked.
AnswersItsOwn(d, e) ==
    /\ \/ e.reply = d.reply
       \/ AtWork(d) /\ (e.reply = "placed" => e.escrow = "executed")
    /\ \/ mentionLedger'[d.bot][d.mention] = mentionLedger[d.bot][d.mention]
       \/ AtWork(d) /\ (mentionLedger'[d.bot][d.mention] = "placed" => e.escrow = "executed")

\* One delivery moves: another of the same message is neither at work nor staked while this one is
\* at work, so that what changes of the ledger is this delivery's own.
LEMMA DeliveryMoves ==
    ASSUME MentionsInv, NEW i \in DOMAIN deliveries, NEW d, d = deliveries[i], NEW e,
           deliveries' = [deliveries EXCEPT ![i] = e],
           Follows(d, e), LeavesAlone(d), AnswersItsOwn(d, e), ClaimIsHeld(e)', AnswerStands(e)'
    PROVE  MentionsInv'
<1> USE DEF Follows, LeavesAlone, AnswersItsOwn, LedgersGrow
<1>1. /\ deliveries \in Seq(Deliveries) /\ d \in Deliveries /\ DOMAIN deliveries' = DOMAIN deliveries
      /\ deliveries'[i] = e /\ \A j \in DOMAIN deliveries : j # i => deliveries'[j] = deliveries[j]
    BY DEF MentionsInv, MentionsTypeOK
<1>2. \A j \in DOMAIN deliveries : deliveries[j] \in Deliveries /\ ClaimIsHeld(deliveries[j]) /\ AnswerStands(deliveries[j])
    BY <1>1 DEF MentionsInv
<1>3. AtWork(d) => Current(d) /\ Heard(d) = "pending" /\ HasClaim(d)
    BY <1>2 DEF ClaimIsHeld, HasClaim
<1>4. ASSUME NEW j \in DOMAIN deliveries, j # i, NEW f \in Deliveries, f = deliveries'[j]
      PROVE  ClaimIsHeld(f)' /\ AnswerStands(f)'
    <2>0. f = deliveries[j] /\ ClaimIsHeld(f) /\ AnswerStands(f) /\ f.bot \in Bots /\ f.mention \in Mentions
        BY <1>1, <1>2, <1>4 DEF Deliveries
    <2>1. CASE Heard(f)' = Heard(f)
        <3>1. ClaimIsHeld(f)'
            BY <2>0, <2>1 DEF ClaimIsHeld, Current, AtWork
        <3>2. AnswerStands(f)'
            BY <2>0, <2>1 DEF AnswerStands, Current
        <3> QED
            BY <2>0, <3>1, <3>2
    <2>2. CASE Heard(f)' # Heard(f)
        <3>1. f.bot = d.bot /\ f.mention = d.mention /\ AtWork(d)
            BY <2>0, <2>2 DEF Heard
        <3>2. Current(f) => SameMessage(f, d)
            BY <1>3, <3>1 DEF Current, SameMessage, Together
        <3>3. Current(f) => ~HasClaim(f) /\ f.reply \notin {"placed", "refused"}
            BY <1>3, <1>4, <2>0, <3>1, <3>2 DEF MentionsInv, OneHasClaim, AnswerStands, Heard
        <3>4. ClaimIsHeld(f)'
            BY <2>0, <3>3 DEF ClaimIsHeld, Current, AtWork, HasClaim
        <3>5. AnswerStands(f)'
            BY <2>0, <3>3 DEF AnswerStands, Current
        <3> QED
            BY <2>0, <3>4, <3>5
    <2> QED
        BY <2>1, <2>2
<1>5. ASSUME NEW j \in DOMAIN deliveries', NEW f \in Deliveries, f = deliveries'[j]
      PROVE  ClaimIsHeld(f)' /\ AnswerStands(f)'
    <2>1. CASE j = i
        <3>1. f = e
            BY <1>1, <1>5, <2>1
        <3> QED
            BY <3>1
    <2>2. CASE j # i
        BY <1>1, <1>4, <1>5, <2>2
    <2> QED
        BY <2>1, <2>2
<1>6. OneHasClaim'
    BY <1>1 DEF MentionsInv, OneHasClaim, SameMessage, Together, HasClaim, AtWork
<1>7. OneAnswer'
    BY <1>1, <1>2, <1>3 DEF MentionsInv, OneAnswer, SameMessage, Together, AnswerStands, Current, Heard
<1>8. \A s, l, m : HasStaked(s, l, m) => HasStaked(s, l, m)'
    BY <1>1 DEF HasStaked
<1>9. e.escrow = "executed" => HasStaked(d.bot, d.life, d.mention)'
    BY <1>1 DEF HasStaked
<1>10. PlacedIsStaked'
    BY <1>1, <1>3, <1>8, <1>9 DEF MentionsInv, PlacedIsStaked, Current
<1> QED
    BY <1>5, <1>6, <1>7, <1>10, MentionsInvNext

\* A delivery at work is answered, and so is its message.
LEMMA ConcludesKeepsInv ==
    ASSUME MentionsInv, NEW i \in DOMAIN deliveries, NEW d, d = deliveries[i], AtWork(d),
           NEW reply \in {"refused", "placed"}, NEW x \in BOOLEAN, Concludes(i, reply, x),
           LedgersGrow, UNCHANGED <<botLife, boardOpen>>,
           reply = "placed" => d.escrow = "executed",
           x = TRUE => reply = "placed" /\ BetOf(d.mention) \in Kept(d.bot)'
    PROVE  MentionsInv'
<1> PICK e : e = [d EXCEPT !.step = "replying", !.reply = reply, !.indexed = x]
    OBVIOUS
<1>1. MentionsTypeOK /\ d \in Deliveries /\ ClaimIsHeld(d) /\ AnswerStands(d)
    BY DEF MentionsInv, MentionsTypeOK
<1>2. /\ e \in Deliveries /\ e.bot = d.bot /\ e.life = d.life /\ e.mention = d.mention /\ e.knew = d.knew /\ e.fresh = d.fresh
      /\ e.escrow = d.escrow /\ e.step = "replying" /\ e.reply = reply /\ e.indexed = x /\ d.bot \in Bots /\ d.mention \in Mentions
    <2>1. e \in Deliveries
        <3>1. "replying" \in {"unauthorized", "quoting", "paying", "placing", "replying", "silent", "answered", "unanswered", "lost"}
            OBVIOUS
        <3>2. reply \in BotReplies \cup {"nothing", "excused"}
            BY DEF BotReplies
        <3> QED
            BY <1>1, <3>1, <3>2 DEF Deliveries
    <2> QED
        BY <1>1, <2>1 DEF Deliveries
<1>3. deliveries' = [deliveries EXCEPT ![i] = e]
    BY DEF Concludes
<1>4. /\ mentionLedger' \in [Bots -> [Mentions -> BotReplies \cup {"new", "pending"}]]
      /\ mentionLedger'[d.bot][d.mention] = reply
      /\ \A s \in Bots, m \in Mentions : s # d.bot \/ m # d.mention => mentionLedger'[s][m] = mentionLedger[s][m]
    BY <1>1, <1>2 DEF Concludes, MentionsTypeOK, BotReplies
<1>5. MentionsTypeOK'
    BY <1>1, <1>2, <1>3, <1>4 DEF MentionsTypeOK, LedgersGrow
<1>6. ClaimIsHeld(e)' /\ AnswerStands(e)'
    BY <1>1, <1>2, <1>4 DEF ClaimIsHeld, AnswerStands, Current, Heard, AtWork
<1>7. Follows(d, e)
    BY <1>2 DEF Follows, HasClaim, AtWork
<1>8. LeavesAlone(d)
    BY <1>4, <1>5 DEF LeavesAlone
<1>9. AnswersItsOwn(d, e)
    BY <1>2, <1>4 DEF AnswersItsOwn
<1> QED
    BY <1>3, <1>6, <1>7, <1>8, <1>9, DeliveryMoves

\* A delivery goes on without an answer for its message.
GoesOn(d, e) ==
    /\ mentionLedger' = mentionLedger /\ botLife' = botLife /\ boardOpen' = boardOpen
    /\ LedgersGrow
    /\ Follows(d, e) /\ e.reply = d.reply
    /\ ClaimIsHeld(e) /\ AnswerStands(e)'

LEMMA GoesOnKeepsInv ==
    ASSUME MentionsInv, NEW i \in DOMAIN deliveries, NEW d, d = deliveries[i], NEW e,
           deliveries' = [deliveries EXCEPT ![i] = e], GoesOn(d, e)
    PROVE  MentionsInv'
<1> USE DEF GoesOn
<1>1. MentionsTypeOK'
    <2>1. deliveries' \in Seq(Deliveries)
        BY DEF MentionsInv, MentionsTypeOK, Follows
    <2> QED
        BY <2>1 DEF MentionsInv, MentionsTypeOK, LedgersGrow
<1>2. LeavesAlone(d)
    BY <1>1 DEF LeavesAlone
<1>4. AnswersItsOwn(d, e)
    BY DEF AnswersItsOwn
<1>3. ClaimIsHeld(e)'
    BY DEF ClaimIsHeld, Current, Heard, AtWork
<1> QED
    BY <1>2, <1>3, <1>4, DeliveryMoves

LEMMA QuoteBetKeepsInv ==
    ASSUME MentionsInv, NEW i \in DOMAIN deliveries, QuoteBet(i)
    PROVE  MentionsInv'
<1> PICK d : d = deliveries[i]
    OBVIOUS
<1>1. MentionsTypeOK /\ d \in Deliveries /\ ClaimIsHeld(d) /\ AnswerStands(d) /\ d.step = "quoting"
    BY DEF MentionsInv, MentionsTypeOK, QuoteBet
<1>2. AtWork(d) /\ UNCHANGED <<ledgerVars, botLife, boardOpen>> /\ LedgersGrow
    BY <1>1, LedgersStay DEF QuoteBet, AtWork, MentionsTypeOK
<1>3. CASE Concludes(i, "refused", FALSE)
    BY <1>2, <1>3, ConcludesKeepsInv
<1>4. CASE deliveries' = [deliveries EXCEPT ![i].step = "paying"] /\ UNCHANGED mentionLedger
    <2> PICK e : e = [d EXCEPT !.step = "paying"]
        OBVIOUS
    <2>1. /\ e \in Deliveries /\ e.bot = d.bot /\ e.life = d.life /\ e.mention = d.mention /\ e.knew = d.knew /\ e.fresh = d.fresh
          /\ e.escrow = d.escrow /\ e.step = "paying" /\ e.reply = d.reply /\ e.indexed = d.indexed /\ e.unsaved = d.unsaved
        BY <1>1 DEF Deliveries
    <2>2. ClaimIsHeld(e) /\ AnswerStands(e)' /\ HasClaim(d)
        BY <1>1, <1>2, <1>4, <2>1 DEF ClaimIsHeld, AnswerStands, Current, Heard, AtWork, HasClaim
    <2>3. Follows(d, e) /\ deliveries' = [deliveries EXCEPT ![i] = e]
        BY <1>4, <2>1, <2>2 DEF Follows
    <2>9. GoesOn(d, e)
        BY <1>2, <1>4, <2>1, <2>2, <2>3 DEF GoesOn
    <2> QED
        BY <2>3, <2>9, GoesOnKeepsInv
<1>5. CASE /\ mentionLedger' = [mentionLedger EXCEPT ![deliveries[i].bot][deliveries[i].mention] = "new"]
           /\ deliveries' = [deliveries EXCEPT ![i].step = "replying", ![i].reply = "excused"]
    <2> PICK e : e = [d EXCEPT !.step = "replying", !.reply = "excused"]
        OBVIOUS
    <2>1. /\ e \in Deliveries /\ e.bot = d.bot /\ e.life = d.life /\ e.mention = d.mention /\ e.knew = d.knew /\ e.fresh = d.fresh
          /\ e.escrow = d.escrow /\ e.step = "replying" /\ e.reply = "excused" /\ e.indexed = d.indexed /\ d.bot \in Bots /\ d.mention \in Mentions
        BY <1>1 DEF Deliveries
    <2>2. deliveries' = [deliveries EXCEPT ![i] = e]
        BY <1>5
    <2>3. /\ mentionLedger' \in [Bots -> [Mentions -> BotReplies \cup {"new", "pending"}]]
          /\ mentionLedger'[d.bot][d.mention] = "new"
          /\ \A s \in Bots, m \in Mentions : s # d.bot \/ m # d.mention => mentionLedger'[s][m] = mentionLedger[s][m]
        BY <1>1, <1>5, <2>1 DEF MentionsTypeOK
    <2>4. MentionsTypeOK'
        BY <1>1, <1>2, <2>1, <2>2, <2>3 DEF MentionsTypeOK, LedgersGrow
    <2>5. ClaimIsHeld(e)' /\ AnswerStands(e)' /\ HasClaim(d)
        BY <1>1, <1>2, <2>1, <2>3 DEF ClaimIsHeld, AnswerStands, Current, Heard, AtWork, HasClaim
    <2>6. Follows(d, e)
        BY <2>1, <2>5 DEF Follows
    <2>7. LeavesAlone(d)
        BY <1>2, <2>3, <2>4 DEF LeavesAlone
    <2>8. AnswersItsOwn(d, e)
        BY <1>2, <2>1, <2>3 DEF AnswersItsOwn
    <2> QED
        BY <2>2, <2>5, <2>6, <2>7, <2>8, DeliveryMoves
<1> QED
    BY <1>3, <1>4, <1>5 DEF QuoteBet

LEMMA PayKeepsInv ==
    ASSUME MentionsInv, NEW i \in DOMAIN deliveries, Pay(i)
    PROVE  MentionsInv'
<1> PICK d : d = deliveries[i]
    OBVIOUS
<1>1. MentionsTypeOK /\ d \in Deliveries /\ ClaimIsHeld(d) /\ AnswerStands(d) /\ d.step = "paying"
    BY DEF MentionsInv, MentionsTypeOK, Pay
<1>2. AtWork(d) /\ UNCHANGED <<ledgerVars, botLife, boardOpen>> /\ LedgersGrow
    BY <1>1, LedgersStay DEF Pay, AtWork, MentionsTypeOK
<1>3. CASE Concludes(i, "refused", FALSE)
    BY <1>2, <1>3, ConcludesKeepsInv
<1>4. CASE ~Concludes(i, "refused", FALSE)
    <2>1. /\ ~settledBefore(d.bot, BetOf(d.mention)) /\ UNCHANGED mentionLedger
          /\ deliveries' = [deliveries EXCEPT ![i].step = "placing", ![i].escrow = "submitted", ![i].knew = lastHeard[d.bot]]
        BY <1>4 DEF Pay
    <2> PICK e : e = [d EXCEPT !.step = "placing", !.escrow = "submitted", !.knew = lastHeard[d.bot]]
        OBVIOUS
    <2>0. d.bot \in Bots /\ lastHeard[d.bot] \subseteq booked[d.bot] /\ lastHeard[d.bot] \in SUBSET BetsSaid
        BY <1>1 DEF MentionsTypeOK, LedgersTrue, Deliveries
    <2>2. /\ e \in Deliveries /\ e.bot = d.bot /\ e.life = d.life /\ e.mention = d.mention /\ e.knew = lastHeard[d.bot] /\ e.fresh = d.fresh
          /\ e.escrow = "submitted" /\ e.step = "placing" /\ e.reply = d.reply /\ e.indexed = d.indexed /\ e.unsaved = d.unsaved
        BY <1>1, <2>0 DEF Deliveries
    <2>3. BetOf(d.mention) \notin e.knew /\ d.escrow # "executed"
        BY <1>1, <2>0, <2>1, <2>2 DEF settledBefore, ClaimIsHeld
    <2>4. ClaimIsHeld(e) /\ AnswerStands(e)' /\ HasClaim(d)
        BY <1>1, <1>2, <2>1, <2>2, <2>3 DEF ClaimIsHeld, AnswerStands, Current, Heard, AtWork, HasClaim
    <2>5. Follows(d, e) /\ deliveries' = [deliveries EXCEPT ![i] = e]
        BY <2>1, <2>2, <2>3, <2>4 DEF Follows
    <2>9. GoesOn(d, e)
        BY <1>2, <2>1, <2>2, <2>4, <2>5 DEF GoesOn
    <2> QED
        BY <2>5, <2>9, GoesOnKeepsInv
<1> QED
    BY <1>3, <1>4

LEMMA EscrowKeepsMentions ==
    ASSUME MentionsInv, NEW i \in DOMAIN deliveries, EscrowLands(i) \/ EscrowPlaced(i) \/ EscrowFails(i)
    PROVE  MentionsInv'
<1> PICK d : d = deliveries[i]
    OBVIOUS
<1>1. MentionsTypeOK /\ d \in Deliveries /\ ClaimIsHeld(d) /\ AnswerStands(d) /\ LedgersTrue
    BY DEF MentionsInv, MentionsTypeOK
<1>2. CASE EscrowLands(i)
    <2> PICK end \in {"executed", "reverted"} : deliveries' = [deliveries EXCEPT ![i].escrow = end]
        BY <1>2 DEF EscrowLands
    <2>1. d.escrow = "submitted" /\ UNCHANGED <<mentionLedger, ledgerVars, botLife, boardOpen>> /\ LedgersGrow
        BY <1>1, <1>2, LedgersStay DEF EscrowLands
    <2> PICK e : e = [d EXCEPT !.escrow = end]
        OBVIOUS
    <2>2. /\ e \in Deliveries /\ e.bot = d.bot /\ e.life = d.life /\ e.mention = d.mention /\ e.knew = d.knew /\ e.fresh = d.fresh
          /\ e.escrow = end /\ e.step = d.step /\ e.reply = d.reply /\ e.indexed = d.indexed /\ e.unsaved = d.unsaved
        BY <1>1 DEF Deliveries
    <2>3. ClaimIsHeld(e) /\ HasClaim(d)
        BY <1>1, <2>1, <2>2 DEF ClaimIsHeld, Current, Heard, AtWork, HasClaim
    <2>5. AnswerStands(e)'
        <3>1. UNCHANGED <<booked, storedBets, overwritten, mentionLedger, botLife>>
            BY <2>1 DEF ledgerVars
        <3> QED
            BY <1>1, <2>2, <3>1 DEF AnswerStands, Current, Heard, Kept, Lasting
    <2>4. Follows(d, e) /\ deliveries' = [deliveries EXCEPT ![i] = e]
        BY <2>1, <2>2, <2>3 DEF Follows
    <2>9. GoesOn(d, e)
        BY <2>1, <2>2, <2>3, <2>4, <2>5 DEF GoesOn
    <2> QED
        BY <2>4, <2>9, GoesOnKeepsInv
<1>3. CASE EscrowPlaced(i)
    <2> DEFINE indexed == boardOpen \/ BetOf(d.mention) \in booked[d.bot]
    <2>1. /\ d.step = "placing" /\ d.escrow = "executed" /\ UNCHANGED <<botLife, boardOpen>>
          /\ UNCHANGED <<storedBets, answerDue, lastHeard, overwritten>>
          /\ Concludes(i, "placed", indexed) /\ d.bot \in Bots /\ BetOf(d.mention) \in BetsSaid
          /\ booked' = IF indexed THEN [booked EXCEPT ![d.bot] = @ \cup {BetOf(d.mention)}] ELSE booked
        BY <1>1, <1>3 DEF EscrowPlaced, Deliveries, BetsSaid
    <2> HIDE DEF indexed
    <2>2. CASE indexed
        <3>1. booked' = [booked EXCEPT ![d.bot] = @ \cup {BetOf(d.mention)}] /\ Concludes(i, "placed", TRUE)
            BY <2>1, <2>2 DEF Concludes
        <3>2. LedgersTrue' /\ \A s \in Bots : booked[s] \subseteq booked'[s]
            BY <1>1, <2>1, <3>1 DEF LedgersTrue
        <3>3. LedgersGrow /\ BetOf(d.mention) \in Kept(d.bot)'
            BY <1>1, <2>1, <3>1, <3>2 DEF LedgersGrow, Lasting, Kept, LedgersTrue
        <3> QED
            BY <1>1, <2>1, <3>1, <3>3, ConcludesKeepsInv DEF AtWork
    <2>3. CASE ~indexed
        <3>0. UNCHANGED ledgerVars
            BY <2>1, <2>3 DEF ledgerVars
        <3>1. LedgersGrow
            BY <1>1, <3>0, LedgersStay
        <3>2. indexed = FALSE
            BY <2>3 DEF indexed
        <3>3. Concludes(i, "placed", FALSE)
            BY <2>1, <3>2, Zenon
        <3> QED
            BY <1>1, <2>1, <3>1, <3>3, ConcludesKeepsInv DEF AtWork
    <2> QED
        BY <2>2, <2>3
<1>4. CASE EscrowFails(i)
    BY <1>1, <1>4, LedgersStay, ConcludesKeepsInv DEF EscrowFails, AtWork
<1> QED
    BY <1>2, <1>3, <1>4

LEMMA SendReplyKeepsInv ==
    ASSUME MentionsInv, NEW i \in DOMAIN deliveries, SendReply(i)
    PROVE  MentionsInv'
<1> PICK d : d = deliveries[i]
    OBVIOUS
<1>1. /\ MentionsTypeOK /\ d \in Deliveries /\ ClaimIsHeld(d) /\ AnswerStands(d) /\ d.step = "replying"
      /\ UNCHANGED <<mentionLedger, botLife, boardOpen>> /\ LedgersTrue /\ d.bot \in Bots
    <2>1. MentionsTypeOK /\ d \in Deliveries /\ ClaimIsHeld(d) /\ AnswerStands(d) /\ LedgersTrue
        BY DEF MentionsInv, MentionsTypeOK
    <2>2. d.step = "replying" /\ UNCHANGED <<mentionLedger, botLife, boardOpen>>
        BY DEF SendReply
    <2> QED
        BY <2>1, <2>2 DEF Deliveries
<1>2. ASSUME NEW st \in {"answered", "unanswered"}, NEW lost \in BOOLEAN, LedgersGrow,
             deliveries' = [deliveries EXCEPT ![i] = [d EXCEPT !.step = st, !.unsaved = lost]],
             st = "answered" /\ d.indexed = TRUE => lost \/ BetOf(d.mention) \in Lasting'
      PROVE  MentionsInv'
    <2> PICK e : e = [d EXCEPT !.step = st, !.unsaved = lost]
        OBVIOUS
    <2>1. /\ e \in Deliveries /\ e.bot = d.bot /\ e.life = d.life /\ e.mention = d.mention /\ e.knew = d.knew /\ e.fresh = d.fresh
          /\ e.escrow = d.escrow /\ e.step = st /\ e.reply = d.reply /\ e.indexed = d.indexed /\ e.unsaved = lost
        BY <1>1 DEF Deliveries
    <2>2. ClaimIsHeld(e)
        BY <1>1, <2>1 DEF ClaimIsHeld, Current, Heard, AtWork
    <2>3. AnswerStands(e)'
        BY <1>1, <1>2, <2>1 DEF AnswerStands, Current, Heard
    <2>4. Follows(d, e) /\ deliveries' = [deliveries EXCEPT ![i] = e]
        BY <1>2, <2>1 DEF Follows, HasClaim, AtWork
    <2>9. GoesOn(d, e)
        BY <1>1, <1>2, <2>1, <2>2, <2>3, <2>4 DEF GoesOn
    <2> QED
        BY <2>4, <2>9, GoesOnKeepsInv
<1>3. d.indexed = TRUE => AwaitsFlush(d) /\ BetOf(d.mention) \in Kept(d.bot)
    BY <1>1 DEF AnswerStands, AwaitsFlush
<1>4. ASSUME NEW lands \in BOOLEAN, FlushOf(d.bot, lands),
             deliveries' = [deliveries EXCEPT ![i].step = "answered", ![i].unsaved = ~lands]
      PROVE  MentionsInv'
    <2>1. deliveries' = [deliveries EXCEPT ![i] = [d EXCEPT !.step = "answered", !.unsaved = ~lands]]
        BY <1>1, <1>4 DEF MentionsTypeOK
    <2>2. LedgersGrow /\ (lands => Kept(d.bot) \subseteq Lasting')
        BY <1>1, <1>4, FlushGrows
    <2> QED
        BY <1>2, <1>3, <2>1, <2>2
<1>5. ASSUME NEW st \in {"answered", "unanswered"}, st = "answered" => ~AwaitsFlush(d),
             deliveries' = [deliveries EXCEPT ![i].step = st], UNCHANGED ledgerVars
      PROVE  MentionsInv'
    <2>1. deliveries' = [deliveries EXCEPT ![i] = [d EXCEPT !.step = st, !.unsaved = d.unsaved]] /\ d.unsaved \in BOOLEAN
        BY <1>1, <1>5 DEF MentionsTypeOK, Deliveries
    <2>2. LedgersGrow
        BY <1>1, <1>5, LedgersStay
    <2> QED
        BY <1>2, <1>3, <1>5, <2>1, <2>2
<1> QED
    BY <1>4, <1>5 DEF SendReply

\* A message arrives: only one that nobody claimed in this life is claimed, and what was answered
\* before is answered again.
LEMMA DeliverKeepsInv ==
    ASSUME MentionsInv, NEW s \in Bots, NEW m \in Mentions, NEW signed \in BOOLEAN, Deliver(s, m, signed)
    PROVE  MentionsInv'
<1>1. /\ MentionsTypeOK /\ UNCHANGED <<boardOpen, ledgerVars, botLife>>
      /\ Len(deliveries) \in Nat /\ DOMAIN deliveries = 1 .. Len(deliveries)
    BY DEF MentionsInv, MentionsTypeOK, Deliver
<1> PICK n \in Nat : n = Len(deliveries) + 1
    BY <1>1
<1>2. PICK e \in Deliveries :
        /\ deliveries' = Append(deliveries, e)
        /\ e.bot = s /\ e.mention = m /\ e.life = botLife[s] /\ e.escrow = "none" /\ e.indexed = FALSE
        /\ \/ /\ e.step \in {"unauthorized", "silent"} /\ mentionLedger' = mentionLedger /\ e.reply = "nothing"
           \/ /\ mentionLedger[s][m] \notin {"new", "pending"} /\ mentionLedger' = mentionLedger
              /\ e.step = "replying" /\ e.reply = mentionLedger[s][m]
           \/ /\ mentionLedger[s][m] = "new" /\ e.fresh = TRUE
              /\ \/ e.step = "quoting" /\ e.reply = "nothing" /\ mentionLedger' = [mentionLedger EXCEPT ![s][m] = "pending"]
                 \/ e.step = "replying" /\ e.reply = "info" /\ mentionLedger' = [mentionLedger EXCEPT ![s][m] = "info"]
    <2> DEFINE heard == mentionLedger[s][m]
               fresh == claimMention(s, m)
               st == CASE ~secretOk(signed) -> "unauthorized"
                       [] secretOk(signed) /\ fresh -> IF BetOf(m).kind = "bet" THEN "quoting" ELSE "replying"
                       [] secretOk(signed) /\ ~fresh -> IF heard = "pending" THEN "silent" ELSE "replying"
               reply == IF st # "replying" THEN "nothing" ELSE IF fresh THEN "info" ELSE heard
               e == [bot |-> s, life |-> botLife[s], mention |-> m, fresh |-> fresh, step |-> st, reply |-> reply,
                     escrow |-> "none", indexed |-> FALSE, unsaved |-> FALSE, knew |-> {}]
    <2>1. /\ deliveries' = Append(deliveries, e)
          /\ mentionLedger' = IF st = "unauthorized" \/ ~fresh THEN mentionLedger
                              ELSE [mentionLedger EXCEPT ![s][m] = IF st = "replying" THEN "info" ELSE "pending"]
        BY DEF Deliver
    <2>2. heard \in BotReplies \cup {"new", "pending"} /\ botLife[s] \in Nat
        BY <1>1 DEF MentionsTypeOK
    <2>3. fresh \in BOOLEAN /\ (fresh => heard = "new") /\ (heard = "new" => fresh)
        BY DEF claimMention
    <2>4. \/ st \in {"unauthorized", "silent"} /\ reply = "nothing" /\ (st = "silent" => ~fresh)
          \/ ~fresh /\ heard # "pending" /\ st = "replying" /\ reply = heard
          \/ fresh /\ st = "quoting" /\ reply = "nothing"
          \/ fresh /\ st = "replying" /\ reply = "info"
        OBVIOUS
    <2>5. e.bot = s /\ e.mention = m /\ e.life = botLife[s] /\ e.escrow = "none" /\ e.indexed = FALSE
          /\ e.step = st /\ e.reply = reply /\ e.fresh = fresh
        OBVIOUS
    <2> HIDE DEF fresh, st, reply, heard
    <2>6. e \in Deliveries
        BY <2>2, <2>3, <2>4 DEF Deliveries, BotReplies
    <2> HIDE DEF e
    <2>7. CASE st \in {"unauthorized", "silent"} /\ reply = "nothing" /\ (st = "silent" => ~fresh)
        BY <2>1, <2>5, <2>6, <2>7
    <2>8. CASE ~fresh /\ heard # "pending" /\ st = "replying" /\ reply = heard
        BY <2>1, <2>3, <2>5, <2>6, <2>8 DEF heard
    <2>9. CASE fresh /\ st = "quoting" /\ reply = "nothing"
        BY <2>1, <2>3, <2>5, <2>6, <2>9 DEF heard
    <2>10. CASE fresh /\ st = "replying" /\ reply = "info"
        BY <2>1, <2>3, <2>5, <2>6, <2>10 DEF heard
    <2> QED
        BY <2>4, <2>7, <2>8, <2>9, <2>10
<1>3. /\ deliveries' \in Seq(Deliveries) /\ DOMAIN deliveries' = 1 .. n /\ DOMAIN deliveries = 1 .. n - 1
      /\ deliveries'[n] = e /\ \A j \in 1 .. n - 1 : deliveries'[j] = deliveries[j]
    BY <1>1, <1>2 DEF MentionsTypeOK
<1>4. \A j \in 1 .. n - 1 : deliveries[j] \in Deliveries /\ ClaimIsHeld(deliveries[j]) /\ AnswerStands(deliveries[j])
    BY <1>1, <1>3 DEF MentionsInv, MentionsTypeOK
<1>5. LedgersTrue' /\ UNCHANGED <<storedBets, overwritten, booked>>
    BY <1>1, LedgersStay DEF MentionsTypeOK, LedgersGrow, ledgerVars
<1>6. /\ mentionLedger' \in [Bots -> [Mentions -> BotReplies \cup {"new", "pending"}]]
      /\ \A t \in Bots, x \in Mentions :
            \/ mentionLedger'[t][x] = mentionLedger[t][x]
            \/ t = s /\ x = m /\ mentionLedger[t][x] = "new" /\ mentionLedger'[t][x] \in {"pending", "info"}
    <2>1. \/ mentionLedger' = mentionLedger
          \/ mentionLedger[s][m] = "new" /\ \E x \in {"pending", "info"} : mentionLedger' = [mentionLedger EXCEPT ![s][m] = x]
        BY <1>2
    <2>2. CASE mentionLedger' = mentionLedger
        BY <1>1, <2>2 DEF MentionsTypeOK
    <2>3. ASSUME NEW x \in {"pending", "info"}, mentionLedger[s][m] = "new", mentionLedger' = [mentionLedger EXCEPT ![s][m] = x]
          PROVE  <1>6!1 /\ <1>6!2
        BY <1>1, <2>3 DEF MentionsTypeOK, BotReplies
    <2> QED
        BY <2>1, <2>2, <2>3
<1>7. MentionsTypeOK'
    BY <1>1, <1>3, <1>5, <1>6 DEF MentionsTypeOK
\* An earlier delivery of the message staked nothing and answered nothing in this life, if nobody
\* holds the claim.
<1>8. ASSUME NEW j \in 1 .. n - 1, NEW f \in Deliveries, f = deliveries[j]
      PROVE  ClaimIsHeld(f)' /\ AnswerStands(f)'
    <2>1. ClaimIsHeld(f) /\ AnswerStands(f) /\ f.bot \in Bots /\ f.mention \in Mentions
        BY <1>4, <1>8 DEF Deliveries
    <2>2. Heard(f)' = Heard(f) \/ (Heard(f) = "new" /\ Heard(f)' \in {"pending", "info"})
        BY <1>6, <2>1 DEF Heard
    <2>3. ClaimIsHeld(f)'
        BY <1>1, <1>5, <2>1, <2>2 DEF ClaimIsHeld, Current, AtWork
    <2>4. AnswerStands(f)'
        BY <1>1, <1>5, <2>1, <2>2 DEF AnswerStands, Current, Kept, Lasting
    <2> QED
        BY <2>3, <2>4
<1>9. ClaimIsHeld(e)' /\ AnswerStands(e)'
    <2>1. e.life = botLife[e.bot] /\ botLife[e.bot] \in Nat /\ botLife' = botLife /\ mentionLedger[s][m] \in BotReplies \cup {"new", "pending"}
        BY <1>1, <1>2 DEF MentionsTypeOK
    <2>2. AtWork(e) => e.fresh = TRUE /\ e.reply = "nothing" /\ mentionLedger'[s][m] = "pending"
        BY <1>1, <1>2 DEF AtWork, MentionsTypeOK
    <2>3. e.reply \in {"placed", "refused"} => mentionLedger'[s][m] = e.reply
        BY <1>2
    <2> QED
        BY <1>2, <2>1, <2>2, <2>3 DEF ClaimIsHeld, AnswerStands, Current, Heard, AtWork
<1>10. ASSUME NEW j \in 1 .. n - 1, SameMessage(deliveries[j], e)
       PROVE  /\ HasClaim(e) => ~HasClaim(deliveries[j])
              /\ e.reply \in {"placed", "refused"} => deliveries[j].reply \notin {"placed", "refused"} \ {e.reply}
    <2> PICK f \in Deliveries : f = deliveries[j]
        BY <1>4
    <2>1. ClaimIsHeld(f) /\ AnswerStands(f) /\ Current(f) /\ Heard(f) = mentionLedger[s][m]
        BY <1>2, <1>4, <1>10 DEF SameMessage, Together, Current, Heard
    <2>2. HasClaim(e) => mentionLedger[s][m] = "new"
        BY <1>2 DEF HasClaim, AtWork
    <2>3. HasClaim(f) => mentionLedger[s][m] # "new"
        BY <2>1 DEF HasClaim, ClaimIsHeld
    <2>4. e.reply \in {"placed", "refused"} => e.reply = mentionLedger[s][m]
        BY <1>2
    <2>5. f.reply \in {"placed", "refused"} => f.reply = mentionLedger[s][m]
        BY <2>1 DEF AnswerStands
    <2> QED
        BY <2>2, <2>3, <2>4, <2>5
<1>11. \A j \in DOMAIN deliveries' : j = n \/ j \in 1 .. n - 1
    BY <1>3
<1>12. OneHasClaim'
    BY <1>3, <1>10, <1>11 DEF MentionsInv, OneHasClaim, SameMessage, Together, HasClaim, AtWork
<1>13. OneAnswer'
    <2> SUFFICES ASSUME NEW j \in DOMAIN deliveries', NEW k \in DOMAIN deliveries', SameMessage(deliveries'[j], deliveries'[k]),
                        deliveries'[j].reply = "refused", deliveries'[k].reply = "placed"
                 PROVE  FALSE
        BY DEF OneAnswer, SameMessage, Together
    <2>1. CASE j = n \/ k = n
        BY <1>3, <1>10, <1>11, <2>1 DEF SameMessage, Together
    <2>2. CASE j # n /\ k # n
        BY <1>3, <1>11, <2>2 DEF MentionsInv, OneAnswer
    <2> QED
        BY <2>1, <2>2
<1>14. PlacedIsStaked'
    <2>1. \A t, l, x : HasStaked(t, l, x) => HasStaked(t, l, x)'
        BY <1>3 DEF HasStaked
    <2>2. e.reply = "placed" => HasStaked(e.bot, e.life, e.mention)
        BY <1>2 DEF MentionsInv, PlacedIsStaked
    <2>3. \A t \in Bots, x \in Mentions : mentionLedger'[t][x] = "placed" => mentionLedger[t][x] = "placed"
        BY <1>6
    <2>4. ASSUME NEW j \in DOMAIN deliveries', deliveries'[j].reply = "placed"
          PROVE  \E k \in DOMAIN deliveries' : /\ SameMessage(deliveries'[k], deliveries'[j])
                                              /\ deliveries'[k].escrow = "executed"
        <3> PICK f : f = deliveries'[j]
            OBVIOUS
        <3>1. HasStaked(f.bot, f.life, f.mention)
            BY <1>3, <1>11, <2>2, <2>4 DEF MentionsInv, PlacedIsStaked
        <3> QED
            BY <1>3, <1>11, <3>1 DEF HasStaked, SameMessage, Together
    <2>5. \A t \in Bots, x \in Mentions : mentionLedger'[t][x] = "placed" => HasStaked(t, botLife'[t], x)
        BY <1>1, <2>3 DEF MentionsInv, PlacedIsStaked
    <2> QED
        BY <1>1, <2>1, <2>4, <2>5 DEF PlacedIsStaked, HasStaked, SameMessage, Together
<1>15. ASSUME NEW j \in DOMAIN deliveries', NEW f \in Deliveries, f = deliveries'[j]
       PROVE  ClaimIsHeld(f)' /\ AnswerStands(f)'
    <2>1. CASE j = n
        <3>1. f = e
            BY <1>3, <1>15, <2>1
        <3> QED
            BY <1>9, <3>1
    <2>2. CASE j \in 1 .. n - 1
        BY <1>3, <1>8, <1>15, <2>2
    <2> QED
        BY <1>11, <2>1, <2>2
<1> QED
    BY <1>7, <1>12, <1>13, <1>14, <1>15, MentionsInvNext

\* A server dies: its claims and its claimants go together.
LEMMA BotDiesKeepsInv ==
    ASSUME MentionsInv, NEW s \in Bots, BotDies(s)
    PROVE  MentionsInv'
<1> DEFINE later(f) == IF f.bot = s /\ (AtWork(f) \/ f.step = "replying") THEN [f EXCEPT !.step = "lost"] ELSE f
<1>1. /\ MentionsTypeOK /\ UNCHANGED <<boardOpen, storedBets, overwritten>>
      /\ answerDue' = [answerDue EXCEPT ![s] = {}] /\ lastHeard' = [lastHeard EXCEPT ![s] = {}]
      /\ botLife' = [botLife EXCEPT ![s] = @ + 1]
      /\ mentionLedger' = [mentionLedger EXCEPT ![s] = [m \in Mentions |-> "new"]]
      /\ booked' = [booked EXCEPT ![s] = {}]
    BY DEF MentionsInv, BotDies
<1>2. /\ deliveries \in Seq(Deliveries) /\ Len(deliveries) \in Nat /\ DOMAIN deliveries = 1 .. Len(deliveries)
      /\ \A j \in DOMAIN deliveries : deliveries[j] \in Deliveries /\ ClaimIsHeld(deliveries[j]) /\ AnswerStands(deliveries[j])
    BY <1>1 DEF MentionsInv, MentionsTypeOK
<1>3. deliveries' = [j \in DOMAIN deliveries |-> later(deliveries[j])]
    BY DEF BotDies, AtWork
<1>4. ASSUME NEW f \in Deliveries
      PROVE  /\ later(f) \in Deliveries /\ later(f).bot = f.bot /\ later(f).life = f.life /\ later(f).mention = f.mention
             /\ later(f).fresh = f.fresh /\ later(f).reply = f.reply /\ later(f).escrow = f.escrow
             /\ later(f).indexed = f.indexed /\ later(f).knew = f.knew /\ later(f).unsaved = f.unsaved
             /\ \/ later(f).step = f.step /\ (f.bot = s => ~AtWork(f) /\ f.step # "replying")
                \/ later(f).step = "lost" /\ f.bot = s
    BY DEF Deliveries
<1> HIDE DEF later
<1>5. /\ DOMAIN deliveries' = DOMAIN deliveries /\ deliveries' \in Seq(Deliveries)
      /\ \A j \in DOMAIN deliveries : deliveries'[j] = later(deliveries[j])
    BY <1>2, <1>3, <1>4
<1>6. MentionsTypeOK'
    <2>1. LedgersTrue'
        BY <1>1 DEF MentionsTypeOK, LedgersTrue
    <2> QED
        BY <1>1, <1>5, <2>1 DEF MentionsTypeOK
<1>7. ASSUME NEW j \in DOMAIN deliveries', NEW g \in Deliveries, g = deliveries'[j]
      PROVE  ClaimIsHeld(g)' /\ AnswerStands(g)'
    <2> PICK f \in Deliveries : f = deliveries[j]
        BY <1>2, <1>5
    <2>1. g = later(f) /\ ClaimIsHeld(f) /\ AnswerStands(f) /\ f.bot \in Bots /\ f.mention \in Mentions /\ f.life \in Nat
        BY <1>2, <1>5, <1>7 DEF Deliveries
    <2>2. CASE f.bot = s
        <3>1. ~Current(g)' /\ g.life <= botLife'[g.bot] /\ ~AtWork(g) /\ g.step # "replying"
            BY <1>1, <1>4, <2>1, <2>2 DEF MentionsTypeOK, ClaimIsHeld, Current, AtWork
        <3>2. g.step = f.step \/ g.step = "lost"
            BY <1>4, <2>1
        <3> QED
            BY <1>1, <1>4, <2>1, <3>1, <3>2 DEF ClaimIsHeld, AnswerStands, Current, AtWork, Lasting
    <2>3. CASE f.bot # s
        <3>1. /\ g.step = f.step /\ botLife'[f.bot] = botLife[f.bot] /\ booked'[f.bot] = booked[f.bot]
              /\ mentionLedger'[f.bot] = mentionLedger[f.bot]
            BY <1>1, <1>4, <2>1, <2>3 DEF MentionsTypeOK, LedgersTrue
        <3>2. ClaimIsHeld(g)'
            BY <1>4, <2>1, <3>1 DEF ClaimIsHeld, Current, Heard, AtWork
        <3>3. AnswerStands(g)'
            BY <1>1, <1>4, <2>1, <3>1 DEF AnswerStands, Current, Heard, Kept, Lasting
        <3> QED
            BY <3>2, <3>3
    <2> QED
        BY <2>2, <2>3
<1>8. ASSUME NEW j \in DOMAIN deliveries
      PROVE  /\ deliveries'[j].bot = deliveries[j].bot /\ deliveries'[j].life = deliveries[j].life
             /\ deliveries'[j].mention = deliveries[j].mention /\ deliveries'[j].reply = deliveries[j].reply
             /\ deliveries'[j].escrow = deliveries[j].escrow
             /\ HasClaim(deliveries'[j]) => HasClaim(deliveries[j])
    BY <1>2, <1>4, <1>5 DEF HasClaim, AtWork
<1>9. OneHasClaim'
    BY <1>5, <1>8 DEF MentionsInv, OneHasClaim, SameMessage, Together, HasClaim, AtWork
<1>10. OneAnswer'
    BY <1>5, <1>8 DEF MentionsInv, OneAnswer, SameMessage, Together
<1>11. PlacedIsStaked'
    <2>1. \A t, l, x : HasStaked(t, l, x) => HasStaked(t, l, x)'
        BY <1>5, <1>8 DEF HasStaked
    <2>2. ASSUME NEW j \in DOMAIN deliveries', deliveries'[j].reply = "placed"
          PROVE  \E k \in DOMAIN deliveries' : /\ SameMessage(deliveries'[k], deliveries'[j])
                                              /\ deliveries'[k].escrow = "executed"
        <3> PICK f : f = deliveries[j]
            OBVIOUS
        <3>1. HasStaked(f.bot, f.life, f.mention)
            BY <1>5, <1>8, <2>2 DEF MentionsInv, PlacedIsStaked
        <3> QED
            BY <1>5, <1>8, <3>1 DEF HasStaked, SameMessage, Together
    <2>3. \A t \in Bots, x \in Mentions : mentionLedger'[t][x] = "placed" => HasStaked(t, botLife'[t], x)
        BY <1>1 DEF MentionsInv, PlacedIsStaked, MentionsTypeOK
    <2> QED
        BY <1>1, <2>1, <2>2, <2>3 DEF PlacedIsStaked, HasStaked, SameMessage, Together
<1> QED
    BY <1>6, <1>7, <1>9, <1>10, <1>11, MentionsInvNext

\* The ledgers move alone.
LEMMA LedgersKeepInv ==
    ASSUME MentionsInv, LedgersGrow, UNCHANGED <<mentionLedger, botLife, deliveries>>, boardOpen' \in BOOLEAN
    PROVE  MentionsInv'
<1>1. MentionsTypeOK /\ MentionsTypeOK'
    BY DEF MentionsInv, MentionsTypeOK, LedgersGrow
<1>2. OneHasClaim' /\ OneAnswer' /\ PlacedIsStaked'
    BY DEF MentionsInv, OneHasClaim, OneAnswer, PlacedIsStaked, HasStaked
<1>3. ASSUME NEW j \in DOMAIN deliveries', NEW f \in Deliveries, f = deliveries'[j]
      PROVE  ClaimIsHeld(f)' /\ AnswerStands(f)'
    <2>1. ClaimIsHeld(f) /\ AnswerStands(f) /\ f.bot \in Bots
        BY <1>3 DEF MentionsInv, Deliveries
    <2>2. Kept(f.bot) \subseteq Kept(f.bot)' /\ Lasting \subseteq Lasting'
        BY <2>1 DEF LedgersGrow
    <2>3. ClaimIsHeld(f)'
        BY <2>1 DEF ClaimIsHeld, Current, Heard
    <2>4. AnswerStands(f)'
        BY <2>1, <2>2 DEF AnswerStands, Current, Heard
    <2> QED
        BY <2>3, <2>4
<1> QED
    BY <1>1, <1>2, <1>3, MentionsInvNext

LEMMA StoreKeepsInv ==
    ASSUME MentionsInv, NEW s \in Bots, BotFlushes(s) \/ BotReads(s) \/ BotHears(s)
    PROVE  MentionsInv'
<1>1. LedgersTrue /\ UNCHANGED <<mentionLedger, botLife, deliveries>> /\ boardOpen' \in BOOLEAN
    BY DEF MentionsInv, MentionsTypeOK, BotFlushes, BotReads, BotHears
<1>2. LedgersGrow
    BY <1>1, FlushGrows, HearsGrow DEF BotFlushes
<1> QED
    BY <1>1, <1>2, LedgersKeepInv

LEMMA MentionsStutter ==
    ASSUME MentionsInv, MarketCloses \/ UNCHANGED mentionVars
    PROVE  MentionsInv'
<1>1. UNCHANGED <<mentionLedger, ledgerVars, botLife, deliveries>> /\ boardOpen' \in BOOLEAN /\ LedgersTrue
    BY DEF MarketCloses, mentionVars, MentionsInv, MentionsTypeOK
<1> QED
    BY <1>1, LedgersStay, LedgersKeepInv

MentionsNext ==
    \/ \E s \in Bots, m \in Mentions, signed \in BOOLEAN : Deliver(s, m, signed)
    \/ \E i \in DOMAIN deliveries :
          QuoteBet(i) \/ Pay(i) \/ EscrowLands(i) \/ EscrowPlaced(i) \/ EscrowFails(i) \/ SendReply(i)
    \/ MarketCloses \/ \E s \in Bots : BotDies(s) \/ BotFlushes(s) \/ BotReads(s) \/ BotHears(s)

LEMMA MentionsKeepInv == MentionsInv /\ [MentionsNext]_mentionVars => MentionsInv'
BY DeliverKeepsInv, QuoteBetKeepsInv, PayKeepsInv, EscrowKeepsMentions, SendReplyKeepsInv, BotDiesKeepsInv, StoreKeepsInv,
   MentionsStutter
   DEF MentionsNext

\* A message stakes once on a server that lives, and never where the first bet was heard of.
LEMMA MentionsInvStakesOnce == MentionsInv => OneMessageOneBet
<1> SUFFICES ASSUME MentionsInv, NEW i \in DOMAIN deliveries, NEW j \in DOMAIN deliveries, deliveries[j].escrow # "none"
             PROVE  /\ i # j /\ deliveries[i].mention = deliveries[j].mention /\ deliveries[i].escrow # "none"
                           => ~Together(deliveries[i], deliveries[j])
                    /\ BetOf(deliveries[j].mention) \notin deliveries[j].knew
    BY DEF OneMessageOneBet
<1>1. i # j /\ deliveries[i].mention = deliveries[j].mention /\ deliveries[i].escrow # "none"
         => ~Together(deliveries[i], deliveries[j])
    BY DEF MentionsInv, MentionsTypeOK, OneHasClaim, SameMessage, HasClaim
<1>2. BetOf(deliveries[j].mention) \notin deliveries[j].knew
    BY DEF MentionsInv, ClaimIsHeld
<1> QED
    BY <1>1, <1>2

LEMMA MentionsInvRepliesTruly == MentionsInv => RepliesAreTrue
<1> SUFFICES ASSUME MentionsInv, NEW i \in DOMAIN deliveries
             PROVE  /\ deliveries[i].reply = "placed" => \E j \in DOMAIN deliveries :
                          /\ Together(deliveries[i], deliveries[j])
                          /\ deliveries[j].mention = deliveries[i].mention /\ deliveries[j].escrow = "executed"
                    /\ deliveries[i].reply = "refused" => \A j \in DOMAIN deliveries :
                          Together(deliveries[i], deliveries[j]) /\ deliveries[j].mention = deliveries[i].mention
                          => deliveries[j].reply # "placed"
    BY DEF RepliesAreTrue
<1>1. ASSUME deliveries[i].reply = "placed"
      PROVE  \E j \in DOMAIN deliveries : /\ Together(deliveries[i], deliveries[j])
                          /\ deliveries[j].mention = deliveries[i].mention /\ deliveries[j].escrow = "executed"
    BY <1>1 DEF MentionsInv, PlacedIsStaked, HasStaked, Together
<1>2. ASSUME deliveries[i].reply = "refused", NEW j \in DOMAIN deliveries,
             Together(deliveries[i], deliveries[j]), deliveries[j].mention = deliveries[i].mention
      PROVE  deliveries[j].reply # "placed"
    BY <1>2 DEF MentionsInv, OneAnswer, SameMessage
<1> QED
    BY <1>1, <1>2

LEMMA MentionsInvStores == MentionsInv => AnsweredBetsAreStored
<1> SUFFICES ASSUME MentionsInv, NEW i \in DOMAIN deliveries, deliveries[i].indexed, deliveries[i].step = "answered"
             PROVE  BetOf(deliveries[i].mention) \in storedBets \cup overwritten \/ deliveries[i].unsaved
    BY DEF AnsweredBetsAreStored
<1>1. deliveries[i] \in Deliveries /\ AnswerStands(deliveries[i])
    BY DEF MentionsInv, MentionsTypeOK
<1>2. deliveries[i].indexed \in BOOLEAN /\ deliveries[i].unsaved \in BOOLEAN
    BY <1>1 DEF Deliveries
<1>3. deliveries[i].indexed = TRUE
    BY <1>2
<1> QED
    BY <1>1, <1>3 DEF AnswerStands, Lasting

-----------------------------------------------------------------------------
(***************************************************************************)
(* The chain adapter                                                       *)
(***************************************************************************)

Calls == {"bet", "resolve", "create_market", "transfer", "register", "commit", "dispatch"}
Homes == [contract : Listings \cup {"field", "v2", "thin_slice", "treasury", "registry", "hook"}, id : Listings \cup {"none"}]
Signers == Prophets \cup Visitors \cup {Server, Judge}
Transactions ==
    [call : Calls, slug : Listings \cup {"none"}, at : Homes, by : Signers, signer : Signers, wired : Wirings,
     step : {"unsigned", "submitted", "executed", "reverted"}, told : {"nothing", "pending", "confirmed", "reverted"}]

\* A market's calls go where its market was when they were built; a creation goes to the vault.
GoesHome(t) ==
    /\ t.at # nowhere
    /\ t.call \in {"bet", "resolve"} => t.at = resolveMarketTarget(t.slug, t.wired)
    /\ t.call = "create_market" => t.at = [contract |-> "v2", id |-> t.slug]
    /\ t.call = "commit" => t.at.contract = "v2"

\* Who signs.
SignedFor(t) ==
    /\ t.by \in Prophets /\ t.call = "bet" => (t.signer = t.by <=> t.wired.seed \/ t.by \in t.wired.keyed)
    /\ t.call \in {"register", "transfer"} => t.signer = t.by
    /\ t.signer \in Visitors \cup Prophets => t.signer = t.by
    /\ t.signer = Judge => t.call \in {"resolve", "commit", "dispatch"}

\* What is told of a transaction is how it ended.
ToldTruly(t) ==
    /\ t.told = "confirmed" => t.step = "executed"
    /\ t.told = "reverted" => t.step = "reverted"

\* What follows a settlement was built after it.
FollowsSettlement(i) ==
    sent[i].call \in {"commit", "dispatch"} =>
        \E j \in 1 .. i - 1 : sent[j].call = "resolve" /\ sent[j].slug = sent[i].slug /\ sent[j].step = "executed"

AdapterInv ==
    /\ wiring \in Wirings
    /\ sent \in Seq(Transactions)
    /\ \A i \in DOMAIN sent : GoesHome(sent[i]) /\ SignedFor(sent[i]) /\ ToldTruly(sent[i]) /\ FollowsSettlement(i)

LEMMA AdapterStarts == AdapterInit => AdapterInv
    BY DEF AdapterInit, AdapterInv

\* The invariant of the next state, unfolded.
LEMMA AdapterInvNext ==
    ASSUME wiring' \in Wirings, sent' \in Seq(Transactions),
           \A i \in DOMAIN sent' : GoesHome(sent'[i]) /\ SignedFor(sent'[i]) /\ ToldTruly(sent'[i]) /\ FollowsSettlement(i)'
    PROVE  AdapterInv'
    BY Zenon DEF AdapterInv, GoesHome, SignedFor, ToldTruly, resolveMarketTarget

\* What building a transaction owes.
LEMMA BuildsKeepInv ==
    ASSUME AdapterInv, NEW call, NEW s, NEW at, NEW by, NEW signer, NEW st, Builds(call, s, at, by, signer, st),
           NEW t \in Transactions, t = planned(call, s, at, by, signer, st),
           GoesHome(t), SignedFor(t), call \in {"commit", "dispatch"} => Landed("resolve", s)
    PROVE  AdapterInv'
<1>1. sent' = Append(sent, t) /\ wiring' = wiring /\ Len(sent) \in Nat
    BY DEF Builds, AdapterInv
<1> PICK n \in Nat : n = Len(sent) + 1
    BY <1>1
<1>0. t.call = call /\ t.slug = s /\ ToldTruly(t)
    BY DEF planned, ToldTruly
<1>2. /\ sent' \in Seq(Transactions) /\ DOMAIN sent' = 1 .. n /\ n \in Nat
      /\ DOMAIN sent = 1 .. n - 1
      /\ sent'[n] = t /\ \A i \in 1 .. n - 1 : sent'[i] = sent[i]
    BY <1>1 DEF AdapterInv
<1>3. ASSUME NEW i \in 1 .. n - 1 PROVE FollowsSettlement(i)'
    <2>1. \A j \in 1 .. i - 1 : sent'[j] = sent[j]
        BY <1>2
    <2>2. sent'[i] = sent[i] /\ FollowsSettlement(i)
        BY <1>2 DEF AdapterInv
    <2>3. SUFFICES ASSUME sent[i].call \in {"commit", "dispatch"}
                   PROVE  \E j \in 1 .. i - 1 : sent'[j].call = "resolve" /\ sent'[j].slug = sent[i].slug /\ sent'[j].step = "executed"
        BY <2>2 DEF FollowsSettlement
    <2> QED
        BY <2>1, <2>2, <2>3 DEF FollowsSettlement
<1>4. FollowsSettlement(n)'
    <2>1. SUFFICES ASSUME call \in {"commit", "dispatch"}
                   PROVE  \E j \in 1 .. n - 1 : sent'[j].call = "resolve" /\ sent'[j].slug = s /\ sent'[j].step = "executed"
        BY <1>0, <1>2 DEF FollowsSettlement
    <2>2. PICK j \in DOMAIN sent : sent[j].call = "resolve" /\ sent[j].slug = s /\ sent[j].told = "confirmed"
        BY <2>1 DEF Landed
    <2>3. sent[j].step = "executed"
        BY <2>2 DEF AdapterInv, ToldTruly
    <2> QED
        BY <1>2, <2>2, <2>3
<1>5. ASSUME NEW i \in 1 .. n - 1
      PROVE  GoesHome(sent'[i]) /\ SignedFor(sent'[i]) /\ ToldTruly(sent'[i])
    BY <1>2 DEF AdapterInv
<1>6. GoesHome(sent'[n]) /\ SignedFor(sent'[n]) /\ ToldTruly(sent'[n])
    BY <1>0, <1>2
<1>7. \A i \in 1 .. n : i \in 1 .. n - 1 \/ i = n
    BY <1>2
<1>8. ASSUME NEW i \in DOMAIN sent' PROVE GoesHome(sent'[i]) /\ SignedFor(sent'[i]) /\ ToldTruly(sent'[i]) /\ FollowsSettlement(i)'
    <2>1. CASE i = n
        BY <2>1, <1>4, <1>6 DEF FollowsSettlement
    <2>2. CASE i \in 1 .. n - 1
        BY <2>2, <1>3, <1>5
    <2> QED
        BY <1>2, <1>7, <2>1, <2>2
<1> QED
    BY <1>1, <1>2, <1>8, AdapterInvNext DEF AdapterInv
\* A bet or a settlement goes to its market, signed by its own.
LEMMA MarketCallsKeepInv ==
    ASSUME AdapterInv, NEW s \in Listings,
           \/ \E who \in Prophets \cup Visitors : PlaceOrSubmitBet(who, s)
           \/ \E who \in Visitors : buildBetTransaction(who, s)
           \/ resolveOnChain(s)
    PROVE  AdapterInv'
<1> DEFINE at == resolveMarketTarget(s, wiring)
<1>1. ASSUME NEW call \in {"bet", "resolve"}, NEW by \in Signers, NEW signer \in Signers, NEW st \in {"submitted", "unsigned"},
             Builds(call, s, at, by, signer, st), SignedFor(planned(call, s, at, by, signer, st))
      PROVE  AdapterInv'
    <2> DEFINE t == planned(call, s, at, by, signer, st)
    <2>1. at # nowhere /\ wiring \in Wirings
        BY <1>1 DEF Builds, AdapterInv
    <2>2. t.at = at /\ t.slug = s /\ t.wired = wiring /\ t.call = call
        BY DEF planned
    <2>3. at \in Homes
        BY <2>1 DEF resolveMarketTarget, Homes, nowhere
    <2>4. t \in Transactions
        BY <2>1, <2>3 DEF planned, Transactions, Calls
    <2>5. GoesHome(t)
        BY <2>1, <2>2 DEF GoesHome
    <2> HIDE DEF at
    <2> QED
        BY <1>1, <2>4, <2>5, BuildsKeepInv
<1>2. ASSUME NEW who \in Prophets \cup Visitors, PlaceOrSubmitBet(who, s) PROVE AdapterInv'
    <2>1. SignedFor(planned("bet", s, at, who, signerKeyFor(who), "submitted"))
        BY NamesAreApart DEF SignedFor, planned, signerKeyFor, canSelfSign, Server, Judge
    <2>2. who \in Signers /\ signerKeyFor(who) \in Signers
        BY DEF Signers, signerKeyFor
    <2> QED
        BY <1>1, <1>2, <2>1, <2>2 DEF PlaceOrSubmitBet
<1>3. ASSUME NEW who \in Visitors, buildBetTransaction(who, s) PROVE AdapterInv'
    <2>1. SignedFor(planned("bet", s, at, who, who, "unsigned"))
        BY NamesAreApart DEF SignedFor, planned, Judge
    <2> QED
        BY <1>1, <1>3, <2>1 DEF buildBetTransaction, Signers
<1>4. ASSUME resolveOnChain(s) PROVE AdapterInv'
    <2>1. SignedFor(planned("resolve", s, at, Judge, resolverKey, "submitted"))
        BY NamesAreApart DEF SignedFor, planned, resolverKey, Server, Judge
    <2>2. Judge \in Signers /\ resolverKey \in Signers
        BY DEF Signers, resolverKey
    <2> QED
        BY <1>1, <1>4, <2>1, <2>2 DEF resolveOnChain
<1> QED
    BY <1>2, <1>3, <1>4

\* Everything else that is built.
LEMMA OtherCallsKeepInv ==
    ASSUME AdapterInv, NEW s \in Listings,
           \/ createMarketOnChain(s) \/ anchorResolution(s) \/ dispatchResolution(s)
           \/ \E who \in Visitors : buildCreateMarketTransaction(who, s) \/ buildTransferTransaction(who) \/ buildAgentRegistration(who)
    PROVE  AdapterInv'
<1>1. ASSUME NEW call \in Calls \ {"bet", "resolve"}, NEW x \in Listings \cup {"none"}, NEW at \in Homes,
             NEW by \in Signers, NEW signer \in Signers, NEW st \in {"submitted", "unsigned"},
             Builds(call, x, at, by, signer, st),
             call = "create_market" => at = [contract |-> "v2", id |-> x], call = "commit" => at.contract = "v2",
             call \in {"register", "transfer"} => signer = by, signer \in Visitors \cup Prophets => signer = by,
             signer = Judge => call \in {"commit", "dispatch"},
             call \in {"commit", "dispatch"} => Landed("resolve", x)
      PROVE  AdapterInv'
    <2> DEFINE t == planned(call, x, at, by, signer, st)
    <2>1. at # nowhere /\ wiring \in Wirings
        BY <1>1 DEF Builds, AdapterInv
    <2>2. t.at = at /\ t.slug = x /\ t.wired = wiring /\ t.call = call /\ t.by = by /\ t.signer = signer
        BY DEF planned
    <2>3. t \in Transactions
        BY <2>1 DEF planned, Transactions, Calls
    <2>4. GoesHome(t) /\ SignedFor(t)
        BY <1>1, <2>1, <2>2 DEF GoesHome, SignedFor
    <2> QED
        BY <1>1, <2>3, <2>4, BuildsKeepInv
<1>2. /\ Vault(s) # nowhere => Vault(s) = [contract |-> "v2", id |-> s] /\ Vault(s) \in Homes
      /\ "create_market" \in Calls /\ s \in Listings \cup {"none"} /\ "none" \in Listings \cup {"none"}
      /\ \A c \in {"treasury", "registry"} : [contract |-> c, id |-> "none"] \in Homes
      /\ [contract |-> "hook", id |-> s] \in Homes
    BY DEF Vault, Homes, Calls
<1>3. /\ Server \in Signers /\ Judge \in Signers /\ resolverKey \in {Server, Judge} /\ Server # Judge
      /\ \A who \in Visitors : who \in Signers /\ who # Judge
      /\ Server \notin Visitors \cup Prophets /\ Judge \notin Visitors \cup Prophets
    BY NamesAreApart DEF Signers, Server, Judge, resolverKey
<1>4. CASE createMarketOnChain(s)
    <2>1. Builds("create_market", s, Vault(s), Server, Server, "submitted") /\ Vault(s) # nowhere
        BY <1>4 DEF createMarketOnChain, Builds
    <2> QED
        BY <1>1, <1>2, <1>3, <2>1
<1>5. CASE anchorResolution(s)
    <2>1. Builds("commit", s, AnchorTarget(s), Judge, resolverKey, "submitted") /\ Landed("resolve", s)
        BY <1>5 DEF anchorResolution
    <2>2. AnchorTarget(s) # nowhere
        BY <2>1 DEF Builds
    <2>3. AnchorTarget(s) = [contract |-> "v2", id |-> s]
        BY <2>2 DEF AnchorTarget, resolveMarketTarget, nowhere
    <2>4. AnchorTarget(s) \in Homes /\ AnchorTarget(s).contract = "v2"
        BY <2>3 DEF Homes
    <2> QED
        BY <1>1, <1>2, <1>3, <2>1, <2>4 DEF Calls
<1>6. CASE dispatchResolution(s)
    <2>1. Landed("resolve", s) /\ Builds("dispatch", s, [contract |-> "hook", id |-> s], Judge, resolverKey, "submitted")
        BY <1>6 DEF dispatchResolution, Builds
    <2> QED
        BY <1>1, <1>2, <1>3, <2>1 DEF Calls
<1>7. ASSUME NEW who \in Visitors, buildCreateMarketTransaction(who, s) PROVE AdapterInv'
    <2>1. Builds("create_market", s, Vault(s), who, who, "unsigned") /\ Vault(s) # nowhere
        BY <1>7 DEF buildCreateMarketTransaction, Builds
    <2> QED
        BY <1>1, <1>2, <1>3, <2>1
<1>8. ASSUME NEW who \in Visitors, buildTransferTransaction(who) PROVE AdapterInv'
    BY <1>1, <1>2, <1>3, <1>8 DEF buildTransferTransaction, Calls
<1>9. ASSUME NEW who \in Visitors, buildAgentRegistration(who) PROVE AdapterInv'
    <2>1. Builds("register", "none", [contract |-> "registry", id |-> "none"], who, who, "unsigned")
        BY <1>9 DEF buildAgentRegistration, Builds
    <2> QED
        BY <1>1, <1>2, <1>3, <2>1 DEF Calls
<1> QED
    BY <1>4, <1>5, <1>6, <1>7, <1>8, <1>9

\* The plans stay, what executed stays executed, and what is told is how it ended.
KeepsPlan(i) ==
    /\ sent'[i].call = sent[i].call /\ sent'[i].slug = sent[i].slug /\ sent'[i].at = sent[i].at
    /\ sent'[i].by = sent[i].by /\ sent'[i].signer = sent[i].signer /\ sent'[i].wired = sent[i].wired
    /\ sent[i].step = "executed" => sent'[i].step = "executed"
    /\ ToldTruly(sent'[i])
StandingMoves ==
    /\ sent' \in Seq(Transactions) /\ DOMAIN sent' = DOMAIN sent
    /\ \A i \in DOMAIN sent : KeepsPlan(i)

LEMMA OneMoves ==
    ASSUME sent \in Seq(Transactions), \A j \in DOMAIN sent : ToldTruly(sent[j]), NEW i \in DOMAIN sent, NEW t,
           sent' = [sent EXCEPT ![i] = t], DOMAIN sent' = DOMAIN sent,
           \A j \in DOMAIN sent : j # i => sent'[j] = sent[j], sent'[i] \in Transactions, KeepsPlan(i)
    PROVE  StandingMoves
<1>1. \A j \in DOMAIN sent : sent'[j] \in Transactions
    OBVIOUS
<1>2. sent' \in Seq(Transactions)
    BY <1>1
<1>3. \A j \in DOMAIN sent : j # i => KeepsPlan(j)
    BY DEF KeepsPlan
<1> QED
    BY <1>2, <1>3 DEF StandingMoves

LEMMA StandingKeepsInv == AdapterInv /\ StandingMoves /\ wiring' \in Wirings => AdapterInv'
<1> SUFFICES ASSUME AdapterInv, StandingMoves, wiring' \in Wirings PROVE AdapterInv'
    OBVIOUS
<1>1. ASSUME NEW i \in DOMAIN sent'
      PROVE  GoesHome(sent'[i]) /\ SignedFor(sent'[i]) /\ ToldTruly(sent'[i]) /\ FollowsSettlement(i)'
    <2>1. i \in DOMAIN sent /\ GoesHome(sent[i]) /\ SignedFor(sent[i]) /\ FollowsSettlement(i)
        BY DEF StandingMoves, AdapterInv
    <2>2. GoesHome(sent'[i]) /\ SignedFor(sent'[i]) /\ ToldTruly(sent'[i])
        BY <2>1 DEF StandingMoves, KeepsPlan, GoesHome, SignedFor
    <2>3. 1 .. i - 1 \subseteq DOMAIN sent
        BY <2>1 DEF AdapterInv
    <2>4. FollowsSettlement(i)'
        BY <2>1, <2>3 DEF StandingMoves, KeepsPlan, FollowsSettlement
    <2> QED
        BY <2>2, <2>4
<1> QED
    BY <1>1, AdapterInvNext DEF StandingMoves

LEMMA StandingsKeepInv ==
    ASSUME AdapterInv,
           \/ \E i \in DOMAIN sent : WalletSubmitsTx(i) \/ BlockIncludes(i) \/ LookUp(i) \/ WindowCloses(i)
           \/ \E w \in Wirings : Rewire(w)
           \/ UNCHANGED adapterVars
    PROVE  AdapterInv'
<1>0. wiring \in Wirings /\ sent \in Seq(Transactions) /\ \A i \in DOMAIN sent : ToldTruly(sent[i])
    BY DEF AdapterInv
<1>1. ASSUME NEW i \in DOMAIN sent, NEW st \in {"unsigned", "submitted", "executed", "reverted"},
             sent' = [sent EXCEPT ![i].step = st], sent[i].step \notin {"executed", "reverted"}
      PROVE  StandingMoves
    <2>1. sent[i] \in Transactions /\ ToldTruly(sent[i]) /\ DOMAIN sent' = DOMAIN sent
        BY <1>0, <1>1
    <2>2. sent'[i] = [sent[i] EXCEPT !.step = st] /\ \A j \in DOMAIN sent : j # i => sent'[j] = sent[j]
        BY <1>0, <1>1
    <2>3. sent'[i] \in Transactions /\ KeepsPlan(i)
        BY <1>1, <2>1, <2>2 DEF Transactions, KeepsPlan, ToldTruly
    <2> QED
        BY <1>0, <1>1, <2>1, <2>2, <2>3, OneMoves
<1>2. ASSUME NEW i \in DOMAIN sent, NEW told \in {"nothing", "pending", "confirmed", "reverted"},
             sent' = [sent EXCEPT ![i].told = told],
             told = "confirmed" => sent[i].step = "executed", told = "reverted" => sent[i].step = "reverted"
      PROVE  StandingMoves
    <2>1. sent[i] \in Transactions /\ DOMAIN sent' = DOMAIN sent
        BY <1>0, <1>2
    <2>2. sent'[i] = [sent[i] EXCEPT !.told = told] /\ \A j \in DOMAIN sent : j # i => sent'[j] = sent[j]
        BY <1>0, <1>2
    <2>3. sent'[i] \in Transactions /\ KeepsPlan(i)
        BY <1>2, <2>1, <2>2 DEF Transactions, KeepsPlan, ToldTruly
    <2> QED
        BY <1>0, <1>2, <2>1, <2>2, <2>3, OneMoves
<1>3. ASSUME NEW i \in DOMAIN sent, WalletSubmitsTx(i) \/ BlockIncludes(i) \/ LookUp(i) \/ WindowCloses(i)
      PROVE  AdapterInv'
    <2>1. WalletSubmitsTx(i) => StandingMoves
        BY <1>1 DEF WalletSubmitsTx
    <2>2. BlockIncludes(i) => StandingMoves
        BY <1>1 DEF BlockIncludes
    <2>3. LookUp(i) => StandingMoves
        BY <1>2 DEF LookUp, readExecutionOutcome
    <2>4. WindowCloses(i) => StandingMoves
        BY <1>2 DEF WindowCloses
    <2>5. wiring' = wiring
        BY <1>3 DEF WalletSubmitsTx, BlockIncludes, LookUp, WindowCloses
    <2> QED
        BY <1>0, <1>3, <2>1, <2>2, <2>3, <2>4, <2>5, StandingKeepsInv
<1>4. ASSUME NEW w \in Wirings, Rewire(w) PROVE AdapterInv'
    BY <1>0, <1>4, StandingKeepsInv DEF Rewire, StandingMoves, KeepsPlan
<1>5. CASE UNCHANGED adapterVars
    BY <1>0, <1>5, StandingKeepsInv DEF adapterVars, StandingMoves, KeepsPlan
<1> QED
    BY <1>3, <1>4, <1>5

\* Two environments that agree on a market's own package and on the vault send it to one place.
LEMMA TargetsAgree ==
    ASSUME NEW s, NEW u, NEW w, u.vaultV2 \in BOOLEAN, w.vaultV2 \in BOOLEAN,
           NEW x, x = resolveMarketTarget(s, u), x # nowhere,
           NEW y, y = resolveMarketTarget(s, w), y # nowhere
    PROVE  /\ s \in FieldSlugs => x.contract = "field"
           /\ (s \in u.addrs <=> s \in w.addrs) /\ (u.vaultV2 <=> w.vaultV2) => x = y
           /\ s \in u.addrs \cap w.addrs => x = y
           /\ x # y => \/ s \in (u.addrs \ w.addrs) \cup (w.addrs \ u.addrs)
                       \/ "thin_slice" \in {x.contract, y.contract} /\ u.vaultV2 # w.vaultV2
<1>1. CASE s \in FieldSlugs
    BY <1>1 DEF resolveMarketTarget
<1>2. CASE s \notin FieldSlugs
    <2>1. /\ s \in u.addrs => x = [contract |-> s, id |-> "none"]
          /\ s \notin u.addrs /\ u.vaultV2 => x = [contract |-> "v2", id |-> s]
          /\ s \notin u.addrs /\ ~u.vaultV2 => x = [contract |-> "thin_slice", id |-> "none"]
        BY <1>2 DEF resolveMarketTarget
    <2>2. /\ s \in w.addrs => y = [contract |-> s, id |-> "none"]
          /\ s \notin w.addrs /\ w.vaultV2 => y = [contract |-> "v2", id |-> s]
          /\ s \notin w.addrs /\ ~w.vaultV2 => y = [contract |-> "thin_slice", id |-> "none"]
        BY <1>2 DEF resolveMarketTarget
    <2>3. CASE s \in u.addrs \cup w.addrs
        BY <1>2, <2>1, <2>2, <2>3
    <2>4. CASE s \notin u.addrs \cup w.addrs
        <3>1. (u.vaultV2 = TRUE \/ u.vaultV2 = FALSE) /\ (w.vaultV2 = TRUE \/ w.vaultV2 = FALSE)
            OBVIOUS
        <3>2. ~u.vaultV2 => x.contract = "thin_slice"
            BY <2>1, <2>4
        <3>3. ~w.vaultV2 => y.contract = "thin_slice"
            BY <2>2, <2>4
        <3>4. (u.vaultV2 <=> w.vaultV2) => x = y
            BY <2>1, <2>2, <2>4
        <3> QED
            BY <1>2, <2>4, <3>1, <3>2, <3>3, <3>4, Zenon
    <2> QED
        BY <2>3, <2>4
<1> QED
    BY <1>1, <1>2

AdapterNext ==
    \/ \E s \in Listings :
          \/ \E who \in Prophets \cup Visitors : PlaceOrSubmitBet(who, s)
          \/ \E who \in Visitors : buildBetTransaction(who, s) \/ buildCreateMarketTransaction(who, s)
          \/ \E who \in Visitors : buildTransferTransaction(who) \/ buildAgentRegistration(who)
          \/ createMarketOnChain(s) \/ resolveOnChain(s) \/ anchorResolution(s) \/ dispatchResolution(s)
    \/ \E i \in DOMAIN sent : WalletSubmitsTx(i) \/ BlockIncludes(i) \/ LookUp(i) \/ WindowCloses(i)
    \/ \E w \in Wirings : Rewire(w)

LEMMA AdapterKeepsInv == AdapterInv /\ [AdapterNext]_adapterVars => AdapterInv'
<1> SUFFICES ASSUME AdapterInv, [AdapterNext]_adapterVars PROVE AdapterInv'
    OBVIOUS
<1>1. ASSUME NEW s \in Listings,
             \/ \E who \in Prophets \cup Visitors : PlaceOrSubmitBet(who, s)
             \/ \E who \in Visitors : buildBetTransaction(who, s)
             \/ resolveOnChain(s)
      PROVE  AdapterInv'
    BY <1>1, MarketCallsKeepInv
<1>2. ASSUME NEW s \in Listings,
             \/ createMarketOnChain(s) \/ anchorResolution(s) \/ dispatchResolution(s)
             \/ \E who \in Visitors : buildCreateMarketTransaction(who, s) \/ buildTransferTransaction(who) \/ buildAgentRegistration(who)
      PROVE  AdapterInv'
    BY <1>2, OtherCallsKeepInv
<1>3. ASSUME \/ \E i \in DOMAIN sent : WalletSubmitsTx(i) \/ BlockIncludes(i) \/ LookUp(i) \/ WindowCloses(i)
             \/ \E w \in Wirings : Rewire(w)
             \/ UNCHANGED adapterVars
      PROVE  AdapterInv'
    BY <1>3, StandingsKeepInv
<1> QED
    BY <1>1, <1>2, <1>3, ZenonT(40) DEF AdapterNext

\* The bets and the settlement of a market are where the addresses of their days put it.
LEMMA AdapterInvKeepsHomes == AdapterInv => MarketsHaveOneHome
<1> SUFFICES ASSUME AdapterInv PROVE MarketsHaveOneHome
    OBVIOUS
<1>1. ASSUME NEW s \in Listings, NEW k \in Concerning(s)
      PROVE  /\ sent[k].at = resolveMarketTarget(s, sent[k].wired) /\ sent[k].at # nowhere
             /\ sent[k].wired.vaultV2 \in BOOLEAN
    <2>1. k \in DOMAIN sent /\ sent[k].call \in {"bet", "resolve"} /\ sent[k].slug = s
        BY DEF Concerning
    <2>2. sent[k] \in Transactions /\ GoesHome(sent[k])
        BY <2>1 DEF AdapterInv
    <2>3. sent[k].wired \in Wirings
        BY <2>2 DEF Transactions
    <2> QED
        BY <2>1, <2>2, <2>3, WiringsAreSets DEF GoesHome
<1> QED
    BY <1>1, TargetsAgree DEF MarketsHaveOneHome

LEMMA AdapterInvTakesBets == AdapterInv => CreatedMarketsTakeBets
    BY DEF AdapterInv, GoesHome, CreatedMarketsTakeBets, resolveMarketTarget

LEMMA AdapterInvSigns == AdapterInv => SignersAreThemselves
    BY DEF AdapterInv, SignedFor, SignersAreThemselves

LEMMA AdapterInvTells == AdapterInv => NobodyIsOvertold
    BY DEF AdapterInv, ToldTruly, GoesHome, FollowsSettlement, NobodyIsOvertold
=============================================================================
