------------------------------- MODULE FlowProofs -------------------------------
(***************************************************************************)
(* Proofs about what the service does with other people's money off chain: *)
(* bets on their way to the chain and the boards, for any number of        *)
(* requests, payments, instances and pollers of a ticket; markets paid for *)
(* and opened, for any number of attempts, bonds and instances; the        *)
(* fleet's losses, for any roster, list of markets and funding; the        *)
(* operator's deployment commands, for any plan, prices and purse; and the *)
(* pages a visitor meets: the session, the bet panel, the create page, the *)
(* connector of wallets and the doors that hand out transactions, for any  *)
(* visitors, visits, devices, requests and days.                           *)
(***************************************************************************)
EXTENDS BetPlacement, MarketCreation, FleetBets, CatalogueDriver, VisitorPages, WalletConnector,
        TransactionDoors, FiniteSetTheorems, NaturalsInduction, TLAPS

BetKeys == UNION {dedupeKey(r) : r \in Requests}
Entries == [keys : SUBSET BetKeys, stakes : [Requests -> Nat], settled : BOOLEAN]

BetTypeOK ==
    /\ pc \in [Requests -> {"new", "placing", "recorded", "missed", "ticketed", "indexed", "unindexed",
                            "failed", "expired"}]
    /\ tx \in [Requests -> {"none", "submitted", "executed", "reverted"}]
    /\ DOMAIN consumed = Instances
    /\ ledger \in [Instances -> Entries] /\ storedLedger \in Entries
    /\ dirty \subseteq Instances
    /\ hydrating \in [Instances -> SUBSET Entries]
    /\ poll \in [Requests -> [Pollers -> {"idle", "confirmed", "recorded", "missed"}]]
    /\ letIn \in [Requests -> SUBSET Instances]
    /\ DOMAIN lastRead = Instances

\* A ledger entry, wherever it is, shows executed escrows with their keys, and one at most of
\* those that are one bet.
TrueEntry(e) ==
    \A q \in Requests :
        /\ e.stakes[q] <= 1
        /\ e.stakes[q] > 0 => tx[q] = "executed" /\ pc[q] \notin {"new", "placing"} /\ dedupeKey(q) \subseteq e.keys
        /\ \A s \in SameBet(q) \ {q} : e.stakes[q] = 0 \/ e.stakes[s] = 0

\* The store has the entry's keys, and its stakes but for those a merge left out.
InStore(e) == e.keys \subseteq storedLedger.keys /\ BetsIn(e) \subseteq BetsIn(storedLedger) \cup overruled

LedgersAreTrue ==
    /\ TrueEntry(storedLedger)
    /\ \A i \in Instances :
          /\ TrueEntry(ledger[i])
          /\ i \notin dirty => InStore(ledger[i])
          /\ \A e \in hydrating[i] : TrueEntry(e) /\ InStore(e)
          /\ lastRead[i] \subseteq ledger[i].keys \cap storedLedger.keys

\* The bet is on the boards, or was taken off them in a way the history names; the bet is
\* there, or in the memory of instance i.
Shown(r) == SameBet(r) \cap (BetsIn(storedLedger) \cup overruled \cup replaced) # {}
BetHeld(r, i) == Shown(r) \/ SameBet(r) \cap BetsIn(ledger[i]) # {}

\* A burnt key stands for a bet that is there.
KeysAreBets ==
    \A r \in Requests : dedupeKey(r) # {} =>
        /\ dedupeKey(r) \subseteq storedLedger.keys => Shown(r)
        /\ \A i \in Instances : dedupeKey(r) \subseteq ledger[i].keys => BetHeld(r, i)

\* ... and so is its key.
KeyShown(r) == dedupeKey(r) \subseteq storedLedger.keys \/ SameBet(r) \cap replaced # {}
KeyHeld(r, i) == KeyShown(r) \/ dedupeKey(r) \subseteq ledger[i].keys

\* Where a request stands says what became of its transaction, and of its stake.
StandingIsTrue ==
    \A r \in Requests :
        /\ pc[r] = "new" => tx[r] = "none"
        /\ pc[r] # "new" => \E i \in Instances : letIn[r] = {i}
        /\ pc[r] \in {"recorded", "missed", "indexed", "unindexed"} => tx[r] = "executed"
        /\ pc[r] \in {"ticketed", "expired"} => Path[r] = "ticket"
        /\ pc[r] = "failed" => r \in unheard \/ tx[r] = "reverted"
        /\ pc[r] = "recorded" => \A i \in letIn[r] : BetHeld(r, i) /\ KeyHeld(r, i)
        /\ pc[r] = "indexed" /\ r \notin unsaved => Shown(r) /\ KeyShown(r)
        /\ \A k \in Pollers :
              /\ poll[r][k] # "idle" => Path[r] = "ticket" /\ tx[r] = "executed" /\ pc[r] \notin {"new", "placing"}
              /\ poll[r][k] = "recorded" => BetHeld(r, AskedOf[k]) /\ KeyHeld(r, AskedOf[k])

\* Of two live transactions one instance let in for one payment, one was let in while the
\* other was in flight, went unheard, or was forgotten.
PaymentsAreGuarded ==
    \A r \in Requests :
        /\ Path[r] = "x402" /\ pc[r] \in {"recorded", "missed", "indexed", "unindexed"} /\ r \notin forgotten
              => \A i \in letIn[r] : PaymentOf[r] \in consumed[i]
        /\ \A s \in SameBet(r) \ {r} :
              letIn[r] = letIn[s] /\ {tx[r], tx[s]} \cap {"none", "reverted"} = {}
                  => {r, s} \cap (raced \cup unheard \cup forgotten) # {}

BetInv == BetTypeOK /\ LedgersAreTrue /\ KeysAreBets /\ StandingIsTrue /\ PaymentsAreGuarded

-----------------------------------------------------------------------------
\* Requests with one key are one bet, and a bet but an operator's has a key.
LEMMA SameBetSameKey ==
    /\ \A r \in Requests : r \in SameBet(r) /\ SameBet(r) \subseteq Requests
    /\ \A r \in Requests : \A s \in SameBet(r) : SameBet(s) = SameBet(r) /\ dedupeKey(s) = dedupeKey(r)
                                                 /\ Path[s] = Path[r]
    /\ \A r \in Requests : Path[r] = "operator" <=> dedupeKey(r) = {}
    /\ \A r \in Requests : Path[r] # "x402" => SameBet(r) = {r}
    /\ \A r \in Requests : dedupeKey(r) \subseteq BetKeys
<1>1. \A r \in Requests : Path[r] \in {"x402", "fleet", "operator", "ticket"}
    BY PathAssumption
<1>2. \A r \in Requests : r \in SameBet(r) /\ SameBet(r) \subseteq Requests
    BY DEF SameBet
<1>3. \A r \in Requests : Path[r] # "x402" => SameBet(r) = {r}
    BY DEF SameBet
<1>4. ASSUME NEW r \in Requests, NEW s \in SameBet(r)
      PROVE  SameBet(s) = SameBet(r) /\ dedupeKey(s) = dedupeKey(r) /\ Path[s] = Path[r]
    <2>1. CASE Path[r] = "x402"
        <3>1. s \in Requests /\ Path[s] = "x402" /\ PaymentOf[s] = PaymentOf[r]
            BY <2>1 DEF SameBet
        <3> QED
            BY <2>1, <3>1 DEF SameBet, dedupeKey
    <2>2. CASE Path[r] # "x402"
        BY <1>3, <2>2
    <2> QED
        BY <2>1, <2>2
<1>5. \A r \in Requests : Path[r] = "operator" <=> dedupeKey(r) = {}
    BY <1>1 DEF dedupeKey
<1>6. \A r \in Requests : dedupeKey(r) \subseteq BetKeys
    BY DEF BetKeys
<1> QED
    BY <1>2, <1>3, <1>4, <1>5, <1>6

\* A key that was not burnt, and is once r's is, is r's own.
LEMMA OneKeyOneBet ==
    ASSUME NEW r \in Requests, NEW s \in Requests, NEW keys,
           ~(dedupeKey(s) \subseteq keys), dedupeKey(s) \subseteq keys \cup dedupeKey(r)
    PROVE  s \in SameBet(r)
<1>1. Path[r] \in {"x402", "fleet", "operator", "ticket"} /\ Path[s] \in {"x402", "fleet", "operator", "ticket"}
    BY PathAssumption
<1>2. CASE Path[r] = "x402"
    BY <1>1, <1>2 DEF dedupeKey, SameBet
<1>3. CASE Path[r] \in {"fleet", "ticket"}
    <2>1. dedupeKey(r) = {<<Path[r], r>>}
        BY <1>3 DEF dedupeKey
    <2>2. <<Path[r], r>> \in dedupeKey(s)
        BY <2>1
    <2>3. s = r
        BY <1>1, <1>3, <2>2 DEF dedupeKey
    <2> QED
        BY <2>3, SameBetSameKey
<1>4. CASE Path[r] = "operator"
    BY <1>4 DEF dedupeKey
<1> QED
    BY <1>1, <1>2, <1>3, <1>4

\* A bet has one key: burnt in one of two places when it is burnt in both together.
LEMMA KeyIsWhole ==
    ASSUME NEW r \in Requests, NEW A, NEW B, dedupeKey(r) \subseteq A \cup B
    PROVE  dedupeKey(r) \subseteq A \/ dedupeKey(r) \subseteq B
BY PathAssumption DEF dedupeKey

LEMMA BetsStartClean == BetInit => BetInv
<1> SUFFICES ASSUME BetInit PROVE BetInv
    OBVIOUS
<1> USE DEF BetInit
<1>1. Nothing \in Entries /\ Nothing.keys = {} /\ \A r \in Requests : Nothing.stakes[r] = 0
    BY DEF Nothing, Entries
<1>2. BetTypeOK
    BY <1>1 DEF BetTypeOK
<1>3. TrueEntry(Nothing) /\ InStore(Nothing) /\ BetsIn(Nothing) = {}
    BY <1>1, SameBetSameKey DEF TrueEntry, InStore, BetsIn
<1>4. LedgersAreTrue
    BY <1>1, <1>3 DEF LedgersAreTrue
<1>5. KeysAreBets
    BY <1>1 DEF KeysAreBets
<1>6. StandingIsTrue
    BY DEF StandingIsTrue
<1>7. PaymentsAreGuarded
    BY SameBetSameKey DEF PaymentsAreGuarded
<1> QED
    BY <1>2, <1>4, <1>5, <1>6, <1>7 DEF BetInv

-----------------------------------------------------------------------------
\* A step that leaves every ledger alone, and undoes no execution.
LEMMA QuietLedgers ==
    ASSUME BetInv, UNCHANGED <<bookVars, ledger>>,
           \A q \in Requests : tx[q] = "executed" => tx'[q] = "executed",
           \A q \in Requests : pc[q] \notin {"new", "placing"} => pc'[q] \notin {"new", "placing"}
    PROVE  /\ LedgersAreTrue' /\ KeysAreBets'
           /\ \A r \in Requests : /\ Shown(r)' <=> Shown(r)
                                  /\ KeyShown(r)' <=> KeyShown(r)
                                  /\ \A i \in Instances : (BetHeld(r, i)' <=> BetHeld(r, i)) /\ (KeyHeld(r, i)' <=> KeyHeld(r, i))
<1> USE DEF bookVars, BetInv
<1>1. \A e : TrueEntry(e) => TrueEntry(e)'
    BY DEF TrueEntry
<1>2. \A e : InStore(e) => InStore(e)'
    BY DEF InStore, BetsIn
<1>3. LedgersAreTrue'
    BY <1>1, <1>2 DEF LedgersAreTrue
<1>4. \A r \in Requests : /\ Shown(r)' <=> Shown(r)
                          /\ KeyShown(r)' <=> KeyShown(r)
                          /\ \A i \in Instances : (BetHeld(r, i)' <=> BetHeld(r, i)) /\ (KeyHeld(r, i)' <=> KeyHeld(r, i))
    BY DEF Shown, KeyShown, BetHeld, KeyHeld, BetsIn
<1>5. KeysAreBets'
    BY <1>4 DEF KeysAreBets
<1> QED
    BY <1>3, <1>4, <1>5

LEMMA SubmitKeepsInv ==
    ASSUME BetInv, NEW r \in Requests, NEW i \in Instances, Submit(r, i)
    PROVE  BetInv'
<1> USE DEF BetInv, Submit
<1>1. /\ \A n \in Requests : n # r => pc'[n] = pc[n] /\ tx'[n] = tx[n] /\ letIn'[n] = letIn[n]
      /\ pc[r] = "new" /\ tx'[r] = "submitted" /\ letIn'[r] = {i}
      /\ pc'[r] \in {"placing", "ticketed", "failed"}
      /\ pc'[r] = "failed" => r \in unheard'
      /\ pc'[r] = "ticketed" => Path[r] = "ticket"
      /\ unheard \subseteq unheard' /\ raced \subseteq raced'
    BY DEF BetTypeOK
<1>2. BetTypeOK'
    BY DEF BetTypeOK, bookVars
<1>3. tx[r] = "none" /\ \A k \in Pollers : poll[r][k] = "idle"
    BY <1>1 DEF StandingIsTrue
<1>4. /\ LedgersAreTrue' /\ KeysAreBets'
      /\ \A n \in Requests : /\ Shown(n)' <=> Shown(n)
                             /\ KeyShown(n)' <=> KeyShown(n)
                             /\ \A j \in Instances : (BetHeld(n, j)' <=> BetHeld(n, j)) /\ (KeyHeld(n, j)' <=> KeyHeld(n, j))
    BY <1>1, <1>3, QuietLedgers
<1>5. StandingIsTrue'
    <2> SUFFICES ASSUME NEW n \in Requests
                 PROVE  /\ pc'[n] = "new" => tx'[n] = "none"
                        /\ pc'[n] # "new" => \E j \in Instances : letIn'[n] = {j}
                        /\ pc'[n] \in {"recorded", "missed", "indexed", "unindexed"} => tx'[n] = "executed"
                        /\ pc'[n] \in {"ticketed", "expired"} => Path[n] = "ticket"
                        /\ pc'[n] = "failed" => n \in unheard' \/ tx'[n] = "reverted"
                        /\ pc'[n] = "recorded" => \A j \in letIn'[n] : BetHeld(n, j)' /\ KeyHeld(n, j)'
                        /\ pc'[n] = "indexed" /\ n \notin unsaved' => Shown(n)' /\ KeyShown(n)'
                        /\ \A k \in Pollers :
                              /\ poll'[n][k] # "idle" => Path[n] = "ticket" /\ tx'[n] = "executed"
                                                         /\ pc'[n] \notin {"new", "placing"}
                              /\ poll'[n][k] = "recorded" => BetHeld(n, AskedOf[k])' /\ KeyHeld(n, AskedOf[k])'
        BY DEF StandingIsTrue
    <2>1. CASE n = r
        BY <1>1, <1>3, <2>1
    <2>2. CASE n # r
        BY <1>1, <1>4, <2>2, PathAssumption DEF StandingIsTrue, BetTypeOK
    <2> QED
        BY <2>1, <2>2
<1>6. ASSUME NEW s \in SameBet(r) \ {r}, letIn[s] = {i}, tx[s] \notin {"none", "reverted"}
      PROVE  s \in unheard \cup forgotten \/ r \in raced'
    <2>1. s \in Requests /\ Path[s] = "x402" /\ PaymentOf[s] = PaymentOf[r] /\ Path[r] = "x402"
        BY <1>6, SameBetSameKey, PathAssumption DEF SameBet
    <2>2. pc[s] \in {"placing", "recorded", "missed", "indexed", "unindexed", "failed"}
        BY <1>6, <2>1 DEF BetTypeOK, StandingIsTrue
    <2>3. pc[s] \in {"recorded", "missed", "indexed", "unindexed"} => s \in forgotten
        BY <1>6, <2>1 DEF PaymentsAreGuarded, spent
    <2>4. pc[s] = "failed" => s \in unheard
        BY <1>6, <2>1 DEF StandingIsTrue
    <2> QED
        BY <1>6, <2>2, <2>3, <2>4
<1>7. PaymentsAreGuarded'
    <2>1. ASSUME NEW n \in Requests, Path[n] = "x402", n \notin forgotten',
                 pc'[n] \in {"recorded", "missed", "indexed", "unindexed"}, NEW j \in letIn'[n]
          PROVE  PaymentOf[n] \in consumed'[j]
        BY <1>1, <2>1 DEF PaymentsAreGuarded
    <2>2. ASSUME NEW n \in Requests, NEW s \in SameBet(n) \ {n}, letIn'[n] = letIn'[s],
                 {tx'[n], tx'[s]} \cap {"none", "reverted"} = {}
          PROVE  {n, s} \cap (raced' \cup unheard' \cup forgotten') # {}
        <3>0. s \in Requests /\ n \in SameBet(s)
            BY SameBetSameKey
        <3>1. CASE n = r
            BY <1>1, <1>6, <2>2, <3>0, <3>1
        <3>2. CASE s = r
            BY <1>1, <1>6, <2>2, <3>0, <3>2
        <3>3. CASE n # r /\ s # r
            BY <1>1, <2>2, <3>0, <3>3 DEF PaymentsAreGuarded
        <3> QED
            BY <3>1, <3>2, <3>3
    <2> QED
        BY <2>1, <2>2 DEF PaymentsAreGuarded
<1> QED
    BY <1>2, <1>4, <1>5, <1>7

LEMMA ExecuteKeepsInv ==
    ASSUME BetInv, NEW r \in Requests, Execute(r)
    PROVE  BetInv'
<1> USE DEF BetInv, Execute, callVars
<1>1. /\ \A n \in Requests : n # r => tx'[n] = tx[n]
      /\ tx[r] = "submitted" /\ tx'[r] \in {"executed", "reverted"}
    BY DEF BetTypeOK
<1>2. BetTypeOK'
    BY DEF BetTypeOK, bookVars
<1>3. /\ LedgersAreTrue' /\ KeysAreBets'
      /\ \A n \in Requests : /\ Shown(n)' <=> Shown(n)
                             /\ KeyShown(n)' <=> KeyShown(n)
                             /\ \A j \in Instances : (BetHeld(n, j)' <=> BetHeld(n, j)) /\ (KeyHeld(n, j)' <=> KeyHeld(n, j))
    BY <1>1, QuietLedgers
<1>4. StandingIsTrue'
    BY <1>1, <1>3, PathAssumption DEF StandingIsTrue, BetTypeOK
<1>5. PaymentsAreGuarded'
    BY <1>1, SameBetSameKey DEF PaymentsAreGuarded
<1> QED
    BY <1>2, <1>3, <1>4, <1>5

-----------------------------------------------------------------------------
\* Recording a bet whose escrow executed: the stake and its key go into one instance's ledger
\* together, and only where none of the same bet is in it.
LEMMA RecordingKeepsLedgers ==
    ASSUME BetInv, NEW r \in Requests, NEW i \in Instances, NEW outcome,
           tx[r] = "executed", Path[r] = "operator" => pc[r] = "placing",
           ledgerRecordBet(i, r, outcome), outcome = "recorded" => i \in dirty',
           UNCHANGED <<tx, storedLedger, hydrating, lastRead, overruled, replaced>>, dirty \subseteq dirty',
           \A n \in Requests : n # r => pc'[n] = pc[n], pc'[r] \notin {"new", "placing"}
    PROVE  /\ LedgersAreTrue' /\ KeysAreBets' /\ ledger' \in [Instances -> Entries]
           /\ outcome \in {"recorded", "missed"}
           /\ outcome = "recorded" => BetHeld(r, i)' /\ KeyHeld(r, i)'
           /\ \A n \in Requests :
                 /\ Shown(n) => Shown(n)'
                 /\ KeyShown(n) => KeyShown(n)'
                 /\ \A j \in Instances : (BetHeld(n, j) => BetHeld(n, j)') /\ (KeyHeld(n, j) => KeyHeld(n, j)')
<1> USE DEF BetInv
<1>0. outcome \in {"recorded", "missed"}
    BY DEF ledgerRecordBet
<1>1. ledger \in [Instances -> Entries] /\ ledger[i] \in Entries
    BY DEF BetTypeOK
<1>2. \A e : TrueEntry(e) => TrueEntry(e)'
    BY DEF TrueEntry
<1>3. \A e : InStore(e) => InStore(e)'
    BY DEF InStore, BetsIn
<1>4. \A n \in Requests : (Shown(n)' <=> Shown(n)) /\ (KeyShown(n)' <=> KeyShown(n))
    BY DEF Shown, KeyShown, BetsIn
<1>5. CASE UNCHANGED ledger
    <2>1. \A n \in Requests, j \in Instances : (BetHeld(n, j)' <=> BetHeld(n, j)) /\ (KeyHeld(n, j)' <=> KeyHeld(n, j))
        BY <1>4, <1>5 DEF BetHeld, KeyHeld, BetsIn
    <2>2. LedgersAreTrue'
        BY <1>2, <1>3, <1>5 DEF LedgersAreTrue
    <2>3. KeysAreBets'
        BY <1>4, <1>5, <2>1 DEF KeysAreBets
    <2>4. outcome = "recorded" => BetHeld(r, i) /\ KeyHeld(r, i)
        <3>1. outcome = "recorded" => dedupeKey(r) # {} /\ dedupeKey(r) \subseteq ledger[i].keys
            <4>1. ASSUME ~AlreadyRecorded(ledger[i], r), ~ledger[i].settled PROVE FALSE
                <5>1. ledger' = [ledger EXCEPT ![i].keys = @ \cup dedupeKey(r), ![i].stakes[r] = @ + 1]
                    BY <4>1 DEF ledgerRecordBet
                <5>2. ledger'[i].stakes[r] = ledger[i].stakes[r] + 1 /\ ledger[i].stakes[r] \in Nat
                    BY <1>1, <5>1 DEF Entries
                <5> QED
                    BY <1>5, <5>2
            <4> QED
                BY <4>1 DEF ledgerRecordBet, AlreadyRecorded
        <3> QED
            BY <3>1 DEF KeysAreBets, KeyHeld
    <2> QED
        BY <1>0, <1>1, <1>4, <1>5, <2>1, <2>2, <2>3, <2>4
<1>6. CASE ~UNCHANGED ledger
    <2>1. /\ ~AlreadyRecorded(ledger[i], r) /\ outcome = "recorded"
          /\ ledger' = [ledger EXCEPT ![i].keys = @ \cup dedupeKey(r), ![i].stakes[r] = @ + 1]
        BY <1>6 DEF ledgerRecordBet
    <2>2. /\ \A j \in Instances : j # i => ledger'[j] = ledger[j]
          /\ ledger'[i].keys = ledger[i].keys \cup dedupeKey(r)
          /\ ledger'[i].stakes[r] = ledger[i].stakes[r] + 1
          /\ \A n \in Requests : n # r => ledger'[i].stakes[n] = ledger[i].stakes[n]
          /\ ledger' \in [Instances -> Entries]
        BY <1>1, <2>1, SameBetSameKey DEF Entries
    <2>3. ASSUME NEW s \in SameBet(r) PROVE ledger[i].stakes[s] = 0
        <3>1. s \in Requests /\ dedupeKey(s) = dedupeKey(r) /\ Path[s] = Path[r]
            BY SameBetSameKey
        <3>2. ledger[i].stakes[s] \in Nat /\ TrueEntry(ledger[i])
            BY <1>1, <3>1 DEF LedgersAreTrue, Entries
        <3>3. CASE Path[r] = "operator"
            <4>1. s = r /\ pc[s] = "placing"
                BY <3>3, SameBetSameKey
            <4> QED
                BY <3>1, <3>2, <4>1 DEF TrueEntry
        <3>4. CASE Path[r] # "operator"
            <4>1. ~(dedupeKey(s) \subseteq ledger[i].keys)
                BY <2>1, <3>1, <3>4, SameBetSameKey DEF AlreadyRecorded
            <4> QED
                BY <3>1, <3>2, <4>1 DEF TrueEntry
        <3> QED
            BY <3>3, <3>4
    <2>4. r \in SameBet(r) /\ SameBet(r) \subseteq Requests /\ ledger[i].stakes[r] = 0 /\ ledger'[i].stakes[r] = 1
        BY <2>2, <2>3, SameBetSameKey
    <2>5. TrueEntry(ledger[i]) /\ \A n \in Requests : ledger[i].stakes[n] \in Nat
        BY <1>1 DEF LedgersAreTrue, Entries
    <2>6. TrueEntry(ledger[i])'
        <3>1. ASSUME NEW q \in Requests
              PROVE  /\ ledger'[i].stakes[q] <= 1
                     /\ ledger'[i].stakes[q] > 0 => /\ tx'[q] = "executed" /\ pc'[q] \notin {"new", "placing"}
                                                    /\ dedupeKey(q) \subseteq ledger'[i].keys
            BY <2>2, <2>4, <2>5 DEF TrueEntry
        <3>2. ASSUME NEW q \in Requests, NEW s \in SameBet(q) \ {q}
              PROVE  ledger'[i].stakes[q] = 0 \/ ledger'[i].stakes[s] = 0
            <4>1. s \in Requests /\ q \in SameBet(s)
                BY SameBetSameKey
            <4>2. CASE q = r
                BY <2>2, <2>3, <4>1, <4>2
            <4>3. CASE s = r
                BY <2>2, <2>3, <4>1, <4>3
            <4>4. CASE q # r /\ s # r
                BY <2>2, <2>5, <4>1, <4>4 DEF TrueEntry
            <4> QED
                BY <4>2, <4>3, <4>4
        <3> QED
            BY <3>1, <3>2 DEF TrueEntry
    <2>7. LedgersAreTrue'
        <3>1. ASSUME NEW j \in Instances
              PROVE  /\ TrueEntry(ledger[j])'
                     /\ j \notin dirty' => InStore(ledger[j])'
                     /\ \A e \in hydrating'[j] : TrueEntry(e)' /\ InStore(e)'
                     /\ lastRead'[j] \subseteq ledger'[j].keys \cap storedLedger'.keys
            <4>1. CASE j = i
                BY <1>2, <1>3, <2>1, <2>2, <2>6, <4>1 DEF LedgersAreTrue
            <4>2. CASE j # i
                <5>1. ledger'[j] = ledger[j]
                    BY <2>2, <4>2
                <5> QED
                    BY <1>2, <1>3, <5>1 DEF LedgersAreTrue, TrueEntry, InStore, BetsIn
            <4> QED
                BY <4>1, <4>2
        <3>2. TrueEntry(storedLedger)'
            BY <1>2 DEF LedgersAreTrue
        <3> QED
            BY <3>1, <3>2 DEF LedgersAreTrue
    <2>8. \A j \in Instances : BetsIn(ledger[j]) \subseteq BetsIn(ledger'[j])
        BY <2>2, <2>4, <2>5 DEF BetsIn
    <2>9. \A n \in Requests, j \in Instances : (BetHeld(n, j) => BetHeld(n, j)') /\ (KeyHeld(n, j) => KeyHeld(n, j)')
        BY <1>4, <2>2, <2>8 DEF BetHeld, KeyHeld, BetsIn
    <2>10. BetHeld(r, i)' /\ KeyHeld(r, i)'
        BY <2>2, <2>4 DEF BetHeld, KeyHeld, BetsIn
    <2>11. ASSUME NEW n \in Requests, NEW j \in Instances, dedupeKey(n) # {}, dedupeKey(n) \subseteq ledger'[j].keys
           PROVE  BetHeld(n, j)'
        <3>1. CASE dedupeKey(n) \subseteq ledger[j].keys
            BY <2>9, <2>11, <3>1 DEF KeysAreBets
        <3>2. CASE ~(dedupeKey(n) \subseteq ledger[j].keys)
            <4>1. j = i /\ dedupeKey(n) \subseteq ledger[i].keys \cup dedupeKey(r)
                BY <2>2, <2>11, <3>2
            <4>2. n \in SameBet(r)
                BY <3>2, <4>1, OneKeyOneBet
            <4>3. SameBet(n) = SameBet(r)
                BY <4>2, SameBetSameKey
            <4> QED
                BY <2>4, <4>1, <4>3 DEF BetHeld, BetsIn
        <3> QED
            BY <3>1, <3>2
    <2>12. KeysAreBets'
        BY <1>4, <2>11 DEF KeysAreBets
    <2> QED
        BY <1>0, <1>4, <2>2, <2>7, <2>9, <2>10, <2>12
<1> QED
    BY <1>5, <1>6

LEMMA PlacedKeepsInv ==
    ASSUME BetInv, NEW r \in Requests, Placed(r)
    PROVE  BetInv'
<1>1. PICK i \in letIn[r], outcome \in {"recorded", "missed"} :
          /\ pc[r] = "placing" /\ tx[r] = "executed"
          /\ consumed' = IF Path[r] # "x402" THEN consumed ELSE [consumed EXCEPT ![i] = @ \cup {PaymentOf[r]}]
          /\ ledgerRecordBet(i, r, outcome) /\ pc' = [pc EXCEPT ![r] = outcome]
          /\ dirty' = IF outcome = "recorded" \/ Path[r] \in {"x402", "fleet"} THEN dirty \cup {i} ELSE dirty
          /\ UNCHANGED <<chainVars, storedLedger, hydrating, lastRead, overruled, replaced, poll, letIn, unsaved,
                         forgotten, unheard, raced>>
    BY DEF Placed
<1> USE DEF BetInv, chainVars
<1>2. i \in Instances /\ letIn[r] = {i}
    BY <1>1 DEF StandingIsTrue, BetTypeOK
<1>3. pc' \in [Requests -> {"new", "placing", "recorded", "missed", "ticketed", "indexed", "unindexed", "failed", "expired"}]
      /\ pc'[r] = outcome /\ \A n \in Requests : n # r => pc'[n] = pc[n]
    BY <1>1 DEF BetTypeOK
<1>4. /\ LedgersAreTrue' /\ KeysAreBets' /\ ledger' \in [Instances -> Entries]
      /\ outcome = "recorded" => BetHeld(r, i)' /\ KeyHeld(r, i)'
      /\ \A n \in Requests :
            /\ Shown(n) => Shown(n)'
            /\ KeyShown(n) => KeyShown(n)'
            /\ \A j \in Instances : (BetHeld(n, j) => BetHeld(n, j)') /\ (KeyHeld(n, j) => KeyHeld(n, j)')
    <2>1. /\ outcome = "recorded" => i \in dirty'
          /\ dirty \subseteq dirty' /\ pc'[r] \notin {"new", "placing"}
        BY <1>1, <1>3
    <2> QED
        BY <1>1, <1>2, <1>3, <2>1, RecordingKeepsLedgers
<1>5. BetTypeOK'
    BY <1>1, <1>2, <1>3, <1>4 DEF BetTypeOK
<1>6. StandingIsTrue'
    BY <1>1, <1>2, <1>3, <1>4, PathAssumption DEF StandingIsTrue, BetTypeOK
<1>7. /\ Path[r] = "x402" => PaymentOf[r] \in consumed'[i]
      /\ \A j \in Instances : consumed[j] \subseteq consumed'[j]
    BY <1>1, <1>2 DEF BetTypeOK
<1>8. PaymentsAreGuarded'
    <2>1. ASSUME NEW n \in Requests, Path[n] = "x402", n \notin forgotten,
                 pc'[n] \in {"recorded", "missed", "indexed", "unindexed"}, NEW j \in letIn[n]
          PROVE  PaymentOf[n] \in consumed'[j]
        <3>1. CASE n = r
            BY <1>2, <1>7, <2>1, <3>1
        <3>2. CASE n # r
            <4>1. j \in Instances
                BY DEF BetTypeOK
            <4> QED
                BY <1>3, <1>7, <2>1, <3>2, <4>1 DEF PaymentsAreGuarded
        <3> QED
            BY <3>1, <3>2
    <2> QED
        BY <1>1, <2>1 DEF PaymentsAreGuarded
<1> QED
    BY <1>4, <1>5, <1>6, <1>8

LEMMA PollIndexKeepsInv ==
    ASSUME BetInv, NEW r \in Requests, NEW k \in Pollers, PollIndex(r, k)
    PROVE  BetInv'
<1> DEFINE i == AskedOf[k]
<1>1. PICK outcome \in {"recorded", "missed"} :
          /\ poll[r][k] = "confirmed"
          /\ ledgerRecordBet(i, r, outcome) /\ poll' = [poll EXCEPT ![r][k] = outcome]
          /\ dirty' = IF outcome = "recorded" THEN dirty \cup {i} ELSE dirty
          /\ UNCHANGED <<chainVars, storedLedger, hydrating, lastRead, overruled, replaced, pc, letIn, unsaved,
                         consumed, forgotten, unheard, raced>>
    BY DEF PollIndex
<1> USE DEF BetInv, chainVars
<1>2. i \in Instances /\ tx[r] = "executed" /\ Path[r] = "ticket" /\ pc[r] \notin {"new", "placing"}
    BY <1>1, PathAssumption DEF StandingIsTrue
<1>3. /\ LedgersAreTrue' /\ KeysAreBets' /\ ledger' \in [Instances -> Entries]
      /\ outcome = "recorded" => BetHeld(r, i)' /\ KeyHeld(r, i)'
      /\ \A n \in Requests :
            /\ Shown(n) => Shown(n)'
            /\ KeyShown(n) => KeyShown(n)'
            /\ \A j \in Instances : (BetHeld(n, j) => BetHeld(n, j)') /\ (KeyHeld(n, j) => KeyHeld(n, j)')
    <2>1. outcome = "recorded" => i \in dirty'
        BY <1>1
    <2>2. dirty \subseteq dirty'
        BY <1>1
    <2> HIDE DEF i
    <2> QED
        BY <1>1, <1>2, <2>1, <2>2, RecordingKeepsLedgers
<1>4. /\ poll' \in [Requests -> [Pollers -> {"idle", "confirmed", "recorded", "missed"}]]
      /\ poll'[r][k] = outcome
      /\ \A n \in Requests, j \in Pollers : (n = r /\ j = k) \/ poll'[n][j] = poll[n][j]
    BY <1>1 DEF BetTypeOK
<1>5. BetTypeOK'
    BY <1>1, <1>2, <1>3, <1>4 DEF BetTypeOK
<1>6. StandingIsTrue'
    <2>1. ASSUME NEW n \in Requests, NEW j \in Pollers
          PROVE  /\ poll'[n][j] # "idle" => Path[n] = "ticket" /\ tx'[n] = "executed" /\ pc'[n] \notin {"new", "placing"}
                 /\ poll'[n][j] = "recorded" => BetHeld(n, AskedOf[j])' /\ KeyHeld(n, AskedOf[j])'
        <3>1. CASE n = r /\ j = k
            BY <1>1, <1>2, <1>3, <1>4, <3>1
        <3>2. CASE ~(n = r /\ j = k)
            BY <1>1, <1>3, <1>4, <3>2, PathAssumption DEF StandingIsTrue
        <3> QED
            BY <3>1, <3>2
    <2> HIDE DEF i
    <2> QED
        BY <1>1, <1>3, <2>1 DEF StandingIsTrue, BetTypeOK
<1>7. PaymentsAreGuarded'
    BY <1>1 DEF PaymentsAreGuarded
<1> QED
    BY <1>3, <1>5, <1>6, <1>7

-----------------------------------------------------------------------------
\* Steps of the callers that touch no ledger: an answer after a flush, a poll, giving up.
LEMMA AnsweringKeepsInv ==
    ASSUME BetInv, BetTypeOK', UNCHANGED <<chainVars, bookVars, letIn, consumed, ledger, forgotten, raced>>,
           unheard \subseteq unheard', unsaved \subseteq unsaved',
           \A n \in Requests :
              \/ pc'[n] = pc[n]
              \/ pc'[n] = "failed" /\ pc[n] # "new" /\ (n \in unheard' \/ tx[n] = "reverted")
              \/ pc'[n] = "expired" /\ pc[n] = "ticketed"
              \/ pc'[n] = "unindexed" /\ pc[n] # "new" /\ tx[n] = "executed" /\ (Path[n] = "x402" => pc[n] = "missed")
              \/ /\ pc'[n] = "indexed" /\ pc[n] # "new" /\ tx[n] = "executed" /\ (Path[n] = "x402" => pc[n] = "recorded")
                 /\ n \in unsaved' \/ (Shown(n) /\ KeyShown(n)),
           \A n \in Requests, k \in Pollers :
              \/ poll'[n][k] \in {poll[n][k], "idle"}
              \/ poll'[n][k] = "confirmed" /\ Path[n] = "ticket" /\ tx[n] = "executed" /\ pc[n] \notin {"new", "placing"}
    PROVE  BetInv'
<1> USE DEF BetInv, chainVars
<1>1. \A n \in Requests : /\ pc[n] = "new" <=> pc'[n] = "new"
                          /\ pc[n] \notin {"new", "placing"} => pc'[n] \notin {"new", "placing"}
    OBVIOUS
<1>2. /\ LedgersAreTrue' /\ KeysAreBets'
      /\ \A n \in Requests : /\ Shown(n)' <=> Shown(n)
                             /\ KeyShown(n)' <=> KeyShown(n)
                             /\ \A j \in Instances : (BetHeld(n, j)' <=> BetHeld(n, j)) /\ (KeyHeld(n, j)' <=> KeyHeld(n, j))
    BY <1>1, QuietLedgers
<1>3. StandingIsTrue'
    <2> SUFFICES ASSUME NEW n \in Requests
                 PROVE  /\ pc'[n] = "new" => tx'[n] = "none"
                        /\ pc'[n] # "new" => \E j \in Instances : letIn'[n] = {j}
                        /\ pc'[n] \in {"recorded", "missed", "indexed", "unindexed"} => tx'[n] = "executed"
                        /\ pc'[n] \in {"ticketed", "expired"} => Path[n] = "ticket"
                        /\ pc'[n] = "failed" => n \in unheard' \/ tx'[n] = "reverted"
                        /\ pc'[n] = "recorded" => \A j \in letIn'[n] : BetHeld(n, j)' /\ KeyHeld(n, j)'
                        /\ pc'[n] = "indexed" /\ n \notin unsaved' => Shown(n)' /\ KeyShown(n)'
                        /\ \A k \in Pollers :
                              /\ poll'[n][k] # "idle" => Path[n] = "ticket" /\ tx'[n] = "executed"
                                                         /\ pc'[n] \notin {"new", "placing"}
                              /\ poll'[n][k] = "recorded" => BetHeld(n, AskedOf[k])' /\ KeyHeld(n, AskedOf[k])'
        BY DEF StandingIsTrue
    <2>1. /\ pc'[n] = "new" => tx'[n] = "none"
          /\ pc'[n] # "new" => \E j \in Instances : letIn'[n] = {j}
          /\ pc'[n] \in {"recorded", "missed", "indexed", "unindexed"} => tx'[n] = "executed"
        BY <1>1 DEF StandingIsTrue
    <2>2. /\ pc'[n] \in {"ticketed", "expired"} => Path[n] = "ticket"
          /\ pc'[n] = "failed" => n \in unheard' \/ tx'[n] = "reverted"
        BY DEF StandingIsTrue
    <2>3. pc'[n] = "recorded" => \A j \in letIn'[n] : BetHeld(n, j)' /\ KeyHeld(n, j)'
        BY <1>2 DEF StandingIsTrue, BetTypeOK
    <2>4. pc'[n] = "indexed" /\ n \notin unsaved' => Shown(n)' /\ KeyShown(n)'
        BY <1>2 DEF StandingIsTrue
    <2>5. ASSUME NEW k \in Pollers
          PROVE  /\ poll'[n][k] # "idle" => Path[n] = "ticket" /\ tx'[n] = "executed" /\ pc'[n] \notin {"new", "placing"}
                 /\ poll'[n][k] = "recorded" => BetHeld(n, AskedOf[k])' /\ KeyHeld(n, AskedOf[k])'
        <3>1. AskedOf[k] \in Instances
            BY PathAssumption
        <3> QED
            BY <1>1, <1>2, <3>1 DEF StandingIsTrue
    <2> QED
        BY <2>1, <2>2, <2>3, <2>4, <2>5
<1>4. PaymentsAreGuarded'
    <2>1. \A n \in Requests : pc'[n] \in {"recorded", "missed", "indexed", "unindexed"} /\ Path[n] = "x402"
                                 => pc[n] \in {"recorded", "missed", "indexed", "unindexed"}
        OBVIOUS
    <2> QED
        BY <2>1 DEF PaymentsAreGuarded
<1> QED
    BY <1>2, <1>3, <1>4

\* A ledger that is flushed, or was when its memory was read: what it holds is in the store.
LEMMA SavedWhenClean ==
    ASSUME BetInv, NEW r \in Requests, NEW i \in Instances, i \notin dirty, BetHeld(r, i), KeyHeld(r, i)
    PROVE  Shown(r) /\ KeyShown(r)
<1>1. InStore(ledger[i])
    BY DEF BetInv, LedgersAreTrue
<1> QED
    BY <1>1 DEF InStore, BetHeld, KeyHeld, Shown, KeyShown

LEMMA AnswerKeepsInv ==
    ASSUME BetInv, NEW r \in Requests, Answer(r) \/ \E k \in Pollers : PollAnswer(r, k)
    PROVE  BetInv'
<1> USE DEF BetInv
<1>1. CASE Answer(r)
    <2>1. PICK i \in letIn[r] :
             /\ pc[r] \in {"recorded", "missed"} /\ pc' = [pc EXCEPT ![r] = Told(@)]
             /\ unsaved' = IF pc[r] = "recorded" /\ i \in dirty THEN unsaved \cup {r} ELSE unsaved
             /\ UNCHANGED <<chainVars, bookVars, poll, letIn, consumed, ledger, forgotten, unheard, raced>>
        BY <1>1 DEF Answer
    <2>2. i \in Instances /\ tx[r] = "executed" /\ (pc[r] = "recorded" => BetHeld(r, i) /\ KeyHeld(r, i))
        BY <2>1 DEF StandingIsTrue, BetTypeOK
    <2>3. /\ pc'[r] = IF pc[r] = "recorded" THEN "indexed" ELSE "unindexed"
          /\ \A n \in Requests : n # r => pc'[n] = pc[n]
        BY <2>1 DEF BetTypeOK, Told
    <2>4. BetTypeOK'
        BY <2>1 DEF BetTypeOK, Told, chainVars, bookVars
    <2>5. pc[r] = "recorded" => r \in unsaved' \/ (Shown(r) /\ KeyShown(r))
        BY <2>1, <2>2, SavedWhenClean
    <2> QED
        BY <2>1, <2>2, <2>3, <2>4, <2>5, AnsweringKeepsInv
<1>2. ASSUME NEW k \in Pollers, PollAnswer(r, k) PROVE BetInv'
    <2> USE <1>2 DEF PollAnswer
    <2>1. AskedOf[k] \in Instances /\ tx[r] = "executed" /\ Path[r] = "ticket" /\ pc[r] \notin {"new", "placing"}
          /\ (poll[r][k] = "recorded" => BetHeld(r, AskedOf[k]) /\ KeyHeld(r, AskedOf[k]))
        BY PathAssumption DEF StandingIsTrue
    <2>2. /\ pc'[r] = IF poll[r][k] = "recorded" THEN "indexed" ELSE "unindexed"
          /\ \A n \in Requests : n # r => pc'[n] = pc[n]
          /\ \A n \in Requests, j \in Pollers : poll'[n][j] \in {poll[n][j], "idle"}
        BY DEF BetTypeOK, Told
    <2>3. BetTypeOK'
        BY DEF BetTypeOK, Told, chainVars, bookVars
    <2>4. poll[r][k] = "recorded" => r \in unsaved' \/ (Shown(r) /\ KeyShown(r))
        BY <2>1, SavedWhenClean
    <2>5. unsaved \subseteq unsaved'
        OBVIOUS
    <2> QED
        BY <2>1, <2>2, <2>3, <2>4, <2>5, AnsweringKeepsInv
<1> QED
    BY <1>1, <1>2

LEMMA PollChainKeepsInv ==
    ASSUME BetInv, NEW r \in Requests, NEW k \in Pollers, PollChain(r, k)
    PROVE  BetInv'
<1> USE DEF BetInv, PollChain
<1>1. /\ poll' \in [Requests -> [Pollers -> {"idle", "confirmed", "recorded", "missed"}]]
      /\ \A n \in Requests, j \in Pollers :
            \/ poll'[n][j] = poll[n][j]
            \/ poll'[n][j] = "confirmed" /\ n = r /\ tx[r] = "executed"
    <2>1. CASE poll' = poll
        BY <2>1 DEF BetTypeOK
    <2>2. CASE tx[r] = "executed" /\ poll' = [poll EXCEPT ![r][k] = "confirmed"]
        BY <2>2 DEF BetTypeOK
    <2> QED
        BY <2>1, <2>2
<1>2. \A n \in Requests : pc'[n] = pc[n] \/ (pc'[n] = "failed" /\ n = r /\ tx[r] = "reverted")
    BY DEF BetTypeOK
<1>3. BetTypeOK'
    BY <1>1 DEF BetTypeOK, chainVars, bookVars
<1> QED
    BY <1>1, <1>2, <1>3, AnsweringKeepsInv

LEMMA FailuresKeepInv ==
    ASSUME BetInv, ChainCloses \/ \E r \in Requests : PlaceFailed(r) \/ TicketExpires(r)
    PROVE  BetInv'
<1> USE DEF BetInv
<1>1. CASE ChainCloses
    <2> USE <1>1 DEF ChainCloses, callVars
    <2>1. BetTypeOK'
        BY DEF BetTypeOK, bookVars
    <2>2. /\ LedgersAreTrue' /\ KeysAreBets'
          /\ \A n \in Requests : /\ Shown(n)' <=> Shown(n)
                                 /\ KeyShown(n)' <=> KeyShown(n)
                                 /\ \A j \in Instances : (BetHeld(n, j)' <=> BetHeld(n, j)) /\ (KeyHeld(n, j)' <=> KeyHeld(n, j))
        BY QuietLedgers
    <2>3. StandingIsTrue'
        BY <2>2, PathAssumption DEF StandingIsTrue, BetTypeOK
    <2>4. PaymentsAreGuarded'
        BY DEF PaymentsAreGuarded
    <2> QED
        BY <2>1, <2>2, <2>3, <2>4
<1>2. ASSUME NEW r \in Requests, PlaceFailed(r) PROVE BetInv'
    <2>1. BetTypeOK'
        BY <1>2 DEF PlaceFailed, BetTypeOK, chainVars, bookVars
    <2>2. \A n \in Requests : pc'[n] = pc[n] \/ (pc'[n] = "failed" /\ pc[n] # "new" /\ (n \in unheard' \/ tx[n] = "reverted"))
        BY <1>2 DEF PlaceFailed, BetTypeOK
    <2> QED
        BY <1>2, <2>1, <2>2, AnsweringKeepsInv DEF PlaceFailed
<1>3. ASSUME NEW r \in Requests, TicketExpires(r) PROVE BetInv'
    <2>1. BetTypeOK'
        BY <1>3 DEF TicketExpires, BetTypeOK, chainVars, bookVars
    <2>2. \A n \in Requests : pc'[n] = pc[n] \/ (pc'[n] = "expired" /\ pc[n] = "ticketed")
        BY <1>3 DEF TicketExpires, BetTypeOK
    <2> QED
        BY <1>3, <2>1, <2>2, AnsweringKeepsInv DEF TicketExpires
<1> QED
    BY <1>1, <1>2, <1>3

-----------------------------------------------------------------------------
\* What the instances do to their ledgers and the store, while the callers wait.
LEMMA WaitingKeepsInv ==
    ASSUME BetInv, BetTypeOK', LedgersAreTrue', KeysAreBets',
           UNCHANGED <<chainVars, callVars, consumed, forgotten, unheard, raced>>,
           \A n \in Requests :
              /\ Shown(n) => Shown(n)'
              /\ KeyShown(n) => KeyShown(n)'
              /\ \A j \in Instances : (BetHeld(n, j) => BetHeld(n, j)') /\ (KeyHeld(n, j) => KeyHeld(n, j)')
    PROVE  BetInv'
<1> USE DEF BetInv, chainVars, callVars
<1>1. StandingIsTrue'
    BY PathAssumption DEF StandingIsTrue, BetTypeOK
<1>2. PaymentsAreGuarded'
    BY DEF PaymentsAreGuarded
<1> QED
    BY <1>1, <1>2

LEMMA SettleKeepsInv ==
    ASSUME BetInv, NEW i \in Instances, Settle(i)
    PROVE  BetInv'
<1> USE DEF BetInv, Settle, chainVars, callVars
<1>1. /\ ledger \in [Instances -> Entries] /\ ledger' \in [Instances -> Entries]
      /\ \A j \in Instances : ledger'[j].keys = ledger[j].keys /\ ledger'[j].stakes = ledger[j].stakes
    BY DEF BetTypeOK, Entries
<1>2. BetTypeOK'
    BY <1>1 DEF BetTypeOK
<1>3. \A n \in Requests :
         /\ Shown(n)' <=> Shown(n)
         /\ KeyShown(n)' <=> KeyShown(n)
         /\ \A j \in Instances : (BetHeld(n, j)' <=> BetHeld(n, j)) /\ (KeyHeld(n, j)' <=> KeyHeld(n, j))
    BY <1>1 DEF Shown, KeyShown, BetHeld, KeyHeld, BetsIn
<1>4. LedgersAreTrue'
    BY <1>1 DEF LedgersAreTrue, TrueEntry, InStore, BetsIn
<1>5. KeysAreBets'
    BY <1>1, <1>3 DEF KeysAreBets
<1> QED
    BY <1>2, <1>3, <1>4, <1>5, WaitingKeepsInv

LEMMA ReadStoreKeepsInv ==
    ASSUME BetInv, NEW i \in Instances, ReadStore(i)
    PROVE  BetInv'
<1> USE DEF BetInv, ReadStore, chainVars, callVars
<1>1. BetTypeOK'
    BY DEF BetTypeOK
<1>2. \A n \in Requests :
         /\ Shown(n)' <=> Shown(n)
         /\ KeyShown(n)' <=> KeyShown(n)
         /\ \A j \in Instances : (BetHeld(n, j)' <=> BetHeld(n, j)) /\ (KeyHeld(n, j)' <=> KeyHeld(n, j))
    BY DEF Shown, KeyShown, BetHeld, KeyHeld, BetsIn
<1>3. InStore(storedLedger) /\ \A e : (TrueEntry(e)' <=> TrueEntry(e)) /\ (InStore(e)' <=> InStore(e))
    BY DEF InStore, TrueEntry, BetsIn
<1>4. \A j \in Instances : \A e \in hydrating'[j] : e \in hydrating[j] \/ e = storedLedger
    BY DEF BetTypeOK
<1>5. LedgersAreTrue'
    BY <1>3, <1>4 DEF LedgersAreTrue
<1>6. KeysAreBets'
    BY <1>2 DEF KeysAreBets
<1> QED
    BY <1>1, <1>2, <1>5, <1>6, WaitingKeepsInv

LEMMA HydrateKeepsInv ==
    ASSUME BetInv, NEW i \in Instances, Hydrate(i)
    PROVE  BetInv'
<1>1. PICK book \in hydrating[i] :
         /\ ledger' = [ledger EXCEPT ![i] = book]
         /\ lastRead' = [lastRead EXCEPT ![i] = book.keys]
         /\ hydrating' = [hydrating EXCEPT ![i] = {}]
         /\ replaced' = replaced \cup OnlyWith(i)
         /\ UNCHANGED <<chainVars, storedLedger, dirty, overruled, callVars, consumed, forgotten, unheard, raced>>
    BY DEF Hydrate
<1> USE DEF BetInv, chainVars, callVars
<1>2. book \in Entries /\ TrueEntry(book) /\ InStore(book)
    BY <1>1 DEF BetTypeOK, LedgersAreTrue
<1>3. BetTypeOK'
    BY <1>1, <1>2 DEF BetTypeOK
<1>4. \A e : (TrueEntry(e)' <=> TrueEntry(e)) /\ (InStore(e)' <=> InStore(e))
    BY <1>1 DEF InStore, TrueEntry, BetsIn
<1>5. /\ ledger'[i] = book /\ lastRead'[i] = book.keys /\ hydrating'[i] = {}
      /\ \A j \in Instances : j # i => /\ ledger'[j] = ledger[j] /\ lastRead'[j] = lastRead[j]
                                       /\ hydrating'[j] = hydrating[j]
    BY <1>1 DEF BetTypeOK
<1>6. LedgersAreTrue'
    <2>1. ASSUME NEW j \in Instances
          PROVE  /\ TrueEntry(ledger[j])'
                 /\ j \notin dirty' => InStore(ledger[j])'
                 /\ \A e \in hydrating'[j] : TrueEntry(e)' /\ InStore(e)'
                 /\ lastRead'[j] \subseteq ledger'[j].keys \cap storedLedger'.keys
        <3>1. CASE j = i
            BY <1>2, <1>4, <1>5, <3>1 DEF TrueEntry, InStore, BetsIn
        <3>2. CASE j # i
            BY <1>1, <1>4, <1>5, <3>2 DEF LedgersAreTrue, TrueEntry, InStore, BetsIn
        <3> QED
            BY <3>1, <3>2
    <2>2. TrueEntry(storedLedger)'
        BY <1>1, <1>4 DEF LedgersAreTrue
    <2> QED
        BY <2>1, <2>2 DEF LedgersAreTrue
<1>7. BetsIn(ledger[i]) \subseteq BetsIn(storedLedger) \cup OnlyWith(i)
    <2> SUFFICES ASSUME NEW q \in BetsIn(ledger[i]), q \notin BetsIn(storedLedger) PROVE q \in OnlyWith(i)
        OBVIOUS
    <2>1. q \in Requests /\ ledger[i].stakes[q] > 0 /\ ~(storedLedger.stakes[q] > 0)
        BY DEF BetsIn
    <2>2. ledger[i].stakes[q] \in Nat /\ storedLedger.stakes[q] \in Nat
        BY <2>1 DEF BetTypeOK, Entries
    <2> QED
        BY <2>1, <2>2 DEF OnlyWith
<1>8. ASSUME NEW n \in Requests PROVE Shown(n) => Shown(n)'
    BY <1>1 DEF Shown
<1>9. ASSUME NEW n \in Requests PROVE KeyShown(n) => KeyShown(n)'
    BY <1>1 DEF KeyShown
<1>10. ASSUME NEW n \in Requests, NEW j \in Instances, BetHeld(n, j) PROVE BetHeld(n, j)'
    <2>1. CASE j = i
        <3>1. SameBet(n) \cap (BetsIn(storedLedger) \cup overruled \cup replaced \cup OnlyWith(i)) # {}
            BY <1>7, <1>10, <2>1 DEF BetHeld, Shown
        <3>2. Shown(n)'
            BY <1>1, <3>1 DEF Shown
        <3> QED
            BY <3>2 DEF BetHeld
    <2>2. CASE j # i
        BY <1>5, <1>8, <1>10, <2>2 DEF BetHeld
    <2> QED
        BY <2>1, <2>2
<1>11. ASSUME NEW n \in Requests, NEW j \in Instances, KeyHeld(n, j) PROVE KeyHeld(n, j)'
    <2>1. CASE KeyShown(n) \/ j # i
        BY <1>5, <1>9, <1>11, <2>1 DEF KeyHeld
    <2>2. CASE ~KeyShown(n) /\ j = i
        <3>1. dedupeKey(n) \subseteq ledger[i].keys /\ ~(dedupeKey(n) \subseteq storedLedger.keys)
            BY <1>11, <2>2 DEF KeyHeld, KeyShown
        <3>2. n \in OnlyWith(i) /\ n \in SameBet(n)
            BY <3>1, SameBetSameKey DEF OnlyWith
        <3>3. KeyShown(n)'
            BY <1>1, <3>2 DEF KeyShown
        <3> QED
            BY <3>3 DEF KeyHeld
    <2> QED
        BY <2>1, <2>2
<1>12. KeysAreBets'
    <2>1. ASSUME NEW n \in Requests, dedupeKey(n) # {}, NEW j \in Instances, dedupeKey(n) \subseteq ledger'[j].keys
          PROVE  BetHeld(n, j)'
        <3>1. CASE j = i
            <4>1. dedupeKey(n) \subseteq storedLedger.keys
                BY <1>2, <1>5, <2>1, <3>1 DEF InStore
            <4> QED
                BY <1>8, <2>1, <4>1 DEF KeysAreBets, BetHeld
        <3>2. CASE j # i
            BY <1>5, <1>10, <2>1, <3>2 DEF KeysAreBets
        <3> QED
            BY <3>1, <3>2
    <2> QED
        BY <1>1, <1>8, <2>1 DEF KeysAreBets
<1> QED
    BY <1>1, <1>3, <1>6, <1>8, <1>9, <1>10, <1>11, <1>12, WaitingKeepsInv

LEMMA FlushKeepsInv ==
    ASSUME BetInv, NEW i \in Instances, Flush(i)
    PROVE  BetInv'
<1> DEFINE merged(won) == [won EXCEPT !.keys = ledger[i].keys \cup storedLedger.keys]
<1>1. PICK won \in {ledger[i], storedLedger}, other \in {ledger[i], storedLedger} :
         /\ i \in dirty
         /\ {won, other} = {ledger[i], storedLedger}
         /\ ledger' = [ledger EXCEPT ![i] = merged(won)]
         /\ lastRead' = [lastRead EXCEPT ![i] = storedLedger.keys]
         /\ \/ /\ storedLedger' = merged(won) /\ dirty' = dirty \ {i}
               /\ overruled' = overruled \cup (BetsIn(other) \ BetsIn(won))
            \/ /\ UNCHANGED <<storedLedger, dirty>>
               /\ overruled' = overruled \cup (BetsIn(ledger[i]) \ BetsIn(won))
         /\ UNCHANGED <<chainVars, hydrating, replaced, callVars, consumed, forgotten, unheard, raced>>
    BY DEF Flush
<1> USE DEF BetInv, chainVars, callVars
<1>2. ledger[i] \in Entries /\ storedLedger \in Entries /\ won \in Entries
    BY <1>1 DEF BetTypeOK
<1>3. PICK m : m = merged(won)
    OBVIOUS
<1>4. /\ m \in Entries /\ m.keys = ledger[i].keys \cup storedLedger.keys /\ m.stakes = won.stakes
      /\ BetsIn(m) = BetsIn(won)
    BY <1>2, <1>3 DEF Entries, BetsIn
<1>5. /\ ledger'[i] = m /\ lastRead'[i] = storedLedger.keys
      /\ \A j \in Instances : j # i => ledger'[j] = ledger[j] /\ lastRead'[j] = lastRead[j]
      /\ storedLedger' \in {storedLedger, m}
      /\ i \notin dirty' => storedLedger' = m
      /\ \A j \in Instances : j # i => (j \in dirty <=> j \in dirty')
      /\ overruled \subseteq overruled'
    BY <1>1, <1>3 DEF BetTypeOK
<1>6. BetTypeOK'
    <2>1. ledger' \in [Instances -> Entries] /\ storedLedger' \in Entries /\ dirty' \subseteq Instances
        BY <1>1, <1>2, <1>3, <1>4 DEF BetTypeOK
    <2> QED
        BY <1>1, <2>1 DEF BetTypeOK
<1>7. /\ storedLedger.keys \subseteq storedLedger'.keys
      /\ BetsIn(storedLedger) \subseteq BetsIn(storedLedger') \cup overruled'
      /\ BetsIn(ledger[i]) \subseteq BetsIn(m) \cup overruled'
    <2>1. CASE storedLedger' = m /\ overruled' = overruled \cup (BetsIn(other) \ BetsIn(won))
        BY <1>1, <1>4, <2>1
    <2>2. CASE storedLedger' = storedLedger /\ overruled' = overruled \cup (BetsIn(ledger[i]) \ BetsIn(won))
        BY <1>4, <2>2
    <2> QED
        BY <1>1, <1>3, <2>1, <2>2
<1>8. \A e : (TrueEntry(e) => TrueEntry(e)') /\ (InStore(e) => InStore(e)')
    BY <1>1, <1>5, <1>7 DEF InStore, TrueEntry, BetsIn
<1>9. TrueEntry(m)
    <2>1. TrueEntry(won) /\ won.keys \subseteq m.keys
        BY <1>1, <1>4 DEF LedgersAreTrue
    <2> QED
        BY <1>4, <2>1 DEF TrueEntry
<1>10. LedgersAreTrue'
    <2>1. ASSUME NEW j \in Instances
          PROVE  /\ TrueEntry(ledger[j])'
                 /\ j \notin dirty' => InStore(ledger[j])'
                 /\ \A e \in hydrating'[j] : TrueEntry(e)' /\ InStore(e)'
                 /\ lastRead'[j] \subseteq ledger'[j].keys \cap storedLedger'.keys
        <3>1. CASE j = i
            <4>1. i \notin dirty' => InStore(m)'
                BY <1>5 DEF InStore
            <4> QED
                BY <1>1, <1>4, <1>5, <1>7, <1>8, <1>9, <3>1, <4>1 DEF LedgersAreTrue, TrueEntry, InStore, BetsIn
        <3>2. CASE j # i
            BY <1>1, <1>5, <1>7, <1>8, <3>2 DEF LedgersAreTrue, TrueEntry, InStore, BetsIn
        <3> QED
            BY <3>1, <3>2
    <2>2. TrueEntry(storedLedger)'
        BY <1>5, <1>8, <1>9 DEF LedgersAreTrue, TrueEntry, InStore, BetsIn
    <2> QED
        BY <2>1, <2>2 DEF LedgersAreTrue
<1>11. ASSUME NEW n \in Requests PROVE (Shown(n) => Shown(n)') /\ (KeyShown(n) => KeyShown(n)')
    BY <1>1, <1>5, <1>7 DEF Shown, KeyShown, BetsIn
<1>12. ASSUME NEW n \in Requests, NEW j \in Instances, BetHeld(n, j) PROVE BetHeld(n, j)'
    <2>1. CASE Shown(n) \/ j # i
        BY <1>5, <1>11, <1>12, <2>1 DEF BetHeld, BetsIn
    <2>2. CASE ~Shown(n) /\ j = i
        <3>1. SameBet(n) \cap (BetsIn(m) \cup overruled') # {}
            BY <1>7, <1>12, <2>2 DEF BetHeld
        <3> QED
            BY <1>5, <2>2, <3>1 DEF BetHeld, Shown, BetsIn
    <2> QED
        BY <2>1, <2>2
<1>13. ASSUME NEW n \in Requests, NEW j \in Instances, KeyHeld(n, j) PROVE KeyHeld(n, j)'
    <2>1. CASE KeyShown(n) \/ j # i
        BY <1>5, <1>11, <1>13, <2>1 DEF KeyHeld
    <2>2. CASE ~KeyShown(n) /\ j = i
        BY <1>4, <1>5, <1>13, <2>2 DEF KeyHeld
    <2> QED
        BY <2>1, <2>2
<1>14. ASSUME NEW n \in Requests, dedupeKey(n) # {}, dedupeKey(n) \subseteq m.keys
       PROVE  BetHeld(n, i)'
    <2>1. dedupeKey(n) \subseteq ledger[i].keys \/ dedupeKey(n) \subseteq storedLedger.keys
        BY <1>4, <1>14, KeyIsWhole
    <2>2. BetHeld(n, i)
        BY <1>14, <2>1 DEF KeysAreBets, BetHeld
    <2> QED
        BY <1>12, <2>2
<1>15. KeysAreBets'
    <2>1. ASSUME NEW n \in Requests, dedupeKey(n) # {}, dedupeKey(n) \subseteq storedLedger'.keys
          PROVE  Shown(n)'
        <3>1. CASE storedLedger' = storedLedger
            BY <1>11, <2>1, <3>1 DEF KeysAreBets
        <3>2. CASE storedLedger' = m
            BY <1>5, <1>14, <2>1, <3>2 DEF BetHeld, Shown, BetsIn
        <3> QED
            BY <1>5, <3>1, <3>2
    <2>2. ASSUME NEW n \in Requests, dedupeKey(n) # {}, NEW j \in Instances, dedupeKey(n) \subseteq ledger'[j].keys
          PROVE  BetHeld(n, j)'
        <3>1. CASE j = i
            BY <1>5, <1>14, <2>2, <3>1
        <3>2. CASE j # i
            BY <1>5, <1>12, <2>2, <3>2 DEF KeysAreBets
        <3> QED
            BY <3>1, <3>2
    <2> QED
        BY <2>1, <2>2 DEF KeysAreBets
<1> QED
    BY <1>1, <1>6, <1>10, <1>11, <1>12, <1>13, <1>15, WaitingKeepsInv

LEMMA RestartKeepsInv ==
    ASSUME BetInv, NEW i \in Instances, Restart(i)
    PROVE  BetInv'
<1> DEFINE dead == {r \in Requests : letIn[r] = {i} /\ pc[r] \in {"placing", "recorded", "missed"}}
<1> USE DEF BetInv, Restart, chainVars
<1>1. /\ \A n \in Requests : pc'[n] = IF n \in dead THEN "failed" ELSE pc[n]
      /\ \A n \in Requests, k \in Pollers : poll'[n][k] = IF AskedOf[k] = i THEN "idle" ELSE poll[n][k]
      /\ unheard' = unheard \cup dead
    OBVIOUS
<1>2. /\ ledger'[i] = Nothing /\ lastRead'[i] = {} /\ hydrating'[i] = {} /\ consumed'[i] = {}
      /\ \A j \in Instances : j # i => /\ ledger'[j] = ledger[j] /\ lastRead'[j] = lastRead[j]
                                       /\ hydrating'[j] = hydrating[j] /\ consumed'[j] = consumed[j]
      /\ dirty' = dirty \ {i}
    BY DEF BetTypeOK
<1>3. Nothing \in Entries /\ Nothing.keys = {} /\ BetsIn(Nothing) = {} /\ \A r \in Requests : Nothing.stakes[r] = 0
    BY DEF Nothing, Entries, BetsIn
<1>4. BetTypeOK'
    <2>1. pc' \in [Requests -> {"new", "placing", "recorded", "missed", "ticketed", "indexed", "unindexed", "failed", "expired"}]
          /\ poll' \in [Requests -> [Pollers -> {"idle", "confirmed", "recorded", "missed"}]]
        BY DEF BetTypeOK
    <2> QED
        BY <1>3, <2>1 DEF BetTypeOK
<1>5. \A n \in Requests : pc[n] \notin {"new", "placing"} => pc'[n] \notin {"new", "placing"}
    BY <1>1
<1>6. \A e : (TrueEntry(e) => TrueEntry(e)') /\ (InStore(e) => InStore(e)')
    BY <1>5 DEF TrueEntry, InStore, BetsIn
<1>7. TrueEntry(Nothing)' /\ InStore(Nothing)'
    BY <1>3, SameBetSameKey DEF TrueEntry, InStore, BetsIn
<1>8. LedgersAreTrue'
    <2>1. ASSUME NEW j \in Instances
          PROVE  /\ TrueEntry(ledger[j])'
                 /\ j \notin dirty' => InStore(ledger[j])'
                 /\ \A e \in hydrating'[j] : TrueEntry(e)' /\ InStore(e)'
                 /\ lastRead'[j] \subseteq ledger'[j].keys \cap storedLedger'.keys
        <3>1. CASE j = i
            BY <1>2, <1>3, <1>7, <3>1 DEF TrueEntry, InStore, BetsIn
        <3>2. CASE j # i
            BY <1>2, <1>6, <3>2 DEF LedgersAreTrue, TrueEntry, InStore, BetsIn
        <3> QED
            BY <3>1, <3>2
    <2>2. TrueEntry(storedLedger)'
        BY <1>6 DEF LedgersAreTrue
    <2> QED
        BY <2>1, <2>2 DEF LedgersAreTrue
<1>9. \A n \in Requests : /\ Shown(n)' <=> Shown(n)
                          /\ KeyShown(n)' <=> KeyShown(n)
                          /\ \A j \in Instances : j # i => (BetHeld(n, j)' <=> BetHeld(n, j)) /\ (KeyHeld(n, j)' <=> KeyHeld(n, j))
    BY <1>2 DEF Shown, KeyShown, BetHeld, KeyHeld, BetsIn
<1>10. KeysAreBets'
    <2>1. ASSUME NEW n \in Requests, dedupeKey(n) # {}, NEW j \in Instances, dedupeKey(n) \subseteq ledger'[j].keys
          PROVE  BetHeld(n, j)'
        <3>1. j # i
            BY <1>2, <1>3, <2>1
        <3> QED
            BY <1>2, <1>9, <2>1, <3>1 DEF KeysAreBets
    <2> QED
        BY <1>9, <2>1 DEF KeysAreBets
<1>11. StandingIsTrue'
    <2> SUFFICES ASSUME NEW n \in Requests
                 PROVE  /\ pc'[n] = "new" => tx'[n] = "none"
                        /\ pc'[n] # "new" => \E j \in Instances : letIn'[n] = {j}
                        /\ pc'[n] \in {"recorded", "missed", "indexed", "unindexed"} => tx'[n] = "executed"
                        /\ pc'[n] \in {"ticketed", "expired"} => Path[n] = "ticket"
                        /\ pc'[n] = "failed" => n \in unheard' \/ tx'[n] = "reverted"
                        /\ pc'[n] = "recorded" => \A j \in letIn'[n] : BetHeld(n, j)' /\ KeyHeld(n, j)'
                        /\ pc'[n] = "indexed" /\ n \notin unsaved' => Shown(n)' /\ KeyShown(n)'
                        /\ \A k \in Pollers :
                              /\ poll'[n][k] # "idle" => Path[n] = "ticket" /\ tx'[n] = "executed"
                                                         /\ pc'[n] \notin {"new", "placing"}
                              /\ poll'[n][k] = "recorded" => BetHeld(n, AskedOf[k])' /\ KeyHeld(n, AskedOf[k])'
        BY DEF StandingIsTrue
    <2>1. /\ pc'[n] = "new" => tx'[n] = "none"
          /\ pc'[n] # "new" => \E j \in Instances : letIn'[n] = {j}
          /\ pc'[n] \in {"recorded", "missed", "indexed", "unindexed"} => tx'[n] = "executed"
          /\ pc'[n] \in {"ticketed", "expired"} => Path[n] = "ticket"
          /\ pc'[n] = "failed" => n \in unheard' \/ tx'[n] = "reverted"
        BY <1>1 DEF StandingIsTrue
    <2>2. pc'[n] = "recorded" => \A j \in letIn'[n] : BetHeld(n, j)' /\ KeyHeld(n, j)'
        <3> SUFFICES ASSUME pc'[n] = "recorded", NEW j \in letIn[n] PROVE BetHeld(n, j)' /\ KeyHeld(n, j)'
            OBVIOUS
        <3>1. pc[n] = "recorded" /\ n \notin dead
            BY <1>1
        <3>2. letIn[n] # {i} /\ letIn[n] = {j} /\ j \in Instances
            BY <3>1 DEF StandingIsTrue, BetTypeOK
        <3> QED
            BY <1>9, <3>1, <3>2 DEF StandingIsTrue
    <2>3. pc'[n] = "indexed" /\ n \notin unsaved' => Shown(n)' /\ KeyShown(n)'
        BY <1>1, <1>9 DEF StandingIsTrue
    <2>4. ASSUME NEW k \in Pollers
          PROVE  /\ poll'[n][k] # "idle" => Path[n] = "ticket" /\ tx'[n] = "executed" /\ pc'[n] \notin {"new", "placing"}
                 /\ poll'[n][k] = "recorded" => BetHeld(n, AskedOf[k])' /\ KeyHeld(n, AskedOf[k])'
        <3>1. AskedOf[k] \in Instances
            BY PathAssumption
        <3> QED
            BY <1>1, <1>5, <1>9, <3>1 DEF StandingIsTrue
    <2> QED
        BY <2>1, <2>2, <2>3, <2>4
<1>12. PaymentsAreGuarded'
    <2>1. ASSUME NEW n \in Requests, Path[n] = "x402", n \notin forgotten',
                 pc'[n] \in {"recorded", "missed", "indexed", "unindexed"}, NEW j \in letIn[n]
          PROVE  PaymentOf[n] \in consumed'[j]
        <3>1. n \notin forgotten /\ letIn[n] # {i}
            BY <2>1
        <3>2. pc[n] = pc'[n]
            BY <1>1, <2>1
        <3>3. letIn[n] = {j} /\ j \in Instances
            BY <2>1, <3>2 DEF StandingIsTrue, BetTypeOK
        <3> QED
            BY <1>2, <2>1, <3>1, <3>2, <3>3 DEF PaymentsAreGuarded
    <2>2. unheard \subseteq unheard' /\ forgotten \subseteq forgotten'
        OBVIOUS
    <2> QED
        BY <2>1, <2>2 DEF PaymentsAreGuarded
<1> QED
    BY <1>4, <1>8, <1>10, <1>11, <1>12

LEMMA BetStepsKeepInv == BetInv /\ [BetNext]_betVars => BetInv'
<1> SUFFICES ASSUME BetInv, [BetNext]_betVars PROVE BetInv'
    OBVIOUS
<1>1. CASE UNCHANGED betVars
    <2>1. BetTypeOK'
        BY <1>1 DEF BetInv, BetTypeOK, betVars, chainVars, bookVars, callVars
    <2> QED
        BY <1>1, <2>1, AnsweringKeepsInv DEF betVars, callVars
<1>2. CASE BetNext
    BY <1>2, FailuresKeepInv, SubmitKeepsInv, ExecuteKeepsInv, PlacedKeepsInv, PollChainKeepsInv,
       PollIndexKeepsInv, AnswerKeepsInv, SettleKeepsInv, ReadStoreKeepsInv, HydrateKeepsInv, FlushKeepsInv,
       RestartKeepsInv DEF BetNext
<1> QED
    BY <1>1, <1>2

LEMMA BetInvariance == BetSpec => []BetInv
BY BetsStartClean, BetStepsKeepInv, PTL DEF BetSpec

-----------------------------------------------------------------------------
LEMMA BetInvBacks == BetInv => BoardsShowOnlyEscrows
<1> SUFFICES ASSUME BetInv, NEW book \in {storedLedger} \cup {ledger[i] : i \in Instances}, NEW r \in Requests
             PROVE  /\ book.stakes[r] > 0 => tx[r] = "executed"
                    /\ \A q, s \in SameBet(r) : book.stakes[q] + (IF q = s THEN 0 ELSE book.stakes[s]) <= 1
    BY DEF BoardsShowOnlyEscrows
<1> USE DEF BetInv
<1>1. TrueEntry(book) /\ book \in Entries
    BY DEF LedgersAreTrue, BetTypeOK
<1>2. ASSUME NEW q \in SameBet(r), NEW s \in SameBet(r)
      PROVE  book.stakes[q] + (IF q = s THEN 0 ELSE book.stakes[s]) <= 1
    <2>1. q \in Requests /\ s \in SameBet(q) /\ s \in Requests
        BY SameBetSameKey
    <2>2. /\ book.stakes[q] \in Nat /\ book.stakes[q] <= 1 /\ book.stakes[s] \in Nat /\ book.stakes[s] <= 1
          /\ q # s => book.stakes[q] = 0 \/ book.stakes[s] = 0
        BY <1>1, <2>1 DEF TrueEntry, Entries
    <2> QED
        BY <2>2
<1> QED
    BY <1>1, <1>2 DEF TrueEntry

LEMMA BetInvMissed == BetInv => MissedEscrowsAreKnown
<1> SUFFICES ASSUME BetInv, NEW r \in Requests
             PROVE  /\ pc[r] = "indexed" => tx[r] = "executed"
                    /\ tx[r] = "executed" /\ pc[r] = "failed" => r \in unheard
                    /\ tx[r] = "executed" /\ ~OnTheBoards(r) =>
                          \/ pc[r] \in {"placing", "recorded", "missed", "ticketed", "unindexed", "expired"}
                          \/ r \in unheard \cup unsaved
                          \/ SameBet(r) \cap (overruled \cup replaced) # {}
    BY DEF MissedEscrowsAreKnown
<1> QED
    BY DEF BetInv, BetTypeOK, StandingIsTrue, OnTheBoards, Shown

LEMMA BetInvOnePayment == BetInv => OnePaymentOneBet
<1> SUFFICES ASSUME BetInv PROVE OnePaymentOneBet
    OBVIOUS
<1> USE DEF BetInv
<1>1. \A r, s \in Requests :
         r # s /\ s \in SameBet(r) /\ tx[r] = "executed" /\ tx[s] = "executed" /\ letIn[r] = letIn[s]
             => {r, s} \cap (raced \cup unheard \cup forgotten) # {}
    BY DEF PaymentsAreGuarded
<1>2. \A r \in Requests :
         pc[r] = "indexed" /\ r \notin unsaved /\ SameBet(r) \cap replaced = {} => dedupeKey(r) \subseteq storedLedger.keys
    BY DEF StandingIsTrue, KeyShown
<1>3. \A i \in Instances : lastRead[i] \subseteq ledger[i].keys \cap storedLedger.keys
    BY DEF LedgersAreTrue
<1> QED
    BY <1>1, <1>2, <1>3 DEF OnePaymentOneBet

\* No ledger, stored or in memory, shows a stake without an executed escrow, or shows one
\* twice, whatever is recorded, flushed, merged, re-read and recycled in between.
THEOREM EscrowsBackTheBoards == BetSpec => []BoardsShowOnlyEscrows
BY BetInvBacks, BetInvariance, PTL

\* An escrow the store misses is one somebody still polls, was told was not indexed, or never
\* heard of; or its flush failed, a merge kept other pools, or a re-read replaced it unflushed.
THEOREM MissedEscrows == BetSpec => []MissedEscrowsAreKnown
BY BetInvMissed, BetInvariance, PTL

\* One payment settles one bet per instance, but for a request let in while another with the
\* payment was in flight, an escrow whose caller gave up on it, or an instance recycled in
\* between; and what guards it between instances, the store's keys, holds every bet told
\* indexed and is never forgotten by an instance that read it.
THEOREM OnePayment == BetSpec => []OnePaymentOneBet
BY BetInvOnePayment, BetInvariance, PTL

-----------------------------------------------------------------------------
CreationTypeOK ==
    /\ step \in [Attempts -> {"idle", "composed", "prepared", "refused", "creating", "created",
                              "conflict", "failed", "expired"}]
    /\ create \in [Attempts -> {"none", "submitted", "executed", "reverted"}]
    /\ DOMAIN seq = Attempts
    /\ DOMAIN bondsSpent = Hosts
    /\ mirrored \subseteq Attempts

\* An attempt that holds its bond: it is creating with it, or opened its market.
Busy(a) == step[a] \in {"creating", "created", "conflict"}

\* Where an attempt stands says what became of its transaction.
AttemptsStandTrue ==
    \A a \in Attempts :
        /\ step[a] \in {"idle", "composed"} => create[a] = "none"
        /\ step[a] \in {"prepared", "expired"} => BondBy[a] = NoBond
        /\ create[a] \in {"submitted", "executed"} =>
              Busy(a) \/ step[a] \in {"prepared", "expired"} \/ a \in silent
        /\ step[a] \in {"created", "conflict"} => a \in mirrored
        /\ a \in mirrored => step[a] = "created" /\ create[a] = "executed"

\* The chain holds a slug once.
SlugsAreUnique ==
    \A a, b \in Attempts : create[a] = "executed" /\ create[b] = "executed" /\ slug(a) = slug(b) => a = b

\* An attempt that holds its bond has it claimed, in the store once its market is open, and no
\* other attempt of the instance holds the same one.
BondsAreClaimed ==
    \A a \in Attempts : BondBy[a] # NoBond =>
        /\ Busy(a) => BondBy[a] \in bondsSpent[HostOf[a]]
        /\ step[a] \in {"created", "conflict"} => BondBy[a] \in bondsStored
        /\ \A b \in Attempts : SameBond(a, b) /\ HostOf[a] = HostOf[b] => ~(Busy(a) /\ Busy(b))

\* A bond spent in memory alone is one an attempt is creating with.
ClaimsAreInFlight ==
    \A h \in Hosts : \A b \in bondsSpent[h] \ bondsStored :
        \E a \in Attempts : BondBy[a] = b /\ HostOf[a] = h /\ step[a] = "creating"

CreationInv == CreationTypeOK /\ AttemptsStandTrue /\ SlugsAreUnique /\ BondsAreClaimed /\ ClaimsAreInFlight

LEMMA CreationStartsClean == CreationInit => CreationInv
BY DEF CreationInit, CreationInv, CreationTypeOK, AttemptsStandTrue, SlugsAreUnique, BondsAreClaimed,
   ClaimsAreInFlight, Busy

LEMMA CreationStutters == CreationInv /\ UNCHANGED creationVars => CreationInv'
BY DEF creationVars, CreationInv, CreationTypeOK, AttemptsStandTrue, SlugsAreUnique, BondsAreClaimed,
   ClaimsAreInFlight, Busy, slug

LEMMA ComposeKeepsInv ==
    ASSUME CreationInv, NEW a \in Attempts, composeForCreation(a)
    PROVE  CreationInv'
<1> USE HostsServe DEF CreationInv, composeForCreation
<1>1. /\ \A b \in Attempts : b # a => step'[b] = step[b] /\ seq'[b] = seq[b]
      /\ step[a] = "idle" /\ step'[a] = IF BondBy[a] = NoBond THEN "prepared" ELSE "composed"
      /\ \A h \in Hosts : bondsSpent'[h] = IF h = HostOf[a] THEN bondsSpent[h] \cup bondsStored ELSE bondsSpent[h]
    BY DEF CreationTypeOK
<1>2. CreationTypeOK'
    BY DEF CreationTypeOK
<1>3. AttemptsStandTrue'
    BY <1>1 DEF AttemptsStandTrue, Busy
<1>4. SlugsAreUnique'
    BY <1>1 DEF SlugsAreUnique, AttemptsStandTrue, slug
<1>5. \A b \in Attempts : Busy(b)' <=> Busy(b)
    BY <1>1 DEF Busy
<1>6. BondsAreClaimed'
    BY <1>1, <1>5 DEF BondsAreClaimed
<1>7. ClaimsAreInFlight'
    BY <1>1 DEF ClaimsAreInFlight
<1> QED
    BY <1>2, <1>3, <1>4, <1>6, <1>7

\* The check and the claim are one step: no other attempt of the instance holds the bond.
LEMMA ClaimBondKeepsInv ==
    ASSUME CreationInv, NEW a \in Attempts, ClaimBond(a)
    PROVE  CreationInv'
<1> USE HostsServe DEF CreationInv
<1>0. step[a] = "composed" /\ UNCHANGED <<seq, mirrored, others, bondsStored, silent>>
    BY DEF ClaimBond
<1>1. \A b \in Attempts : b # a => step'[b] = step[b] /\ create'[b] = create[b]
    BY DEF ClaimBond, CreationTypeOK
<1>2. CreationTypeOK'
    BY DEF ClaimBond, CreationTypeOK
<1>3. CASE BondIsSpent(a)
    <2>1. step'[a] = "refused" /\ UNCHANGED <<create, bondsSpent>>
        BY <1>3 DEF ClaimBond, CreationTypeOK
    <2>2. AttemptsStandTrue' /\ SlugsAreUnique'
        BY <1>0, <1>1, <2>1 DEF AttemptsStandTrue, SlugsAreUnique, slug, Busy
    <2>3. BondsAreClaimed'
        BY <1>0, <1>1, <2>1 DEF BondsAreClaimed, Busy
    <2>4. ClaimsAreInFlight'
        BY <1>0, <1>1, <2>1 DEF ClaimsAreInFlight
    <2> QED
        BY <1>2, <2>2, <2>3, <2>4
<1>4. CASE ~BondIsSpent(a)
    <2>1. /\ step'[a] = "creating" /\ create'[a] = "submitted"
          /\ \A h \in Hosts : bondsSpent'[h] = IF h = HostOf[a] THEN bondsSpent[h] \cup {BondBy[a]} ELSE bondsSpent[h]
        BY <1>4 DEF ClaimBond, CreationTypeOK
    <2>2. AttemptsStandTrue'
        BY <1>0, <1>1, <2>1 DEF AttemptsStandTrue, Busy
    <2>3. SlugsAreUnique'
        BY <1>0, <1>1, <2>1 DEF SlugsAreUnique, slug
    <2>4. \A b \in Attempts : b # a => (Busy(b)' <=> Busy(b))
        BY <1>1 DEF Busy
    <2>5. \A b \in Attempts : SameBond(a, b) /\ HostOf[a] = HostOf[b] => ~Busy(b)
        BY <1>4 DEF SameBond, BondsAreClaimed, BondIsSpent
    <2>6. \A b \in Attempts : SameBond(b, a) <=> SameBond(a, b)
        BY DEF SameBond
    <2>7. ASSUME NEW c \in Attempts, BondBy[c] # NoBond
          PROVE  /\ Busy(c)' => BondBy[c] \in bondsSpent'[HostOf[c]]
                 /\ step'[c] \in {"created", "conflict"} => BondBy[c] \in bondsStored'
        BY <1>0, <1>1, <2>1, <2>4, <2>7 DEF BondsAreClaimed
    <2>8. ASSUME NEW c \in Attempts, NEW b \in Attempts, SameBond(c, b), HostOf[c] = HostOf[b]
          PROVE  ~(Busy(c)' /\ Busy(b)')
        <3>1. c # b /\ BondBy[c] # NoBond
            BY <2>8 DEF SameBond
        <3> QED
            BY <2>4, <2>5, <2>6, <2>8, <3>1 DEF BondsAreClaimed
    <2>9. BondsAreClaimed'
        BY <2>7, <2>8 DEF BondsAreClaimed
    <2>10. ASSUME NEW h \in Hosts, NEW b \in bondsSpent'[h] \ bondsStored
           PROVE  \E c \in Attempts : BondBy[c] = b /\ HostOf[c] = h /\ step'[c] = "creating"
        <3>1. CASE h = HostOf[a] /\ b = BondBy[a]
            BY <2>1, <3>1
        <3>2. CASE ~(h = HostOf[a] /\ b = BondBy[a])
            <4>1. b \in bondsSpent[h] \ bondsStored
                BY <2>1, <2>10, <3>2
            <4>2. PICK c \in Attempts : BondBy[c] = b /\ HostOf[c] = h /\ step[c] = "creating"
                BY <4>1 DEF ClaimsAreInFlight
            <4> QED
                BY <1>0, <1>1, <4>2
        <3> QED
            BY <3>1, <3>2
    <2>11. ClaimsAreInFlight'
        BY <1>0, <2>10 DEF ClaimsAreInFlight
    <2> QED
        BY <1>2, <2>2, <2>3, <2>9, <2>11
<1> QED
    BY <1>3, <1>4

LEMMA ChainKeepsInv ==
    ASSUME CreationInv, NEW a \in Attempts, WalletSubmits(a) \/ ExecuteCreate(a)
    PROVE  CreationInv'
<1> USE DEF CreationInv
<1>0. /\ UNCHANGED <<step, seq, mirrored, others, bondsSpent, bondsStored, silent>>
      /\ \A b \in Attempts : b # a => create'[b] = create[b]
      /\ create[a] # "executed"
      /\ step[a] = "prepared" \/ create[a] = "submitted"
      /\ create'[a] \in {"submitted", "executed", "reverted"}
      /\ create'[a] = "submitted" => step[a] = "prepared"
      /\ create'[a] = "executed" => \A b \in Attempts : ~(create[b] = "executed" /\ slug(b) = slug(a))
    BY DEF WalletSubmits, ExecuteCreate, CreationTypeOK
<1>1. CreationTypeOK'
    BY DEF WalletSubmits, ExecuteCreate, CreationTypeOK
<1>2. AttemptsStandTrue'
    BY <1>0 DEF AttemptsStandTrue, Busy
<1>3. SlugsAreUnique'
    BY <1>0 DEF SlugsAreUnique, slug
<1>4. BondsAreClaimed' /\ ClaimsAreInFlight'
    BY <1>0 DEF BondsAreClaimed, ClaimsAreInFlight, Busy
<1> QED
    BY <1>1, <1>2, <1>3, <1>4

\* A market the chain opened has a slug the mirror does not list yet: it is registered.
LEMMA RegistersWhatOpened ==
    ASSUME CreationInv, NEW a \in Attempts, create[a] = "executed", a \notin mirrored
    PROVE  \A b \in mirrored : slug(b) # slug(a)
BY DEF CreationInv, CreationTypeOK, AttemptsStandTrue, SlugsAreUnique

LEMMA RegisterKeepsInv ==
    ASSUME CreationInv, NEW a \in Attempts, Created(a) \/ Finalize(a)
    PROVE  CreationInv'
<1> USE HostsServe DEF CreationInv
<1>0. /\ step[a] \in {"creating", "prepared"}
      /\ UNCHANGED <<seq, create, others, bondsSpent, silent>>
      /\ \A b \in Attempts : b # a => step'[b] = step[b]
    BY DEF Created, Finalize, registerComposedMarket, CreationTypeOK
<1>1. a \notin mirrored
    BY <1>0 DEF AttemptsStandTrue
<1>2. \/ create[a] = "reverted" /\ step'[a] = "failed" /\ step[a] = "prepared" /\ UNCHANGED mirrored
      \/ create[a] = "executed" /\ step'[a] = "created" /\ mirrored' = mirrored \cup {a}
    BY <1>1, RegistersWhatOpened DEF Created, Finalize, registerComposedMarket, CreationTypeOK
<1>3. bondsStored' = bondsStored \/ (step[a] = "creating" /\ bondsStored' = bondsStored \cup bondsSpent[HostOf[a]])
    BY DEF Created, Finalize
<1>4. step[a] = "creating" => bondsStored' = bondsStored \cup bondsSpent[HostOf[a]]
    BY DEF Created, Finalize
<1>5. CreationTypeOK'
    BY <1>0, <1>2 DEF Created, Finalize, registerComposedMarket, CreationTypeOK
<1>6. AttemptsStandTrue'
    BY <1>0, <1>2 DEF AttemptsStandTrue, Busy
<1>7. SlugsAreUnique'
    BY <1>0 DEF SlugsAreUnique, slug
<1>8. \A b \in Attempts : BondBy[b] # NoBond => (Busy(b)' => Busy(b))
    BY <1>0, <1>2 DEF Busy, AttemptsStandTrue
<1>9. BondsAreClaimed'
    <2>1. ASSUME NEW c \in Attempts, BondBy[c] # NoBond
          PROVE  /\ Busy(c)' => BondBy[c] \in bondsSpent'[HostOf[c]]
                 /\ step'[c] \in {"created", "conflict"} => BondBy[c] \in bondsStored'
        <3>1. Busy(c)' => BondBy[c] \in bondsSpent[HostOf[c]]
            BY <1>8, <2>1 DEF BondsAreClaimed
        <3>2. CASE c = a
            <4>1. step[a] = "creating"
                BY <1>0, <2>1, <3>2 DEF AttemptsStandTrue
            <4> QED
                BY <1>0, <1>4, <3>1, <3>2, <4>1 DEF Busy
        <3>3. CASE c # a
            BY <1>0, <1>3, <2>1, <3>1, <3>3 DEF BondsAreClaimed
        <3> QED
            BY <3>2, <3>3
    <2>2. ASSUME NEW c \in Attempts, NEW b \in Attempts, SameBond(c, b), HostOf[c] = HostOf[b]
          PROVE  ~(Busy(c)' /\ Busy(b)')
        <3>1. BondBy[c] # NoBond /\ BondBy[b] # NoBond
            BY <2>2 DEF SameBond
        <3> QED
            BY <1>8, <2>2, <3>1 DEF BondsAreClaimed
    <2> QED
        BY <2>1, <2>2 DEF BondsAreClaimed
<1>10. ClaimsAreInFlight'
    <2> SUFFICES ASSUME NEW h \in Hosts, NEW b \in bondsSpent[h] \ bondsStored'
                 PROVE  \E c \in Attempts : BondBy[c] = b /\ HostOf[c] = h /\ step'[c] = "creating"
        BY <1>0 DEF ClaimsAreInFlight
    <2>1. PICK c \in Attempts : BondBy[c] = b /\ HostOf[c] = h /\ step[c] = "creating"
        BY <1>3 DEF ClaimsAreInFlight
    <2>2. c # a
        BY <1>4, <2>1
    <2> QED
        BY <1>0, <2>1, <2>2
<1> QED
    BY <1>5, <1>6, <1>7, <1>9, <1>10

LEMMA CreateFailedKeepsInv ==
    ASSUME CreationInv, NEW a \in Attempts, CreateFailed(a)
    PROVE  CreationInv'
<1> USE HostsServe DEF CreationInv
<1>1. /\ step[a] = "creating" /\ step'[a] = "failed"
      /\ \A b \in Attempts : b # a => step'[b] = step[b]
      /\ \A h \in Hosts : bondsSpent'[h] = IF h = HostOf[a] THEN bondsSpent[h] \ {BondBy[a]} ELSE bondsSpent[h]
      /\ create[a] # "reverted" => a \in silent'
      /\ silent \subseteq silent'
      /\ UNCHANGED <<seq, create, mirrored, others, bondsStored>>
    BY DEF CreateFailed, CreationTypeOK
<1>2. CreationTypeOK'
    BY DEF CreateFailed, CreationTypeOK
<1>3. AttemptsStandTrue'
    BY <1>1 DEF AttemptsStandTrue, Busy
<1>4. SlugsAreUnique'
    BY <1>1 DEF SlugsAreUnique, slug
<1>5. \A b \in Attempts : Busy(b)' => Busy(b) /\ b # a
    BY <1>1 DEF Busy
<1>6. Busy(a)
    BY <1>1 DEF Busy
<1>7. ASSUME NEW c \in Attempts, BondBy[c] # NoBond, Busy(c)'
      PROVE  BondBy[c] \in bondsSpent'[HostOf[c]]
    <2>1. BondBy[c] \in bondsSpent[HostOf[c]] /\ ~(SameBond(c, a) /\ HostOf[c] = HostOf[a])
        BY <1>5, <1>6, <1>7 DEF BondsAreClaimed
    <2>2. HostOf[c] = HostOf[a] => BondBy[c] # BondBy[a]
        BY <1>5, <1>7, <2>1 DEF SameBond
    <2> QED
        BY <1>1, <2>1, <2>2
<1>8. ASSUME NEW c \in Attempts, BondBy[c] # NoBond
      PROVE  /\ step'[c] \in {"created", "conflict"} => BondBy[c] \in bondsStored'
             /\ \A b \in Attempts : SameBond(c, b) /\ HostOf[c] = HostOf[b] => ~(Busy(c)' /\ Busy(b)')
    BY <1>1, <1>5, <1>8 DEF BondsAreClaimed
<1>9. BondsAreClaimed'
    BY <1>7, <1>8 DEF BondsAreClaimed
<1>10. ClaimsAreInFlight'
    <2> SUFFICES ASSUME NEW h \in Hosts, NEW b \in bondsSpent'[h] \ bondsStored
                 PROVE  \E c \in Attempts : BondBy[c] = b /\ HostOf[c] = h /\ step'[c] = "creating"
        BY <1>1 DEF ClaimsAreInFlight
    <2>1. b \in bondsSpent[h] \ bondsStored /\ (h = HostOf[a] => b # BondBy[a])
        BY <1>1
    <2>2. PICK c \in Attempts : BondBy[c] = b /\ HostOf[c] = h /\ step[c] = "creating"
        BY <2>1 DEF ClaimsAreInFlight
    <2> QED
        BY <1>1, <2>1, <2>2
<1> QED
    BY <1>2, <1>3, <1>4, <1>9, <1>10

LEMMA InstancesKeepInv ==
    ASSUME CreationInv, NEW h \in Hosts, Snapshot(h) \/ HostRestarts(h)
    PROVE  CreationInv'
<1> USE HostsServe DEF CreationInv
<1>1. CASE Snapshot(h)
    <2> USE <1>1 DEF Snapshot
    <2>1. CreationTypeOK' /\ AttemptsStandTrue' /\ SlugsAreUnique'
        BY DEF CreationTypeOK, AttemptsStandTrue, SlugsAreUnique, Busy, slug
    <2>2. BondsAreClaimed'
        BY DEF BondsAreClaimed, Busy
    <2>3. ClaimsAreInFlight'
        BY DEF ClaimsAreInFlight
    <2> QED
        BY <2>1, <2>2, <2>3
<1>2. CASE HostRestarts(h)
    <2> USE <1>2 DEF HostRestarts
    <2>1. /\ \A a \in Attempts : step'[a] = IF HostOf[a] = h /\ step[a] \in {"composed", "creating"}
                                           THEN "failed" ELSE step[a]
          /\ \A i \in Hosts : bondsSpent'[i] = IF i = h THEN bondsStored ELSE bondsSpent[i]
          /\ \A a \in Attempts : HostOf[a] = h /\ step[a] = "creating" => a \in silent'
          /\ silent \subseteq silent'
        BY DEF CreationTypeOK
    <2>2. CreationTypeOK'
        BY DEF CreationTypeOK
    <2>3. AttemptsStandTrue'
        BY <2>1 DEF AttemptsStandTrue, Busy
    <2>4. SlugsAreUnique'
        BY DEF SlugsAreUnique, slug
    <2>5. \A a \in Attempts : Busy(a)' => Busy(a) /\ (HostOf[a] = h => step[a] \in {"created", "conflict"})
        BY <2>1 DEF Busy
    <2>6. BondsAreClaimed'
        BY <2>1, <2>5 DEF BondsAreClaimed
    <2>7. ClaimsAreInFlight'
        BY <2>1 DEF ClaimsAreInFlight
    <2> QED
        BY <2>2, <2>3, <2>4, <2>6, <2>7
<1> QED
    BY <1>1, <1>2

LEMMA QuietStepsKeepInv ==
    ASSUME CreationInv, EconomyCreates \/ \E a \in Attempts : CreationTicketExpires(a)
    PROVE  CreationInv'
<1> USE DEF CreationInv
<1>1. CASE EconomyCreates
    BY <1>1 DEF EconomyCreates, CreationTypeOK, AttemptsStandTrue, SlugsAreUnique, BondsAreClaimed,
       ClaimsAreInFlight, Busy, slug
<1>2. ASSUME NEW a \in Attempts, CreationTicketExpires(a) PROVE CreationInv'
    <2> USE <1>2 DEF CreationTicketExpires
    <2>1. /\ step[a] = "prepared" /\ step'[a] = "expired"
          /\ \A b \in Attempts : b # a => step'[b] = step[b]
        BY DEF CreationTypeOK
    <2>2. CreationTypeOK' /\ AttemptsStandTrue' /\ SlugsAreUnique'
        BY <2>1 DEF CreationTypeOK, AttemptsStandTrue, SlugsAreUnique, Busy, slug
    <2>3. BondsAreClaimed'
        BY <2>1 DEF BondsAreClaimed, Busy
    <2>4. ClaimsAreInFlight'
        BY <2>1 DEF ClaimsAreInFlight
    <2> QED
        BY <2>2, <2>3, <2>4
<1> QED
    BY <1>1, <1>2

LEMMA CreationStepsKeepInv == CreationInv /\ [CreationNext]_creationVars => CreationInv'
<1> SUFFICES ASSUME CreationInv, [CreationNext]_creationVars PROVE CreationInv'
    OBVIOUS
<1>1. CASE UNCHANGED creationVars
    BY <1>1, CreationStutters
<1>2. CASE CreationNext
    BY <1>2, ComposeKeepsInv, ClaimBondKeepsInv, ChainKeepsInv, RegisterKeepsInv, CreateFailedKeepsInv,
       InstancesKeepInv, QuietStepsKeepInv DEF CreationNext
<1> QED
    BY <1>1, <1>2

LEMMA CreationInvariance == CreationSpec => []CreationInv
BY CreationStartsClean, CreationStepsKeepInv, PTL DEF CreationSpec

LEMMA CreationInvBuysOne == CreationInv => BondBuysOneMarket
BY DEF CreationInv, BondBuysOneMarket, AttemptsStandTrue, BondsAreClaimed, ClaimsAreInFlight, SameBond

LEMMA CreationInvIsOnChain == CreationInv => CreatedMarketsAreOnChain
BY DEF CreationInv, CreationTypeOK, CreatedMarketsAreOnChain, AttemptsStandTrue, Busy

\* Two markets opened by one instance for one bond need a create whose fate its caller never
\* learnt, and a bond spent in memory alone is one a create is in flight with.
THEOREM OneBondOneMarket == CreationSpec => []BondBuysOneMarket
BY CreationInvariance, CreationInvBuysOne, PTL

\* The boards list what the chain opened, and miss of it only what somebody is still being
\* served, was never answered, or let expire.
THEOREM CreatedMarketsAreReal == CreationSpec => []CreatedMarketsAreOnChain
BY CreationInvariance, CreationInvIsOnChain, PTL

-----------------------------------------------------------------------------
\* The places of a list up to its k-th hold, for each n below their number, one with exactly n
\* of them before it.
LEMMA PlacesCount ==
    ASSUME NEW S \in SUBSET Nat
    PROVE  \A k \in Nat : /\ IsFiniteSet(S \cap (1 .. k))
                          /\ \A n \in Nat : n < Cardinality(S \cap (1 .. k)) =>
                                \E i \in S \cap (1 .. k) : Cardinality({j \in S \cap (1 .. k) : j < i}) = n
<1> DEFINE below == {ss \in Nat \X Nat : ss[1] < ss[2]}
           upTo(k) == S \cap (1 .. k)
           Counted(k) == \A n \in Nat : n < Cardinality(upTo(k)) =>
                             \E i \in upTo(k) : Cardinality({j \in upTo(k) : j < i}) = n
           Bad == {k \in Nat : ~Counted(k)}
<1>1. \A k \in Nat : IsFiniteSet(upTo(k))
    <2>1. \A k \in Nat : IsFiniteSet(1 .. k)
        BY FS_Interval
    <2> QED
        BY <2>1, FS_Intersection
<1>2. IsWellFoundedOn(below, Nat)
    BY NatLessThanWellFounded DEF OpToRel
<1>3. ASSUME NEW k \in Bad, \A i \in Bad : ~(<<i, k>> \in below) PROVE FALSE
    <2>1. k \in Nat /\ ~Counted(k)
        OBVIOUS
    <2>2. CASE k = 0
        <3>1. upTo(0) = {}
            OBVIOUS
        <3>2. Cardinality(upTo(0)) = 0
            BY <3>1, FS_EmptySet
        <3> QED
            BY <2>1, <2>2, <3>2
    <2>3. CASE k # 0
        <3>1. k - 1 \in Nat /\ <<k - 1, k>> \in below
            BY <2>1, <2>3
        <3>2. Counted(k - 1)
            BY <1>3, <3>1
        <3>3. k \notin S => upTo(k) = upTo(k - 1)
            BY <2>1, <3>1
        <3>4. CASE k \notin S
            <4> HIDE DEF upTo
            <4> QED
                BY <2>1, <3>2, <3>3, <3>4
        <3>5. CASE k \in S
            <4>1. upTo(k) = upTo(k - 1) \cup {k} /\ k \notin upTo(k - 1)
                BY <2>1, <3>1, <3>5
            <4>2. /\ IsFiniteSet(upTo(k - 1)) /\ Cardinality(upTo(k - 1)) \in Nat
                  /\ Cardinality(upTo(k)) = Cardinality(upTo(k - 1)) + 1
                BY <1>1, <3>1, <4>1, FS_AddElement, FS_CardinalityType, ZenonT(40)
            <4>3. \A i \in upTo(k - 1) : i \in Nat /\ i < k
                BY <2>1, <3>1
            <4>4. {j \in upTo(k) : j < k} = upTo(k - 1)
                BY <2>1, <4>1, <4>3
            <4>5. ASSUME NEW i \in upTo(k - 1) PROVE {j \in upTo(k) : j < i} = {j \in upTo(k - 1) : j < i}
                BY <2>1, <4>1, <4>3
            <4>6. k \in upTo(k) /\ upTo(k - 1) \subseteq upTo(k)
                BY <4>1
            <4> HIDE DEF upTo
            <4>7. ASSUME NEW n \in Nat, n < Cardinality(upTo(k))
                  PROVE  \E i \in upTo(k) : Cardinality({j \in upTo(k) : j < i}) = n
                <5>1. CASE n = Cardinality(upTo(k - 1))
                    BY <4>4, <4>6, <5>1
                <5>2. CASE n # Cardinality(upTo(k - 1))
                    <6>1. n < Cardinality(upTo(k - 1))
                        BY <4>2, <4>7, <5>2
                    <6>2. PICK i \in upTo(k - 1) : Cardinality({j \in upTo(k - 1) : j < i}) = n
                        BY <3>2, <6>1
                    <6>3. {j \in upTo(k) : j < i} = {j \in upTo(k - 1) : j < i}
                        BY <4>5
                    <6> QED
                        BY <4>6, <6>2, <6>3
                <5> QED
                    BY <5>1, <5>2
            <4> QED
                BY <2>1, <4>7
        <3> QED
            BY <3>4, <3>5
    <2> QED
        BY <2>2, <2>3
<1>4. Bad = {}
    <2>1. Bad \subseteq Nat
        OBVIOUS
    <2> HIDE DEF below, Bad
    <2>2. SUFFICES ASSUME Bad # {} PROVE FALSE
        OBVIOUS
    <2>3. PICK k \in Bad : \A i \in Bad : ~(<<i, k>> \in below)
        BY <1>2, <2>1, <2>2, WFMin
    <2> QED
        BY <1>3, <2>3
<1> QED
    BY <1>1, <1>4

\* The target of a round is an open market, off the quarantine.
LEMMA TargetIsOpen ==
    ASSUME NEW near, NEW n \in Nat, openMarkets(near) # {}
    PROVE  selectRoundTarget(openMarkets(near), n) \in Range(Board) \ quarantined
<1> DEFINE S == openMarkets(near)
<1>1. Len(Board) \in Nat /\ DOMAIN Board = 1 .. Len(Board)
    BY ListsAssumption
<1>2. S \in SUBSET Nat /\ S = S \cap (1 .. Len(Board))
    BY <1>1 DEF openMarkets
<1>3. \A i \in S : Board[i] \in Range(Board) \ quarantined
    BY DEF openMarkets, Range
<1> HIDE DEF S
<1>4. IsFiniteSet(S) /\ Cardinality(S) \in Nat \ {0}
    <2>1. IsFiniteSet(S)
        BY <1>1, <1>2, PlacesCount, ZenonT(40)
    <2> QED
        BY <2>1, FS_CardinalityType, FS_EmptySet DEF S
<1>5. n % Cardinality(S) \in Nat /\ n % Cardinality(S) < Cardinality(S)
    BY <1>4
<1>6. \E i \in S : Cardinality({j \in S : j < i}) = n % Cardinality(S)
    <2> HIDE <1>3
    <2>1. \A k \in Nat : \A m \in Nat : m < Cardinality(S \cap (1 .. k)) =>
              \E i \in S \cap (1 .. k) : Cardinality({j \in S \cap (1 .. k) : j < i}) = m
        BY <1>2, PlacesCount
    <2>2. \A m \in Nat : m < Cardinality(S) => \E i \in S : Cardinality({j \in S : j < i}) = m
        <3>1. \A m \in Nat : m < Cardinality(S \cap (1 .. Len(Board))) =>
                 \E i \in S \cap (1 .. Len(Board)) : Cardinality({j \in S \cap (1 .. Len(Board)) : j < i}) = m
            BY <1>1, <2>1
        <3> QED
            BY <1>2, <3>1
    <2> QED
        BY <1>5, <2>2
<1>7. (CHOOSE i \in S : Cardinality({j \in S : j < i}) = n % Cardinality(S)) \in S
    BY <1>6
<1>8. selectRoundTarget(S, n) = Board[CHOOSE i \in S : Cardinality({j \in S : j < i}) = n % Cardinality(S)]
    BY DEF selectRoundTarget
<1> QED
    BY <1>3, <1>7, <1>8 DEF S

-----------------------------------------------------------------------------
\* The turns of its budget a tick may no longer strand: none before it is let bet, all until then.
Consumed == CASE turn.stage = "let" -> 0
              [] turn.stage = "betting" -> PerTick - turn.left
              [] OTHER -> PerTick
PerLapse == TripThreshold - 1 + PerTick

TurnType == [stage : {"none", "started", "let", "betting"}, left : 0 .. PerTick, target : SUBSET Range(Board), seq : Nat]

FleetTypeOK ==
    /\ failures \in Nat /\ tripped \in BOOLEAN /\ quarantined \in SUBSET Range(Board) /\ counter \in Nat
    /\ storedBreaker[1] \in Nat /\ storedBreaker[2] \in BOOLEAN
    /\ storedBreaker[3] \in SUBSET Range(Board) /\ storedBreaker[4] \in Nat
    /\ turn \in TurnType
    /\ turn.stage # "betting" => turn.target = {}
    /\ turn.stage \in {"started", "let"} => turn.left = PerTick
    /\ strandedRun \in Nat /\ strandedOn \in [Range(Board) -> Nat] /\ lapses \in Nat

\* A breaker that is closed, or would be after a re-read, has seen fewer failures than trip it.
ClosedIsBelow ==
    /\ ~tripped => failures <= TripThreshold - 1
    /\ ~storedBreaker[2] => storedBreaker[1] <= TripThreshold - 1

\* What the fleet stranded is in the breaker's count, but for what each lapse cost; and a tick
\* adds no more than its turns to what a closed breaker lets pass.
RunIsCounted ==
    /\ strandedRun <= PerLapse * lapses + failures
    /\ strandedRun <= PerLapse * lapses + TripThreshold - 1 + Consumed

\* A market at large stranded nothing but before a lapse; a quarantined one one tick's worth more.
MarketsAreQuarantined ==
    \A m \in Range(Board) :
        strandedOn[m] <= PerTick * lapses
            + (IF m \notin quarantined THEN 0 ELSE IF m \in turn.target THEN Consumed ELSE PerTick)

FleetInv == FleetTypeOK /\ ClosedIsBelow /\ RunIsCounted /\ MarketsAreQuarantined

LEMMA FleetNumbers == PerTick \in Nat \ {0} /\ TripThreshold \in Nat \ {0} /\ PerTick * 0 = 0
                      /\ PerLapse \in Nat /\ PerLapse * 0 = 0 /\ PerLapse = TripThreshold - 1 + PerTick
BY FleetAssumption DEF PerLapse

LEMMA LapsesCount ==
    ASSUME NEW k \in Nat
    PROVE  /\ PerTick * k \in Nat /\ PerTick * (k + 1) = PerTick * k + PerTick
           /\ PerLapse * k \in Nat /\ PerLapse * (k + 1) = PerLapse * k + PerLapse
BY FleetNumbers

LEMMA ConsumedIsSmall == FleetTypeOK => Consumed \in 0 .. PerTick
BY FleetNumbers DEF FleetTypeOK, TurnType, Consumed

LEMMA NoTurnIsTyped == noTurn \in TurnType /\ noTurn.target = {} /\ noTurn.stage = "none"
BY FleetNumbers DEF noTurn, TurnType

LEMMA FleetStartsClean ==
    ASSUME failures = 0, tripped = FALSE, quarantined = {}, counter = 0, storedBreaker = <<0, FALSE, {}, 0>>,
           turn = noTurn, strandedRun = 0, strandedOn = [m \in Range(Board) |-> 0], lapses = 0
    PROVE  FleetInv
<1> USE FleetNumbers, NoTurnIsTyped
<1>1. /\ storedBreaker[1] = 0 /\ storedBreaker[2] = FALSE /\ storedBreaker[3] = {} /\ storedBreaker[4] = 0
    BY Zenon
<1>2. FleetTypeOK
    BY <1>1 DEF FleetTypeOK
<1>3. ClosedIsBelow
    BY <1>1 DEF ClosedIsBelow
<1>4. Consumed = PerTick
    BY DEF Consumed
<1>5. RunIsCounted
    BY <1>4 DEF RunIsCounted
<1>6. MarketsAreQuarantined
    BY DEF MarketsAreQuarantined
<1> QED
    BY <1>2, <1>3, <1>5, <1>6 DEF FleetInv

LEMMA FleetStutters ==
    ASSUME FleetInv, counter' \in Nat,
           UNCHANGED <<failures, tripped, quarantined, storedBreaker, turn, strandedRun, strandedOn, lapses>>
    PROVE  FleetInv'
BY DEF FleetInv, FleetTypeOK, ClosedIsBelow, RunIsCounted, MarketsAreQuarantined, Consumed

\* What the invariant bounds at its loosest.
LEMMA AtMostOneTickMore ==
    ASSUME FleetInv
    PROVE  /\ strandedRun <= PerLapse * lapses + PerLapse
           /\ \A m \in Range(Board) : strandedOn[m] <= PerTick * lapses + PerTick
<1> USE FleetNumbers DEF FleetInv
<1>1. PerTick * lapses \in Nat /\ PerLapse * lapses \in Nat /\ Consumed \in 0 .. PerTick
    BY LapsesCount, ConsumedIsSmall DEF FleetTypeOK
<1>2. strandedRun <= PerLapse * lapses + PerLapse
    BY <1>1 DEF RunIsCounted, FleetTypeOK
<1>3. ASSUME NEW m \in Range(Board) PROVE strandedOn[m] <= PerTick * lapses + PerTick
    BY <1>1 DEF MarketsAreQuarantined, FleetTypeOK
<1> QED
    BY <1>2, <1>3

\* A lapse pays for whatever was stranded before it.
LEMMA LapseKeepsInv ==
    ASSUME FleetInv, FleetTypeOK', ClosedIsBelow', lapses' = lapses + 1,
           strandedRun' <= PerLapse * lapses + PerLapse,
           \A m \in Range(Board) : strandedOn'[m] <= PerTick * lapses + PerTick
    PROVE  FleetInv'
<1> USE FleetNumbers
<1>1. lapses \in Nat
    BY DEF FleetInv, FleetTypeOK
<1>2. /\ PerLapse * lapses \in Nat /\ PerLapse * lapses' = PerLapse * lapses + PerLapse
      /\ PerTick * lapses \in Nat /\ PerTick * lapses' = PerTick * lapses + PerTick
    BY <1>1, LapsesCount
<1>3. Consumed' \in 0 .. PerTick
    BY DEF FleetTypeOK, TurnType, Consumed
<1>4. failures' \in Nat /\ strandedRun' \in Nat
    BY DEF FleetTypeOK
<1>5. RunIsCounted'
    BY <1>2, <1>3, <1>4 DEF RunIsCounted
<1>6. MarketsAreQuarantined'
    <2> SUFFICES ASSUME NEW m \in Range(Board)
                 PROVE  strandedOn'[m] <= PerTick * lapses'
                            + (IF m \notin quarantined' THEN 0 ELSE IF m \in turn'.target THEN Consumed' ELSE PerTick)
        BY DEF MarketsAreQuarantined
    <2>1. strandedOn'[m] \in Nat
        BY DEF FleetTypeOK
    <2> QED
        BY <1>2, <1>3, <2>1
<1> QED
    BY <1>5, <1>6 DEF FleetInv

\* The memory the store gives back is a memory.
LEMMA RestoredIsSound ==
    ASSUME FleetInv, storedBreaker' = storedBreaker, Restored
    PROVE  /\ failures' \in Nat /\ tripped' \in BOOLEAN /\ quarantined' \in SUBSET Range(Board) /\ counter' \in Nat
           /\ ClosedIsBelow'
BY Zenon DEF FleetInv, FleetTypeOK, ClosedIsBelow, Restored

\* A re-read, or a death between two agents' turns.
LEMMA ForgettingKeepsInv ==
    ASSUME FleetInv, storedBreaker' = storedBreaker, Restored, Lapse, turn' \in {turn, noTurn}, UNCHANGED losses
    PROVE  FleetInv'
<1> USE FleetNumbers, NoTurnIsTyped
<1>0. FleetTypeOK /\ strandedRun' = strandedRun /\ strandedOn' = strandedOn
    BY DEF FleetInv, losses
<1>1. /\ failures' \in Nat /\ tripped' \in BOOLEAN /\ quarantined' \in SUBSET Range(Board) /\ counter' \in Nat
      /\ ClosedIsBelow'
    BY RestoredIsSound
<1>2. lapses' \in Nat
    BY <1>0 DEF Lapse, FleetTypeOK
<1>3. FleetTypeOK'
    <2>1. turn' \in TurnType /\ (turn'.stage # "betting" => turn'.target = {})
           /\ (turn'.stage \in {"started", "let"} => turn'.left = PerTick)
        BY <1>0 DEF FleetTypeOK
    <2> QED
        BY <1>0, <1>1, <1>2, <2>1 DEF FleetTypeOK
<1>4. CASE Differs
    <2>1. lapses' = lapses + 1
        BY <1>4 DEF Lapse
    <2> QED
        BY <1>0, <1>1, <1>3, <2>1, AtMostOneTickMore, LapseKeepsInv
<1>5. CASE ~Differs
    <2>1. lapses' = lapses /\ failures' = failures /\ quarantined' = quarantined
        BY <1>5, Zenon DEF Lapse, Differs, Restored
    <2>2. PerLapse * lapses \in Nat /\ PerTick * lapses \in Nat /\ Consumed \in 0 .. PerTick /\ Consumed' \in {Consumed, PerTick}
        BY <1>0, LapsesCount, ConsumedIsSmall DEF FleetTypeOK, Consumed
    <2>3. RunIsCounted'
        <3>1. /\ strandedRun <= PerLapse * lapses + failures /\ strandedRun \in Nat /\ failures \in Nat
              /\ strandedRun <= PerLapse * lapses + TripThreshold - 1 + Consumed
            BY <1>0 DEF FleetInv, RunIsCounted, FleetTypeOK
        <3>2. /\ strandedRun' <= PerLapse * lapses' + failures'
              /\ strandedRun' <= PerLapse * lapses' + TripThreshold - 1 + Consumed'
            <4> HIDE DEF PerLapse
            <4> QED
                BY <1>0, <2>1, <2>2, <3>1
        <3> QED
            BY <3>2 DEF RunIsCounted
    <2>4. MarketsAreQuarantined'
        <3> SUFFICES ASSUME NEW m \in Range(Board)
                     PROVE  strandedOn[m] <= PerTick * lapses
                                + (IF m \notin quarantined THEN 0 ELSE IF m \in turn'.target THEN Consumed' ELSE PerTick)
            BY <1>0, <2>1 DEF MarketsAreQuarantined
        <3>1. strandedOn[m] \in Nat
            BY <1>0 DEF FleetTypeOK
        <3>2. strandedOn[m] <= PerTick * lapses
                  + (IF m \notin quarantined THEN 0 ELSE IF m \in turn.target THEN Consumed ELSE PerTick)
            BY DEF FleetInv, MarketsAreQuarantined
        <3>3. turn' = noTurn => m \notin turn'.target
            OBVIOUS
        <3>4. turn' = turn => Consumed' = Consumed
            BY DEF Consumed
        <3> QED
            BY <2>2, <3>1, <3>2, <3>3, <3>4
    <2> QED
        BY <1>1, <1>3, <2>3, <2>4 DEF FleetInv
<1> QED
    BY <1>4, <1>5

LEMMA StartTickKeepsInv ==
    ASSUME FleetInv, NEW read \in BOOLEAN, NEW reset \in BOOLEAN, NEW released, NEW fixed,
           StartTick(read, reset, released, fixed)
    PROVE  FleetInv'
<1> USE FleetNumbers, NoTurnIsTyped
<1> DEFINE seen == IF read THEN storedBreaker ELSE memory
           lapsed == read /\ Differs
           freed == released \cap seen[3]
<1>0. FleetTypeOK /\ ClosedIsBelow
    BY DEF FleetInv
<1>1. /\ memory[1] = failures /\ memory[2] = tripped /\ memory[3] = quarantined /\ memory[4] = counter
    BY Zenon DEF memory
<1>2. /\ seen[1] \in Nat /\ seen[2] \in BOOLEAN /\ seen[3] \in SUBSET Range(Board) /\ seen[4] \in Nat
      /\ ~seen[2] => seen[1] <= TripThreshold - 1
      /\ ~lapsed => seen[1] = failures /\ seen[3] = quarantined
    BY <1>0, <1>1, Zenon DEF FleetTypeOK, ClosedIsBelow, Differs
<1>3. /\ turn = noTurn /\ storedBreaker' = storedBreaker
      /\ failures' = IF reset THEN 0 ELSE seen[1]
      /\ tripped' = (~reset /\ seen[2])
      /\ quarantined' = seen[3] \ released /\ counter' = seen[4]
      /\ strandedRun' = IF reset THEN 0 ELSE strandedRun
      /\ strandedOn' = [m \in Range(Board) |-> IF m \in freed THEN 0 ELSE strandedOn[m]]
      /\ turn' = [stage |-> "started", left |-> PerTick, target |-> {}, seq |-> seen[4]]
    BY DEF StartTick
<1>4. lapses' = IF lapsed THEN lapses + 1 ELSE lapses
    BY DEF StartTick, Lapse
<1> HIDE DEF seen, lapsed
<1>5. FleetTypeOK'
    <2>1. turn' \in TurnType /\ turn'.target = {} /\ turn'.left = PerTick
        BY <1>2, <1>3 DEF TurnType
    <2>2. strandedRun' \in Nat /\ strandedOn' \in [Range(Board) -> Nat] /\ lapses' \in Nat
        BY <1>0, <1>3, <1>4 DEF FleetTypeOK
    <2>3. failures' \in Nat /\ tripped' \in BOOLEAN /\ quarantined' \in SUBSET Range(Board) /\ counter' \in Nat
        BY <1>2, <1>3
    <2> QED
        BY <1>0, <1>3, <2>1, <2>2, <2>3 DEF FleetTypeOK
<1>6. ClosedIsBelow'
    BY <1>0, <1>2, <1>3 DEF ClosedIsBelow
<1>7. /\ strandedRun' <= strandedRun /\ strandedRun \in Nat
      /\ \A m \in Range(Board) : strandedOn'[m] <= strandedOn[m] /\ strandedOn[m] \in Nat /\ strandedOn'[m] \in Nat
    BY <1>0, <1>3 DEF FleetTypeOK
<1>8. PerLapse * lapses \in Nat /\ PerTick * lapses \in Nat
    BY <1>0, LapsesCount DEF FleetTypeOK
<1>9. CASE lapsed
    <2>1. strandedRun' <= PerLapse * lapses + PerLapse
        BY <1>5, <1>7, <1>8, AtMostOneTickMore DEF FleetTypeOK
    <2>2. \A m \in Range(Board) : strandedOn'[m] <= PerTick * lapses + PerTick
        BY <1>7, <1>8, AtMostOneTickMore
    <2>3. lapses' = lapses + 1
        BY <1>4, <1>9
    <2> QED
        BY <1>5, <1>6, <2>1, <2>2, <2>3, LapseKeepsInv
<1>10. CASE ~lapsed
    <2>1. lapses' = lapses /\ Consumed = PerTick /\ Consumed' = PerTick /\ turn.target = {} /\ turn'.target = {}
        BY <1>3, <1>4, <1>10 DEF Consumed
    <2>2. RunIsCounted'
        <3>1. strandedRun <= PerLapse * lapses + failures /\ strandedRun <= PerLapse * lapses + TripThreshold - 1 + PerTick
            BY <2>1 DEF FleetInv, RunIsCounted
        <3> QED
            BY <1>2, <1>3, <1>7, <1>8, <1>10, <2>1, <3>1 DEF RunIsCounted
    <2>3. MarketsAreQuarantined'
        <3> SUFFICES ASSUME NEW m \in Range(Board)
                     PROVE  strandedOn'[m] <= PerTick * lapses + (IF m \notin quarantined' THEN 0 ELSE PerTick)
            BY <2>1 DEF MarketsAreQuarantined
        <3>1. strandedOn[m] <= PerTick * lapses + (IF m \notin quarantined THEN 0 ELSE PerTick)
            BY <2>1 DEF FleetInv, MarketsAreQuarantined
        <3>2. m \in quarantined /\ m \notin quarantined' => strandedOn'[m] = 0
            BY <1>2, <1>3, <1>10
        <3>3. m \in quarantined' => m \in quarantined
            BY <1>2, <1>3, <1>10
        <3> QED
            BY <1>7, <1>8, <3>1, <3>2, <3>3
    <2> QED
        BY <1>5, <1>6, <2>2, <2>3 DEF FleetInv
<1> QED
    BY <1>9, <1>10

\* A closed breaker lets the tick bet; the market it chooses is not quarantined.
LEMMA ChoosingKeepsInv ==
    ASSUME FleetInv, DecideBetting \/ \E near \in SUBSET Range(Board) : ChooseMarket(near)
    PROVE  FleetInv'
<1> USE FleetNumbers
<1>0. FleetTypeOK /\ ClosedIsBelow /\ RunIsCounted /\ MarketsAreQuarantined
    BY DEF FleetInv
<1>1. /\ turn.stage \in {"started", "let"} /\ turn.target = {}
      /\ UNCHANGED <<failures, tripped, quarantined, counter, storedBreaker, strandedRun, strandedOn, lapses>>
    BY <1>0 DEF DecideBetting, ChooseMarket, memory, losses, FleetTypeOK
<1>2. PerLapse * lapses \in Nat /\ PerTick * lapses \in Nat
    BY <1>0, LapsesCount DEF FleetTypeOK
<1>3. /\ turn' \in TurnType /\ (turn'.stage # "betting" => turn'.target = {})
      /\ turn'.stage \in {"started", "let"} => turn'.left = PerTick
      /\ \A m \in turn'.target : m \notin quarantined
      /\ Consumed' = PerTick \/ (turn.stage = "let" /\ Consumed' = 0) \/ (~tripped /\ Consumed' = 0)
    <2>0. turn \in TurnType /\ counter \in Nat /\ turn.seq \in Nat
        BY <1>0 DEF FleetTypeOK, TurnType
    <2>1. CASE DecideBetting
        <3>1. \/ turn' = [turn EXCEPT !.stage = "betting", !.left = 0]
              \/ ~tripped /\ turn' = [turn EXCEPT !.stage = "let"]
            BY <2>1 DEF DecideBetting, bettingHalted
        <3>2. CASE turn' = [turn EXCEPT !.stage = "betting", !.left = 0]
            <4>1. turn' = [stage |-> "betting", left |-> 0, target |-> {}, seq |-> turn.seq]
                BY <1>1, <2>0, <3>2 DEF TurnType
            <4>2. turn' \in TurnType /\ turn'.stage = "betting" /\ turn'.left = 0 /\ turn'.target = {}
                BY <2>0, <4>1 DEF TurnType
            <4> QED
                BY <4>2 DEF Consumed
        <3>3. CASE ~tripped /\ turn' = [turn EXCEPT !.stage = "let"]
            <4>1. turn' \in TurnType /\ turn'.stage = "let" /\ turn'.left = turn.left /\ turn'.target = {}
                BY <1>1, <2>0, <3>3 DEF TurnType
            <4>2. turn.left = PerTick
                BY <1>0, <1>1 DEF FleetTypeOK
            <4> QED
                BY <3>3, <4>1, <4>2 DEF Consumed
        <3> QED
            BY <3>1, <3>2, <3>3
    <2>2. ASSUME NEW near \in SUBSET Range(Board), ChooseMarket(near)
          PROVE  /\ turn' \in TurnType /\ turn'.stage = "betting"
                 /\ \A m \in turn'.target : m \notin quarantined
                 /\ Consumed' = PerTick \/ (turn.stage = "let" /\ Consumed' = 0)
        <3> DEFINE target == selectRoundTarget(openMarkets(near), turn.seq)
        <3>1. turn.stage = "let" /\ turn.left = PerTick
            BY <1>0, <2>2 DEF ChooseMarket, FleetTypeOK
        <3>2. CASE openMarkets(near) = {}
            <4>1. turn' = [turn EXCEPT !.stage = "betting", !.left = 0]
                BY <2>2, <3>2 DEF ChooseMarket
            <4>2. turn' = [stage |-> "betting", left |-> 0, target |-> {}, seq |-> turn.seq]
                BY <1>1, <2>0, <4>1 DEF TurnType
            <4>3. turn' \in TurnType /\ turn'.stage = "betting" /\ turn'.left = 0 /\ turn'.target = {}
                BY <2>0, <4>2 DEF TurnType
            <4> QED
                BY <4>3 DEF Consumed
        <3>3. CASE openMarkets(near) # {}
            <4>1. target \in Range(Board) \ quarantined
                BY <2>0, <3>3, TargetIsOpen
            <4>2. turn' = [turn EXCEPT !.stage = "betting", !.target = {target}]
                BY <2>2, <3>3 DEF ChooseMarket
            <4> HIDE DEF target
            <4>3. turn'.left = turn.left /\ turn'.stage = "betting" /\ turn'.target = {target} /\ turn' \in TurnType
                BY <2>0, <4>1, <4>2 DEF TurnType
            <4> QED
                BY <3>1, <4>1, <4>3 DEF Consumed
        <3> QED
            BY <3>2, <3>3
    <2> QED
        BY <2>1, <2>2
<1>4. FleetTypeOK' /\ ClosedIsBelow'
    BY <1>0, <1>1, <1>3 DEF FleetTypeOK, ClosedIsBelow
<1>5. RunIsCounted'
    <2>1. /\ strandedRun <= PerLapse * lapses + failures /\ strandedRun \in Nat /\ failures \in Nat
          /\ strandedRun <= PerLapse * lapses + TripThreshold - 1 + Consumed
          /\ ~tripped => failures <= TripThreshold - 1
          /\ turn.stage = "let" => Consumed = 0
          /\ turn.stage = "started" => Consumed = PerTick
        BY <1>0 DEF RunIsCounted, FleetTypeOK, ClosedIsBelow, Consumed
    <2>2. strandedRun <= PerLapse * lapses + TripThreshold - 1 + Consumed'
        <3> HIDE DEF PerLapse
        <3>1. CASE ~tripped /\ Consumed' = 0
            BY <1>2, <2>1, <3>1
        <3>2. CASE turn.stage = "let" /\ Consumed' = 0
            BY <1>2, <2>1, <3>2
        <3>3. CASE Consumed' = PerTick
            BY <1>1, <1>2, <2>1, <3>3
        <3> QED
            BY <1>3, <3>1, <3>2, <3>3
    <2> QED
        BY <1>1, <2>1, <2>2 DEF RunIsCounted
<1>6. MarketsAreQuarantined'
    <2> SUFFICES ASSUME NEW m \in Range(Board)
                 PROVE  strandedOn[m] <= PerTick * lapses
                            + (IF m \notin quarantined THEN 0 ELSE IF m \in turn'.target THEN Consumed' ELSE PerTick)
        BY <1>1 DEF MarketsAreQuarantined
    <2>1. strandedOn[m] <= PerTick * lapses + (IF m \notin quarantined THEN 0 ELSE PerTick)
        BY <1>0, <1>1 DEF MarketsAreQuarantined
    <2> QED
        BY <1>3, <2>1
<1> QED
    BY <1>4, <1>5, <1>6 DEF FleetInv

\* An agent's turn: it strands at most its own stake, and the breaker counts it.
LEMMA TurnsKeepInv ==
    ASSUME FleetInv, turn.stage = "betting", turn.left > 0, TurnOver,
           failures' \in Nat, tripped' \in BOOLEAN, quarantined \subseteq quarantined',
           quarantined' \in SUBSET Range(Board), counter' \in Nat, storedBreaker' = storedBreaker,
           strandedRun' \in Nat, lapses' = lapses, strandedOn' \in [Range(Board) -> Nat],
           \/ strandedRun' = 0 /\ failures' = 0 /\ ~tripped'
           \/ strandedRun' = strandedRun /\ failures' = failures /\ tripped' = tripped
           \/ /\ strandedRun' = strandedRun + 1 /\ failures' = failures + 1
              /\ tripped' = (tripped \/ failures + 1 >= TripThreshold),
           \A m \in Range(Board) : \/ strandedOn'[m] = strandedOn[m]
                                   \/ strandedOn'[m] = strandedOn[m] + 1 /\ m \in turn.target /\ m \in quarantined',
           \A m \in Range(Board) : m \in quarantined' \ quarantined => m \in turn.target
    PROVE  FleetInv'
<1> USE FleetNumbers
<1>0. FleetTypeOK /\ ClosedIsBelow /\ RunIsCounted /\ MarketsAreQuarantined
    BY DEF FleetInv
<1>1. PerTick * lapses \in Nat /\ PerLapse * lapses \in Nat
    BY <1>0, LapsesCount DEF FleetTypeOK
<1>2. /\ turn' \in TurnType /\ turn'.stage = "betting" /\ turn'.left = turn.left - 1 /\ turn'.target = turn.target
      /\ turn.left \in 0 .. PerTick
    BY <1>0 DEF TurnOver, FleetTypeOK, TurnType
<1>3. FleetTypeOK'
    BY <1>0, <1>2 DEF FleetTypeOK
<1>4. Consumed' = Consumed + 1 /\ Consumed \in Nat
    BY <1>2 DEF Consumed
<1>5. ClosedIsBelow'
    BY <1>0 DEF ClosedIsBelow, FleetTypeOK
<1>6. RunIsCounted'
    <2>1. /\ strandedRun \in Nat /\ failures \in Nat
          /\ strandedRun <= PerLapse * lapses + failures
          /\ strandedRun <= PerLapse * lapses + TripThreshold - 1 + Consumed
        BY <1>0 DEF RunIsCounted, FleetTypeOK
    <2>2. /\ strandedRun' <= PerLapse * lapses + failures'
          /\ strandedRun' <= PerLapse * lapses + TripThreshold - 1 + Consumed'
        <3> HIDE DEF PerLapse
        <3>1. CASE strandedRun' = 0 /\ failures' = 0
            BY <1>1, <1>4, <3>1
        <3>2. CASE strandedRun' = strandedRun /\ failures' = failures
            BY <1>1, <1>4, <2>1, <3>2
        <3>3. CASE strandedRun' = strandedRun + 1 /\ failures' = failures + 1
            BY <1>1, <1>4, <2>1, <3>3
        <3> QED
            BY <3>1, <3>2, <3>3, Zenon
    <2> QED
        BY <2>2 DEF RunIsCounted
<1>7. MarketsAreQuarantined'
    <2> SUFFICES ASSUME NEW m \in Range(Board)
                 PROVE  strandedOn'[m] <= PerTick * lapses
                            + (IF m \notin quarantined' THEN 0 ELSE IF m \in turn.target THEN Consumed + 1 ELSE PerTick)
        BY <1>2, <1>4 DEF MarketsAreQuarantined
    <2>1. strandedOn[m] \in Nat /\ strandedOn'[m] \in Nat
        BY <1>0 DEF FleetTypeOK
    <2>2. strandedOn[m] <= PerTick * lapses
               + (IF m \notin quarantined THEN 0 ELSE IF m \in turn.target THEN Consumed ELSE PerTick)
        BY <1>0 DEF MarketsAreQuarantined
    <2>3. m \in quarantined => m \in quarantined'
        OBVIOUS
    <2>4. m \in quarantined' /\ m \notin quarantined => m \in turn.target
        OBVIOUS
    <2>5. CASE m \notin quarantined'
        BY <1>1, <2>1, <2>2, <2>3, <2>5
    <2>6. CASE m \in quarantined' /\ m \in turn.target
        BY <1>1, <1>4, <2>1, <2>2, <2>6
    <2>7. CASE m \in quarantined' /\ m \notin turn.target
        BY <1>1, <2>1, <2>2, <2>4, <2>7
    <2> QED
        BY <2>5, <2>6, <2>7
<1> QED
    BY <1>3, <1>5, <1>6, <1>7 DEF FleetInv

LEMMA AgentsKeepInv ==
    ASSUME FleetInv, NEW p \in Names, SitsOut(p) \/ Places(p) \/ \E named \in BOOLEAN : DoesNotPlace(p, named)
    PROVE  FleetInv'
<1>0. FleetTypeOK
    BY DEF FleetInv
<1>1. CASE SitsOut(p)
    <2>1. /\ UNCHANGED <<failures, tripped, quarantined, counter, storedBreaker, strandedRun, strandedOn, lapses>>
          /\ turn.stage = "betting" /\ turn.left > 0 /\ TurnOver
        BY <1>1 DEF SitsOut, memory, losses, IsTurnOf
    <2> QED
        BY <1>0, <2>1, TurnsKeepInv DEF FleetTypeOK
<1>2. CASE Places(p)
    <2>1. /\ UNCHANGED <<quarantined, storedBreaker, strandedOn, lapses>>
          /\ turn.stage = "betting" /\ turn.left > 0 /\ TurnOver
          /\ failures' = 0 /\ tripped' = FALSE /\ strandedRun' = 0 /\ counter' = counter + 1
        BY <1>2 DEF Places, IsTurnOf
    <2>2. counter' \in Nat
        BY <1>0, <2>1 DEF FleetTypeOK
    <2> QED
        BY <1>0, <2>1, <2>2, TurnsKeepInv DEF FleetTypeOK
<1>3. ASSUME NEW named \in BOOLEAN, DoesNotPlace(p, named) PROVE FleetInv'
    <2> DEFINE faulty == IF named THEN turn.target ELSE {}
    <2>1. /\ UNCHANGED <<counter, storedBreaker, lapses>>
          /\ turn.stage = "betting" /\ turn.left > 0 /\ TurnOver
          /\ failures' = IF p \notin SelfSigned THEN failures + 1 ELSE failures
          /\ tripped' = (tripped \/ (p \notin SelfSigned /\ failures + 1 >= TripThreshold))
          /\ strandedRun' = IF p \notin SelfSigned THEN strandedRun + 1 ELSE strandedRun
          /\ strandedOn' = [m \in Range(Board) |-> IF p \notin SelfSigned /\ m \in turn.target \cap quarantined'
                                                   THEN strandedOn[m] + 1 ELSE strandedOn[m]]
          /\ quarantined' = quarantined \cup faulty
        BY <1>3 DEF DoesNotPlace, IsTurnOf
    <2>2. faulty \subseteq turn.target /\ turn.target \subseteq Range(Board)
        BY <1>0 DEF FleetTypeOK, TurnType
    <2> HIDE DEF faulty
    <2>3. /\ failures' \in Nat /\ strandedRun' \in Nat /\ strandedOn' \in [Range(Board) -> Nat]
          /\ quarantined' \in SUBSET Range(Board) /\ counter' \in Nat /\ tripped' \in BOOLEAN
        BY <1>0, <2>1, <2>2 DEF FleetTypeOK
    <2>4. \/ strandedRun' = strandedRun /\ failures' = failures /\ tripped' = tripped
          \/ /\ strandedRun' = strandedRun + 1 /\ failures' = failures + 1
             /\ tripped' = (tripped \/ failures + 1 >= TripThreshold)
        <3>1. CASE p \in SelfSigned
            BY <1>0, <2>1, <3>1 DEF FleetTypeOK
        <3>2. CASE p \notin SelfSigned
            BY <2>1, <3>2
        <3> QED
            BY <3>1, <3>2
    <2>5. /\ \A m \in Range(Board) : \/ strandedOn'[m] = strandedOn[m]
                                     \/ strandedOn'[m] = strandedOn[m] + 1 /\ m \in turn.target /\ m \in quarantined'
          /\ \A m \in Range(Board) : m \in quarantined' \ quarantined => m \in turn.target
          /\ quarantined \subseteq quarantined'
        BY <2>1, <2>2
    <2> QED
        BY <2>1, <2>3, <2>4, <2>5, TurnsKeepInv
<1> QED
    BY <1>1, <1>2, <1>3

LEMMA StoredIsSound ==
    ASSUME FleetInv, UNCHANGED <<failures, tripped, quarantined, lapses, strandedRun, strandedOn>>, counter' \in Nat,
           storedBreaker'[1] \in Nat, storedBreaker'[2] \in BOOLEAN,
           storedBreaker'[3] \in SUBSET Range(Board), storedBreaker'[4] \in Nat,
           ~storedBreaker'[2] => storedBreaker'[1] <= TripThreshold - 1,
           turn' = turn \/ (turn.stage = "betting" /\ turn.left = 0 /\ turn' = noTurn)
    PROVE  FleetInv'
<1> USE FleetNumbers, NoTurnIsTyped
<1>0. FleetTypeOK /\ ClosedIsBelow /\ RunIsCounted /\ MarketsAreQuarantined
    BY DEF FleetInv
<1>1. Consumed' = Consumed
    BY <1>0 DEF Consumed, FleetTypeOK, TurnType
<1>2. FleetTypeOK' /\ ClosedIsBelow'
    BY <1>0 DEF FleetTypeOK, ClosedIsBelow
<1>3. RunIsCounted'
    BY <1>0, <1>1 DEF RunIsCounted
<1>4. MarketsAreQuarantined'
    <2> SUFFICES ASSUME NEW m \in Range(Board)
                 PROVE  strandedOn[m] <= PerTick * lapses
                            + (IF m \notin quarantined THEN 0 ELSE IF m \in turn'.target THEN Consumed' ELSE PerTick)
        BY DEF MarketsAreQuarantined
    <2>1. strandedOn[m] <= PerTick * lapses
               + (IF m \notin quarantined THEN 0 ELSE IF m \in turn.target THEN Consumed ELSE PerTick)
        BY <1>0 DEF MarketsAreQuarantined
    <2>2. turn' = noTurn /\ turn.left = 0 /\ turn.stage = "betting" => Consumed = PerTick /\ m \notin turn'.target
        BY DEF Consumed
    <2> QED
        BY <1>1, <2>1, <2>2
<1> QED
    BY <1>2, <1>3, <1>4 DEF FleetInv

\* The breaker a flush stores is the memory's.
LEMMA StoringKeepsInv ==
    ASSUME FleetInv, UNCHANGED <<failures, tripped, quarantined, lapses, losses>>,
           counter' \in Nat, storedBreaker' \in {storedBreaker, memory'},
           turn' = turn \/ (turn.stage = "betting" /\ turn.left = 0 /\ turn' = noTurn)
    PROVE  FleetInv'
<1> USE FleetNumbers, NoTurnIsTyped
<1>0. FleetTypeOK /\ ClosedIsBelow /\ RunIsCounted /\ MarketsAreQuarantined /\ UNCHANGED <<strandedRun, strandedOn>>
    BY DEF FleetInv, losses
<1>1. CASE storedBreaker' = memory'
    <2>1. storedBreaker' = <<failures', tripped', quarantined', counter'>>
        BY <1>1 DEF memory
    <2>2. /\ storedBreaker'[1] = failures /\ storedBreaker'[2] = tripped
          /\ storedBreaker'[3] = quarantined /\ storedBreaker'[4] = counter'
        BY <2>1, Zenon
    <2> QED
        BY <1>0, <2>2, StoredIsSound DEF FleetTypeOK, ClosedIsBelow
<1>2. CASE storedBreaker' = storedBreaker
    BY <1>0, <1>2, StoredIsSound DEF FleetTypeOK, ClosedIsBelow
<1> QED
    BY <1>1, <1>2

LEMMA DyingInTurnKeepsInv ==
    ASSUME FleetInv, NEW p \in Names, DiesInTurn(p)
    PROVE  FleetInv'
<1> USE FleetNumbers, NoTurnIsTyped
<1>0. FleetTypeOK /\ RunIsCounted /\ MarketsAreQuarantined
    BY DEF FleetInv
<1>1. /\ turn.stage = "betting" /\ turn.left > 0 /\ turn' = noTurn
      /\ Restored /\ lapses' = lapses + 1 /\ storedBreaker' = storedBreaker
      /\ strandedRun' = strandedRun + 1
      /\ strandedOn' = [m \in Range(Board) |-> IF m \in turn.target \cap quarantined
                                               THEN strandedOn[m] + 1 ELSE strandedOn[m]]
    BY DEF DiesInTurn, IsTurnOf
<1>2. /\ failures' \in Nat /\ tripped' \in BOOLEAN /\ quarantined' \in SUBSET Range(Board) /\ counter' \in Nat
      /\ ClosedIsBelow'
    BY <1>1, RestoredIsSound
<1>3. FleetTypeOK'
    <2>1. lapses' \in Nat /\ strandedRun' \in Nat /\ strandedOn' \in [Range(Board) -> Nat]
        BY <1>0, <1>1 DEF FleetTypeOK
    <2> QED
        BY <1>0, <1>1, <1>2, <2>1 DEF FleetTypeOK
<1>4. /\ Consumed \in Nat /\ Consumed + 1 <= PerTick
      /\ PerLapse * lapses \in Nat /\ PerTick * lapses \in Nat
    BY <1>0, <1>1, LapsesCount DEF Consumed, FleetTypeOK, TurnType
<1>5. strandedRun' <= PerLapse * lapses + PerLapse
    <2>1. strandedRun <= PerLapse * lapses + TripThreshold - 1 + Consumed /\ strandedRun \in Nat
        BY <1>0 DEF RunIsCounted, FleetTypeOK
    <2> QED
        BY <1>1, <1>4, <2>1
<1>6. ASSUME NEW m \in Range(Board) PROVE strandedOn'[m] <= PerTick * lapses + PerTick
    <2>1. strandedOn[m] \in Nat
        BY <1>0 DEF FleetTypeOK
    <2>2. strandedOn[m] <= PerTick * lapses
               + (IF m \notin quarantined THEN 0 ELSE IF m \in turn.target THEN Consumed ELSE PerTick)
        BY <1>0 DEF MarketsAreQuarantined
    <2>3. strandedOn'[m] = IF m \in turn.target \cap quarantined THEN strandedOn[m] + 1 ELSE strandedOn[m]
        BY <1>1
    <2> QED
        BY <1>4, <2>1, <2>2, <2>3
<1> QED
    BY <1>1, <1>2, <1>3, <1>5, <1>6, LapseKeepsInv

LEMMA PlatformKeepsFleet ==
    ASSUME FleetInv,
           \/ \E logged \in Nat, lands \in BOOLEAN : EndTick(logged, lands)
           \/ FlushLands \/ Rereads \/ InstanceDies \/ Refill
    PROVE  FleetInv'
<1>0. counter \in Nat
    BY DEF FleetInv, FleetTypeOK
<1>1. ASSUME NEW logged \in Nat, NEW lands \in BOOLEAN, EndTick(logged, lands) PROVE FleetInv'
    <2>1. /\ UNCHANGED <<failures, tripped, quarantined, lapses, losses>> /\ counter' = counter + logged
          /\ storedBreaker' \in {storedBreaker, memory'}
          /\ turn.stage = "betting" /\ turn.left = 0 /\ turn' = noTurn
        BY <1>1 DEF EndTick
    <2>2. counter' \in Nat
        BY <1>0, <2>1
    <2> QED
        BY <2>1, <2>2, StoringKeepsInv
<1>2. CASE FlushLands
    <2>1. /\ UNCHANGED <<failures, tripped, quarantined, counter, lapses, losses, turn>>
          /\ storedBreaker' = memory /\ memory' = memory
        BY <1>2 DEF FlushLands, memory
    <2> QED
        BY <1>0, <2>1, StoringKeepsInv
<1>3. CASE Rereads
    BY <1>3, ForgettingKeepsInv DEF Rereads
<1>4. CASE InstanceDies
    BY <1>4, ForgettingKeepsInv DEF InstanceDies
<1>5. CASE Refill
    BY <1>0, <1>5, FleetStutters DEF Refill, memory, losses
<1> QED
    BY <1>1, <1>2, <1>3, <1>4, <1>5

LEMMA FleetStepsKeepInv == FleetInv /\ [FleetNext]_fleetVars => FleetInv'
<1> SUFFICES ASSUME FleetInv, [FleetNext]_fleetVars PROVE FleetInv'
    OBVIOUS
<1>1. CASE UNCHANGED fleetVars
    BY <1>1, FleetStutters DEF fleetVars, memory, losses, FleetInv, FleetTypeOK
<1>2. CASE FleetNext
    BY <1>2, StartTickKeepsInv, ChoosingKeepsInv, AgentsKeepInv, DyingInTurnKeepsInv, PlatformKeepsFleet DEF FleetNext
<1> QED
    BY <1>1, <1>2

LEMMA FleetInvariance == FleetSpec => []FleetInv
<1>1. FleetInit => FleetInv
    BY FleetStartsClean DEF FleetInit
<1> QED
    BY <1>1, FleetStepsKeepInv, PTL DEF FleetSpec

LEMMA FleetInvBounds == FleetInv => LossesAreBounded
<1> SUFFICES ASSUME FleetInv PROVE LossesAreBounded
    OBVIOUS
<1>1. /\ PerTick * (1 + lapses) = PerTick * lapses + PerTick
      /\ (TripThreshold - 1 + PerTick) * (1 + lapses) = PerLapse * lapses + PerLapse
    <2>1. lapses \in Nat /\ 1 + lapses = lapses + 1
        BY DEF FleetInv, FleetTypeOK
    <2>2. TripThreshold - 1 + PerTick = PerLapse
        BY DEF PerLapse
    <2> QED
        BY <2>1, <2>2, LapsesCount
<1> QED
    BY <1>1, AtMostOneTickMore DEF LossesAreBounded

\* Between two clearings of the breaker the ticks strand at most TripThreshold - 1 stakes and a
\* tick's worth, a market whose fault was named at most a tick's worth until its release, and as
\* much again for each time the instance forgot, in mid-tick or between ticks, what it had learnt:
\* for any fleet, any list of markets, any funding.
THEOREM FleetLossesAreBounded == FleetSpec => []LossesAreBounded
BY FleetInvariance, FleetInvBounds, PTL

-----------------------------------------------------------------------------
(***************************************************************************)
(* The deployment command                                                  *)
(***************************************************************************)

DriverNext ==
    \/ \E release \in {"v1", "v2"}, selection \in SUBSET Slugs : StartCatalogue(release, selection)
    \/ \E s \in Slugs : StartCreateV2(s)
    \/ StartVaultDeploy
    \/ StartFleetFund
    \/ \E s \in Slugs : NextSlug(s)
    \/ JobDone
    \/ DeployMarket
    \/ DeployVault
    \/ SetFactoryVault
    \/ CreateMarket
    \/ RegisterEntry
    \/ \E o \in SeedOutcomes : SeedOne(o)
    \/ \E a \in Agents : FundOne(a)
    \/ TxRefused
    \/ TxReverts
    \/ UNCHANGED driverVars

\* A command that makes markets in the vault.
Creates(j) == j.cmd \in {"v2", "create-v2"}

DriverTypes ==
    /\ treasury_motes \in Int
    /\ entry \in [Slugs -> {"none", "v1", "vault"}]
    /\ inVault \subseteq Slugs
    /\ seeded \in [Slugs -> [SeedOutcomes -> Nat]]
    /\ starved \in BOOLEAN

JobShape ==
    /\ job \in [cmd : {"none", "v1", "v2", "create-v2", "vault-deploy", "fleet-fund"}, todo : SUBSET Slugs,
                slug : Slugs \cup {Sample}, left : SUBSET (SeedOutcomes \cup Agents), budgeted : BOOLEAN,
                at : {"idle", "next", "install", "vault", "create", "register", "set_vault", "seed", "fund"}]
    /\ job.at = "idle" <=> job.cmd = "none"
    /\ job.at = "next" => job.cmd \in {"v1", "v2"}
    /\ job.at = "install" => job.cmd = "v1"
    /\ job.at = "create" => Creates(job)
    /\ job.at \in {"install", "create", "register", "seed"} =>
          job.slug \in Slugs /\ job.cmd \in {"v1", "v2", "create-v2"}
    /\ job.at = "seed" => job.left \subseteq SeedOutcomes /\ job.left # {}
    /\ job.at = "fund" => job.left \subseteq Agents /\ job.budgeted
    /\ job.cmd = "create-v2" => job.todo = {}

\* Where a job that makes a market in the vault stands is how far the market is.
JobMatchesChain ==
    /\ \A s \in Slugs \ inVault, o \in SeedOutcomes : seeded[s][o] = 0
    /\ job.at = "create" =>
          /\ job.slug \notin inVault
          /\ job.cmd = "v2" => entry[job.slug] = "none"
          /\ job.cmd = "create-v2" => job.slug \in repaired
    /\ job.at = "register" /\ Creates(job) =>
          /\ job.slug \in inVault /\ entry[job.slug] = "none"
          /\ \A o \in SeedOutcomes : seeded[job.slug][o] = 0
    /\ job.at = "seed" /\ Creates(job) =>
          /\ job.slug \in inVault /\ entry[job.slug] # "none"
          /\ \A o \in SeedOutcomes : seeded[job.slug][o] = IF o \in job.left THEN 0 ELSE 1

\* A half-made market in the vault is one a process died on, or the job's own.
HalfMade(s) == entry[s] = "none" \/ \E o \in SeedOutcomes : seeded[s][o] = 0
HalfMadeIsOwned ==
    \A s \in inVault : HalfMade(s) =>
        s \in stopped \/ (job.slug = s /\ job.at \in {"register", "seed"} /\ Creates(job))

MarketsInv == DriverTypes /\ JobShape /\ JobMatchesChain /\ HalfMadeIsOwned /\ NoTwins /\ SeededOnce

LEMMA DriverInitMarkets == DriverInit => MarketsInv
<1> SUFFICES ASSUME DriverInit PROVE MarketsInv
    OBVIOUS
<1> USE DEF DriverInit
<1>1. DriverTypes
    <2>1. treasury_motes \in Int
        BY PlanAssumption
    <2>2. seeded \in [Slugs -> [SeedOutcomes -> Nat]] /\ entry \in [Slugs -> {"none", "v1", "vault"}]
        OBVIOUS
    <2> QED
        BY <2>1, <2>2 DEF DriverTypes
<1>2. JobShape
    BY DEF JobShape, Idle, Creates
<1>3. JobMatchesChain
    BY DEF JobMatchesChain, Idle
<1> QED
    BY <1>1, <1>2, <1>3 DEF MarketsInv, HalfMadeIsOwned, NoTwins, SeededOnce

\* A job that begins, or goes on to a step at which it has nothing of a market in hand.
LEMMA JobMovesOn ==
    ASSUME MarketsInv, DriverTypes', JobShape', UNCHANGED <<entry, inVault, seeded>>,
           stopped \subseteq stopped', repaired \subseteq repaired',
           job.at \in {"register", "seed"} /\ Creates(job) => job.slug \in stopped',
           job'.at \notin {"register", "seed"} \/ ~Creates(job'),
           job'.at = "create" => /\ job'.slug \notin inVault
                                 /\ job'.cmd = "v2" => entry[job'.slug] = "none"
                                 /\ job'.cmd = "create-v2" => job'.slug \in repaired'
    PROVE  MarketsInv'
<1> USE DEF MarketsInv
<1>1. JobMatchesChain'
    BY DEF JobMatchesChain
<1>2. HalfMadeIsOwned'
    BY DEF HalfMadeIsOwned, HalfMade
<1>3. NoTwins' /\ SeededOnce'
    BY DEF NoTwins, SeededOnce
<1> QED
    BY <1>1, <1>2, <1>3

LEMMA BeginsKeepMarkets ==
    ASSUME MarketsInv,
           \/ \E release \in {"v1", "v2"}, selection \in SUBSET Slugs : StartCatalogue(release, selection)
           \/ \E s \in Slugs : StartCreateV2(s)
           \/ StartVaultDeploy \/ StartFleetFund
    PROVE  MarketsInv'
<1>0. job = Idle => ~(job.at \in {"register", "seed"})
    BY DEF Idle
<1>1. ASSUME NEW release \in {"v1", "v2"}, NEW selection \in SUBSET Slugs, StartCatalogue(release, selection)
      PROVE  MarketsInv'
    <2>0. job = Idle /\ UNCHANGED <<treasury_motes, entry, inVault, seeded, stopped, repaired, starved>>
        BY <1>1 DEF StartCatalogue, Begin
    <2>1. /\ job' = [cmd |-> release, todo |-> selection, slug |-> Sample, at |-> "next", left |-> {},
                     budgeted |-> treasury_motes >= recommended(release, Cardinality(selection))]
        BY <1>1 DEF StartCatalogue, Begin
    <2>2. JobShape' /\ job'.at = "next"
        BY <2>1 DEF JobShape, Creates
    <2>3. DriverTypes'
        BY <2>0 DEF MarketsInv, DriverTypes
    <2> QED
        BY <1>0, <2>0, <2>2, <2>3, JobMovesOn
<1>2. ASSUME NEW s \in Slugs, StartCreateV2(s) PROVE MarketsInv'
    <2>0. /\ job = Idle /\ UNCHANGED <<treasury_motes, entry, inVault, seeded, stopped, starved>>
          /\ repaired \subseteq repaired'
        BY <1>2 DEF StartCreateV2
    <2>1. \/ job' = Idle
          \/ /\ job' = [cmd |-> "create-v2", todo |-> {}, slug |-> s, at |-> "create", left |-> {},
                        budgeted |-> treasury_motes >= recommended("v2", 1)]
             /\ s \notin inVault /\ s \in repaired'
        BY <1>2 DEF StartCreateV2, Idle
    <2>2. CASE job' = Idle
        <3>1. JobShape' /\ job'.at = "idle"
            BY <2>2 DEF Idle, JobShape, Creates
        <3> QED
            BY <1>0, <2>0, <3>1, JobMovesOn DEF MarketsInv, DriverTypes
    <2>3. CASE job' # Idle
        <3>0. job' = [cmd |-> "create-v2", todo |-> {}, slug |-> s, at |-> "create", left |-> {},
                      budgeted |-> treasury_motes >= recommended("v2", 1)]
            BY <2>1, <2>3
        <3>1. JobShape' /\ job'.at = "create" /\ job'.slug = s /\ job'.cmd = "create-v2"
            BY <3>0 DEF JobShape, Creates
        <3>2. s \notin inVault /\ s \in repaired'
            BY <2>1, <2>3
        <3> QED
            BY <1>0, <2>0, <3>1, <3>2, JobMovesOn DEF MarketsInv, DriverTypes
    <2> QED
        BY <2>2, <2>3
<1>3. CASE StartVaultDeploy
    <2>0. job = Idle /\ UNCHANGED <<treasury_motes, entry, inVault, seeded, stopped, repaired, starved>>
        BY <1>3 DEF StartVaultDeploy, Begin
    <2>1. JobShape' /\ job'.at = "vault"
        BY <1>3 DEF StartVaultDeploy, Begin, JobShape, Creates
    <2> QED
        BY <1>0, <2>0, <2>1, JobMovesOn DEF MarketsInv, DriverTypes
<1>4. CASE StartFleetFund
    <2>0. job = Idle /\ UNCHANGED <<treasury_motes, entry, inVault, seeded, stopped, repaired, starved>>
        BY <1>4 DEF StartFleetFund, Begin
    <2>1. JobShape' /\ job'.at = "fund"
        BY <1>4 DEF StartFleetFund, Begin, JobShape, Creates
    <2> QED
        BY <1>0, <2>0, <2>1, JobMovesOn DEF MarketsInv, DriverTypes
<1> QED
    BY <1>1, <1>2, <1>3, <1>4

\* What a transaction costs is a whole number of motes, and no more than its limit.
LEMMA NetCosts ==
    ASSUME NEW l \in Nat, NEW u \in 0..l
    PROVE  net_cost(u, l) \in Nat /\ net_cost(u, l) <= l
<1>1. \A n \in Nat : (n * 25) \div 100 \in 0..n
    OBVIOUS
<1>2. l - u \in Nat
    OBVIOUS
<1> QED
    BY <1>1, <1>2 DEF net_cost

LEMMA SendsWhat ==
    ASSUME JobShape, Sending
    PROVE  /\ Sends.kind \in {"install", "create", "register", "bet", "transfer"}
           /\ Sends.value \in Nat
           /\ Used \in 0..GasLimit[Sends.kind] /\ GasLimit[Sends.kind] \in Nat
           /\ net_cost(Used, GasLimit[Sends.kind]) \in Nat
<1>1. /\ Sends.kind \in {"install", "create", "register", "bet", "transfer"} /\ Sends.value \in Nat
      /\ job.at = "create" => Sends.kind = "create"
    BY PlanAssumption DEF JobShape, Sending, Sends
<1>2. Used \in 0..GasLimit[Sends.kind] /\ GasLimit[Sends.kind] \in Nat
    BY <1>1, GasIsLimited DEF Used
<1> QED
    BY <1>1, <1>2, NetCosts

\* After a transaction the job goes on, or the process is gone and the slug is known.
LEMMA ExecutesDoes ==
    ASSUME MarketsInv, NEW j, Executes(j)
    PROVE  /\ treasury_motes' \in Int
           /\ \/ job' = j /\ stopped' = stopped
              \/ job' = Idle /\ stopped' = stopped \cup {job.slug}
BY SendsWhat DEF Executes, MarketsInv, DriverTypes

\* The process is gone, and whoever looks knows on which slug it died.
LEMMA ProcessEnds ==
    ASSUME MarketsInv, DriverTypes', UNCHANGED <<entry, inVault, seeded, repaired>>, job' = Idle,
           stopped \subseteq stopped', job.at \in {"register", "seed"} => job.slug \in stopped'
    PROVE  MarketsInv'
<1>1. JobShape' /\ job'.at = "idle"
    BY DEF JobShape, Idle, Creates
<1> QED
    BY <1>1, JobMovesOn

LEMMA LoopsKeepMarkets ==
    ASSUME MarketsInv, (\E s \in Slugs : NextSlug(s)) \/ JobDone
    PROVE  MarketsInv'
<1>0. JobShape /\ DriverTypes
    BY DEF MarketsInv
<1>1. ASSUME NEW s \in Slugs, NextSlug(s) PROVE MarketsInv'
    <2>1. /\ job.at = "next" /\ UNCHANGED <<treasury_motes, entry, inVault, seeded, stopped, repaired, starved>>
          /\ DriverTypes'
        BY <1>0, <1>1 DEF NextSlug, DriverTypes
    <2>2. CASE job' = Idle
        BY <2>1, <2>2, ProcessEnds
    <2>3. CASE job' = [job EXCEPT !.todo = @ \ {s}]
        <3>1. JobShape' /\ job'.at = "next"
            BY <1>0, <2>1, <2>3 DEF JobShape, Creates
        <3> QED
            BY <2>1, <3>1, JobMovesOn
    <2>4. CASE /\ job' = [job EXCEPT !.todo = @ \ {s}, !.slug = s, !.at = IF job.cmd = "v1" THEN "install" ELSE "create"]
               /\ job.cmd = "v2" => ~Skipped(s)
        <3>1. JobShape' /\ job'.at \in {"install", "create"}
            BY <1>0, <1>1, <2>1, <2>4 DEF JobShape, Creates
        <3>2. job'.at = "create" => job'.cmd = "v2" /\ job'.slug = s /\ s \notin inVault /\ entry[s] = "none"
            BY <1>0, <2>1, <2>4 DEF JobShape, Skipped
        <3> QED
            BY <2>1, <3>1, <3>2, JobMovesOn
    <2> QED
        BY <1>1, <2>2, <2>3, <2>4 DEF NextSlug
<1>2. CASE JobDone
    BY <1>0, <1>2, ProcessEnds DEF JobDone, DriverTypes
<1> QED
    BY <1>1, <1>2

\* Transactions that make no market in the vault, and those that make none at all.
LEMMA MarketGoesOn ==
    ASSUME JobShape, job.slug \in Slugs, job.cmd \in {"v1", "v2", "create-v2"},
           job' = Seeding \/ job' = [job EXCEPT !.at = "register"]
    PROVE  /\ JobShape' /\ job'.slug = job.slug /\ job'.cmd = job.cmd /\ job'.at \in {"register", "seed"}
           /\ job'.todo = job.todo /\ job'.budgeted = job.budgeted
           /\ job' = Seeding => job'.at = "seed" /\ job'.left = SeedOutcomes
           /\ job' # Seeding => job'.at = "register"
<1>1. job' = [job EXCEPT !.at = job'.at, !.left = job'.left] /\ job'.at \in {"register", "seed"}
    BY DEF JobShape, Seeding
<1>2. job' = Seeding => job'.at = "seed" /\ job'.left = SeedOutcomes
    BY DEF JobShape, Seeding
<1>3. job' # Seeding => job'.at = "register" /\ job'.left = job.left
    BY DEF JobShape
<1>4. /\ job'.slug = job.slug /\ job'.cmd = job.cmd /\ job'.todo = job.todo /\ job'.budgeted = job.budgeted
      /\ job' \in [cmd : {"none", "v1", "v2", "create-v2", "vault-deploy", "fleet-fund"}, todo : SUBSET Slugs,
                   slug : Slugs \cup {Sample}, left : SUBSET (SeedOutcomes \cup Agents), budgeted : BOOLEAN,
                   at : {"idle", "next", "install", "vault", "create", "register", "set_vault", "seed", "fund"}]
    BY <1>1, <1>2, <1>3 DEF JobShape
<1>5. JobShape'
    BY <1>1, <1>2, <1>3, <1>4, PlanAssumption DEF JobShape, Creates
<1> QED
    BY <1>1, <1>2, <1>3, <1>4, <1>5

LEMMA OthersKeepMarkets ==
    ASSUME MarketsInv, \/ DeployMarket \/ DeployVault \/ SetFactoryVault
                       \/ \E a \in Agents : FundOne(a)
                       \/ TxRefused \/ TxReverts
    PROVE  MarketsInv'
<1>0. JobShape /\ DriverTypes
    BY DEF MarketsInv
<1>1. CASE DeployMarket
    <2>0. job.at = "install" /\ UNCHANGED <<entry, inVault, seeded, repaired, starved>> /\ job.cmd = "v1"
        BY <1>0, <1>1 DEF DeployMarket, JobShape
    <2> DEFINE j == IF job.slug = Sample THEN Seeding ELSE [job EXCEPT !.at = "register"]
    <2>1. Executes(j)
        BY <1>1 DEF DeployMarket
    <2> HIDE DEF j
    <2>2. /\ DriverTypes'
          /\ \/ job' = j /\ stopped' = stopped
             \/ job' = Idle /\ stopped' = stopped \cup {job.slug}
        BY <1>0, <2>0, <2>1, ExecutesDoes DEF DriverTypes
    <2>3. CASE job' = j /\ stopped' = stopped
        <3>1. j = Seeding \/ j = [job EXCEPT !.at = "register"]
            BY DEF j
        <3>2. JobShape' /\ job'.at \in {"register", "seed"} /\ ~Creates(job')
            <4>1. job.slug \in Slugs
                BY <1>0, <2>0 DEF JobShape
            <4> QED
                BY <1>0, <2>0, <2>3, <3>1, <4>1, MarketGoesOn DEF Creates
        <3> QED
            BY <2>0, <2>2, <2>3, <3>2, JobMovesOn
    <2> QED
        BY <2>0, <2>2, <2>3, ProcessEnds
<1>2. CASE DeployVault
    <2>0. job.at = "vault" /\ UNCHANGED <<entry, inVault, seeded, repaired, starved>>
        BY <1>2 DEF DeployVault
    <2>1. Executes([job EXCEPT !.at = "set_vault"])
        BY <1>2 DEF DeployVault
    <2>2. /\ DriverTypes'
          /\ \/ job' = [job EXCEPT !.at = "set_vault"] /\ stopped' = stopped
             \/ job' = Idle /\ stopped' = stopped \cup {job.slug}
        BY <1>0, <2>0, <2>1, ExecutesDoes DEF DriverTypes
    <2>3. CASE job' = [job EXCEPT !.at = "set_vault"] /\ stopped' = stopped
        <3>1. JobShape' /\ job'.at = "set_vault"
            BY <1>0, <2>0, <2>3 DEF JobShape, Creates
        <3> QED
            BY <2>0, <2>2, <2>3, <3>1, JobMovesOn
    <2> QED
        BY <2>0, <2>2, <2>3, ProcessEnds
<1>3. CASE SetFactoryVault
    <2>0. job.at = "set_vault" /\ UNCHANGED <<entry, inVault, seeded, repaired, starved>> /\ Executes(Idle)
        BY <1>3 DEF SetFactoryVault
    <2>1. DriverTypes' /\ job' = Idle /\ stopped \subseteq stopped'
        BY <1>0, <2>0, ExecutesDoes DEF DriverTypes
    <2> QED
        BY <2>0, <2>1, ProcessEnds
<1>4. ASSUME NEW a \in Agents, FundOne(a) PROVE MarketsInv'
    <2>0. job.at = "fund" /\ UNCHANGED <<entry, inVault, seeded, repaired, stopped>>
        BY <1>4 DEF FundOne
    <2>1. DriverTypes'
        <3>1. GasLimit["transfer"] \in Nat /\ Refuel \in Nat
            BY GasIsLimited, PlanAssumption
        <3>2. \/ treasury_motes' = treasury_motes - GasLimit["transfer"] - Refuel /\ starved' = starved
              \/ starved' = TRUE /\ treasury_motes' = treasury_motes
            BY <1>4, Zenon DEF FundOne
        <3>3. treasury_motes' \in Int /\ starved' \in BOOLEAN
            <4>1. treasury_motes \in Int /\ starved \in BOOLEAN
                BY <1>0 DEF DriverTypes
            <4>2. treasury_motes - GasLimit["transfer"] - Refuel \in Int
                BY <3>1, <4>1
            <4> QED
                BY <3>2, <4>1, <4>2
        <3> QED
            BY <1>0, <2>0, <3>3 DEF DriverTypes
    <2>2. job' = Idle \/ job' = [job EXCEPT !.left = @ \ {a}]
        BY <1>4 DEF FundOne
    <2>3. CASE job' = [job EXCEPT !.left = @ \ {a}]
        <3>1. JobShape' /\ job'.at = "fund"
            BY <1>0, <2>0, <2>3 DEF JobShape, Creates
        <3> QED
            BY <2>0, <2>1, <3>1, JobMovesOn
    <2> QED
        BY <2>0, <2>1, <2>2, <2>3, ProcessEnds
<1>5. CASE TxRefused
    <2>1. /\ job' = Idle /\ stopped' = stopped \cup {job.slug}
          /\ UNCHANGED <<treasury_motes, entry, inVault, seeded, repaired>>
          /\ starved' = (starved \/ job.budgeted)
        BY <1>5 DEF TxRefused
    <2>2. DriverTypes'
        BY <1>0, <2>1 DEF DriverTypes
    <2> QED
        BY <2>1, <2>2, ProcessEnds
<1>6. CASE TxReverts
    <2>1. /\ job' = Idle /\ UNCHANGED <<entry, inVault, seeded, repaired, starved>>
          /\ stopped \subseteq stopped'
          /\ job.at \in {"register", "seed"} => job.slug \in stopped'
        BY <1>6 DEF TxReverts
    <2>2. treasury_motes' \in Int
        BY <1>0, <1>6, SendsWhat DEF TxReverts, DriverTypes
    <2>3. DriverTypes'
        BY <1>0, <2>1, <2>2 DEF DriverTypes
    <2> QED
        BY <2>1, <2>3, ProcessEnds
<1> QED
    BY <1>1, <1>2, <1>3, <1>4, <1>5, <1>6

LEMMA CreateKeepsMarkets ==
    ASSUME MarketsInv, CreateMarket
    PROVE  MarketsInv'
<1>0. JobShape /\ DriverTypes /\ JobMatchesChain /\ HalfMadeIsOwned /\ NoTwins /\ SeededOnce
    BY DEF MarketsInv
<1>1. /\ job.at = "create" /\ inVault' = inVault \cup {job.slug} /\ UNCHANGED <<entry, seeded, repaired, starved>>
      /\ job.slug \in Slugs \ inVault /\ Creates(job)
      /\ entry[job.slug] # "none" => job.slug \in repaired
    BY <1>0 DEF CreateMarket, JobShape, JobMatchesChain, Creates
<1>2. \A o \in SeedOutcomes : seeded[job.slug][o] = 0
    BY <1>0, <1>1 DEF JobMatchesChain
<1> DEFINE j == IF entry[job.slug] # "none" THEN Seeding ELSE [job EXCEPT !.at = "register"]
<1>3. Executes(j)
    BY DEF CreateMarket
<1>4. \/ j = Seeding /\ entry[job.slug] # "none"
      \/ j = [job EXCEPT !.at = "register"] /\ entry[job.slug] = "none"
    OBVIOUS
<1> HIDE DEF j
<1>5. /\ treasury_motes' \in Int
      /\ \/ job' = j /\ stopped' = stopped
         \/ job' = Idle /\ stopped' = stopped \cup {job.slug}
    BY <1>3, ExecutesDoes
<1>6. JobShape'
    <2>1. CASE job' = Idle
        BY <2>1 DEF JobShape, Idle, Creates
    <2>2. CASE job' = j
        BY <1>0, <1>1, <1>4, <2>2, MarketGoesOn DEF Creates
    <2> QED
        BY <1>5, <2>1, <2>2
<1>7. DriverTypes'
    BY <1>0, <1>1, <1>5 DEF DriverTypes
<1>8. JobMatchesChain'
    <2>1. \A s \in Slugs \ inVault', o \in SeedOutcomes : seeded'[s][o] = 0
        BY <1>0, <1>1 DEF JobMatchesChain
    <2>2. CASE job' = Idle
        BY <2>1, <2>2 DEF JobMatchesChain, Idle
    <2>3. CASE job' = j /\ j = Seeding /\ entry[job.slug] # "none"
        <3>1. job'.at = "seed" /\ job'.slug = job.slug /\ job'.left = SeedOutcomes
            BY <1>0, <2>3 DEF Seeding, JobShape
        <3> QED
            BY <1>1, <1>2, <2>1, <2>3, <3>1 DEF JobMatchesChain
    <2>4. CASE job' = j /\ j = [job EXCEPT !.at = "register"] /\ entry[job.slug] = "none"
        <3>1. job'.at = "register" /\ job'.slug = job.slug
            BY <1>0, <2>4 DEF JobShape
        <3> QED
            BY <1>1, <1>2, <2>1, <2>4, <3>1 DEF JobMatchesChain
    <2> QED
        BY <1>4, <1>5, <2>2, <2>3, <2>4
<1>9. job.slug \in stopped' \/ (job'.slug = job.slug /\ job'.at \in {"register", "seed"} /\ Creates(job'))
    <2>1. CASE job' = j
        BY <1>0, <1>1, <1>4, <2>1, MarketGoesOn DEF Creates
    <2> QED
        BY <1>5, <2>1
<1>10. HalfMadeIsOwned'
    BY <1>0, <1>1, <1>5, <1>9 DEF HalfMadeIsOwned, HalfMade
<1>11. NoTwins' /\ SeededOnce'
    BY <1>0, <1>1, <1>5 DEF NoTwins, SeededOnce
<1> QED
    BY <1>6, <1>7, <1>8, <1>10, <1>11 DEF MarketsInv

LEMMA RegisterKeepsMarkets ==
    ASSUME MarketsInv, RegisterEntry
    PROVE  MarketsInv'
<1>0. JobShape /\ DriverTypes /\ JobMatchesChain /\ HalfMadeIsOwned /\ NoTwins /\ SeededOnce
    BY DEF MarketsInv
<1>1. /\ job.at = "register" /\ UNCHANGED <<inVault, seeded, repaired, starved>> /\ Executes(Seeding)
      /\ entry[job.slug] = "none" /\ job.slug \in Slugs
      /\ entry' = [entry EXCEPT ![job.slug] = IF job.cmd = "v1" THEN "v1" ELSE "vault"]
    BY <1>0 DEF RegisterEntry, JobShape
<1>2. /\ treasury_motes' \in Int
      /\ \/ job' = Seeding /\ stopped' = stopped
         \/ job' = Idle /\ stopped' = stopped \cup {job.slug}
    BY <1>1, ExecutesDoes
<1>3. JobShape'
    <2>1. CASE job' = Idle
        BY <2>1 DEF JobShape, Idle, Creates
    <2>2. CASE job' = Seeding
        <3>1. job.cmd \in {"v1", "v2", "create-v2"}
            BY <1>0, <1>1 DEF JobShape
        <3> QED
            BY <1>0, <1>1, <2>2, <3>1, MarketGoesOn
    <2> QED
        BY <1>2, <2>1, <2>2
<1>4. DriverTypes'
    BY <1>0, <1>1, <1>2 DEF DriverTypes
<1>5. job' = Seeding => /\ job'.at = "seed" /\ job'.slug = job.slug /\ job'.left = SeedOutcomes
                        /\ job'.cmd = job.cmd
    BY <1>0 DEF Seeding, JobShape
<1>6. /\ \A s \in Slugs : s # job.slug => entry'[s] = entry[s]
      /\ entry'[job.slug] = (IF job.cmd = "v1" THEN "v1" ELSE "vault") /\ entry'[job.slug] # "none"
    BY <1>0, <1>1 DEF DriverTypes
\* A v1 entry for a slug the vault has: the vault's market is one a process died on.
<1>7. job.slug \in inVault /\ ~Creates(job) => job.slug \in stopped
    BY <1>0, <1>1 DEF HalfMadeIsOwned, HalfMade
<1>8. JobMatchesChain'
    <2>1. CASE job' = Idle
        BY <1>0, <1>1, <2>1 DEF JobMatchesChain, Idle
    <2>2. CASE job' = Seeding
        BY <1>0, <1>1, <1>5, <1>6, <2>2 DEF JobMatchesChain, Creates
    <2> QED
        BY <1>2, <2>1, <2>2
<1>9. job.slug \in inVault => \/ job.slug \in stopped'
                              \/ job'.slug = job.slug /\ job'.at = "seed" /\ Creates(job')
    <2>1. CASE stopped' = stopped \cup {job.slug}
        BY <2>1
    <2>2. CASE job' = Seeding /\ stopped' = stopped
        BY <1>5, <1>7, <2>2 DEF Creates
    <2> QED
        BY <1>2, <2>1, <2>2
<1>10. HalfMadeIsOwned'
    <2> SUFFICES ASSUME NEW s \in inVault', HalfMade(s)'
                 PROVE  s \in stopped' \/ (job'.slug = s /\ job'.at \in {"register", "seed"} /\ Creates(job'))
        BY Zenon DEF HalfMadeIsOwned
    <2>1. s \in inVault /\ s \in Slugs
        BY <1>0, <1>1 DEF DriverTypes
    <2>2. CASE s = job.slug
        BY <1>9, <2>1, <2>2
    <2>3. CASE s # job.slug
        <3>1. HalfMade(s)
            BY <1>1, <1>6, <2>1, <2>3 DEF HalfMade
        <3>2. s \in stopped
            BY <1>0, <2>1, <2>3, <3>1 DEF HalfMadeIsOwned
        <3> QED
            BY <1>2, <3>2
    <2> QED
        BY <2>2, <2>3
<1>11. NoTwins'
    <2> SUFFICES ASSUME NEW s \in inVault', entry'[s] = "v1"
                 PROVE  s \in repaired' \cup stopped'
        BY Zenon DEF NoTwins
    <2>1. s \in inVault /\ s \in Slugs
        BY <1>0, <1>1 DEF DriverTypes
    <2>2. CASE s = job.slug
        BY <1>2, <1>6, <1>7, <2>1, <2>2 DEF Creates
    <2>3. CASE s # job.slug
        BY <1>0, <1>1, <1>2, <1>6, <2>1, <2>3 DEF NoTwins
    <2> QED
        BY <2>2, <2>3
<1>12. SeededOnce'
    BY <1>0, <1>1 DEF SeededOnce
<1> QED
    BY <1>3, <1>4, <1>8, <1>10, <1>11, <1>12 DEF MarketsInv

LEMMA SeedKeepsMarkets ==
    ASSUME MarketsInv, NEW o \in SeedOutcomes, SeedOne(o)
    PROVE  MarketsInv'
<1>0. JobShape /\ DriverTypes /\ JobMatchesChain /\ HalfMadeIsOwned /\ NoTwins /\ SeededOnce
    BY DEF MarketsInv
<1>1. /\ job.at = "seed" /\ o \in job.left /\ UNCHANGED <<entry, inVault, repaired, starved>>
      /\ job.slug \in Slugs /\ job.left \subseteq SeedOutcomes /\ job.cmd \in {"v1", "v2", "create-v2"}
      /\ seeded' = IF job.cmd = "v1" THEN seeded ELSE [seeded EXCEPT ![job.slug][o] = @ + 1]
    BY <1>0 DEF SeedOne, JobShape
<1> DEFINE j == IF job.left = {o} THEN AfterMarket ELSE [job EXCEPT !.left = @ \ {o}]
<1>2. Executes(j)
    BY DEF SeedOne
<1>3. \/ j = Idle /\ job.left = {o}
      \/ j = [job EXCEPT !.at = "next"] /\ job.left = {o} /\ job.cmd # "create-v2"
      \/ j = [job EXCEPT !.left = @ \ {o}] /\ job.left # {o}
    BY DEF AfterMarket
<1> HIDE DEF j
<1>4. /\ treasury_motes' \in Int
      /\ \/ job' = j /\ stopped' = stopped
         \/ job' = Idle /\ stopped' = stopped \cup {job.slug}
    BY <1>2, ExecutesDoes
<1>5. JobShape'
    <2>1. CASE job' = Idle
        BY <2>1 DEF JobShape, Idle, Creates
    <2>2. CASE job' = j /\ j = [job EXCEPT !.at = "next"] /\ job.cmd # "create-v2"
        BY <1>0, <1>1, <2>2 DEF JobShape, Creates
    <2>3. CASE job' = j /\ j = [job EXCEPT !.left = @ \ {o}] /\ job.left # {o}
        BY <1>0, <1>1, <2>3 DEF JobShape, Creates
    <2> QED
        BY <1>3, <1>4, <2>1, <2>2, <2>3
<1>6. seeded' \in [Slugs -> [SeedOutcomes -> Nat]]
    BY <1>0, <1>1 DEF DriverTypes
<1>7. DriverTypes'
    BY <1>0, <1>1, <1>4, <1>6 DEF DriverTypes
<1>8. CASE ~Creates(job)
    <2>1. seeded' = seeded /\ ~Creates(job') /\ job'.at # "create"
        BY <1>0, <1>1, <1>3, <1>4, <1>8 DEF Creates, Idle, JobShape
    <2>2. stopped \subseteq stopped'
        BY <1>4
    <2> QED
        BY <1>1, <1>5, <1>7, <1>8, <2>1, <2>2, JobMovesOn
<1>9. CASE Creates(job)
    <2>1. /\ job.slug \in inVault /\ entry[job.slug] # "none"
          /\ \A p \in SeedOutcomes : seeded[job.slug][p] = IF p \in job.left THEN 0 ELSE 1
        BY <1>0, <1>1, <1>9 DEF JobMatchesChain
    <2>2. /\ \A s \in Slugs, p \in SeedOutcomes : s # job.slug => seeded'[s][p] = seeded[s][p]
          /\ \A p \in SeedOutcomes : seeded'[job.slug][p] = IF p \in job.left \ {o} THEN 0 ELSE 1
        <3>1. seeded' = [seeded EXCEPT ![job.slug][o] = @ + 1]
            BY <1>1, <1>9 DEF Creates
        <3> QED
            BY <1>0, <1>1, <2>1, <3>1 DEF DriverTypes
    <2>3. \A s \in Slugs \ inVault', p \in SeedOutcomes : seeded'[s][p] = 0
        BY <1>0, <1>1, <2>1, <2>2 DEF JobMatchesChain
    <2>4. job' = j /\ j = [job EXCEPT !.left = @ \ {o}] =>
             job'.at = "seed" /\ job'.slug = job.slug /\ job'.left = job.left \ {o} /\ Creates(job')
        BY <1>0, <1>1, <1>9 DEF JobShape, Creates
    <2>5. JobMatchesChain'
        <3>1. CASE job'.at \notin {"create", "register", "seed"}
            BY <2>3, <3>1 DEF JobMatchesChain
        <3>2. CASE job' = j /\ j = [job EXCEPT !.left = @ \ {o}]
            BY <1>1, <2>1, <2>2, <2>3, <2>4, <3>2 DEF JobMatchesChain
        <3>3. job' = Idle \/ job' = [job EXCEPT !.at = "next"] => job'.at \notin {"create", "register", "seed"}
            BY <1>0 DEF Idle, JobShape
        <3> QED
            BY <1>3, <1>4, <3>1, <3>2, <3>3
    <2>6. HalfMadeIsOwned'
        <3> SUFFICES ASSUME NEW s \in inVault', HalfMade(s)'
                     PROVE  s \in stopped' \/ (job'.slug = s /\ job'.at \in {"register", "seed"} /\ Creates(job'))
            BY Zenon DEF HalfMadeIsOwned
        <3>1. s \in inVault /\ s \in Slugs
            BY <1>0, <1>1 DEF DriverTypes
        <3>2. CASE s # job.slug
            <4>1. HalfMade(s)
                BY <1>1, <2>2, <3>1, <3>2 DEF HalfMade
            <4> QED
                BY <1>0, <1>4, <3>1, <3>2, <4>1 DEF HalfMadeIsOwned
        <3>3. CASE s = job.slug /\ job' = j /\ j = [job EXCEPT !.left = @ \ {o}]
            BY <2>4, <3>3
        <3>4. CASE s = job.slug /\ job.left = {o}
            <4>1. \A p \in SeedOutcomes : seeded'[job.slug][p] = 1
                BY <2>2, <3>4
            <4> QED
                BY <1>1, <2>1, <3>4, <4>1 DEF HalfMade
        <3> QED
            BY <1>3, <1>4, <3>2, <3>3, <3>4
    <2>7. NoTwins'
        BY <1>0, <1>1, <1>4 DEF NoTwins
    <2>8. SeededOnce'
        <3>1. ASSUME NEW s \in Slugs, NEW p \in SeedOutcomes PROVE seeded'[s][p] <= 1
            <4>1. CASE s = job.slug
                BY <2>2, <4>1
            <4>2. CASE s # job.slug
                BY <1>0, <2>2, <4>2 DEF SeededOnce
            <4> QED
                BY <4>1, <4>2
        <3> QED
            BY <3>1 DEF SeededOnce
    <2> QED
        BY <1>5, <1>7, <2>5, <2>6, <2>7, <2>8 DEF MarketsInv
<1> QED
    BY <1>8, <1>9

LEMMA DriverKeepsMarkets == MarketsInv /\ DriverNext => MarketsInv'
<1> SUFFICES ASSUME MarketsInv, DriverNext PROVE MarketsInv'
    OBVIOUS
<1>1. CASE UNCHANGED driverVars
    <2>1. UNCHANGED <<treasury_motes, entry, inVault, seeded, job, stopped, repaired, starved>>
        BY <1>1 DEF driverVars
    <2> QED
        BY <2>1 DEF MarketsInv, DriverTypes, JobShape, Creates, JobMatchesChain, HalfMadeIsOwned, HalfMade, NoTwins, SeededOnce
<1> QED
    BY <1>1, BeginsKeepMarkets, LoopsKeepMarkets, OthersKeepMarkets, CreateKeepsMarkets, RegisterKeepsMarkets,
       SeedKeepsMarkets DEF DriverNext

\* What the invariant says of half-made markets is what the property says.
LEMMA MarketsInvKnows == MarketsInv => NoTwins /\ HalfMadeIsKnown /\ SeededOnce
<1> SUFFICES ASSUME MarketsInv PROVE HalfMadeIsKnown
    BY DEF MarketsInv
<1>1. \A s \in inVault : (entry[s] = "none" \/ \E o \in SeedOutcomes : seeded[s][o] = 0) => HalfMade(s)
    BY Zenon DEF HalfMade
<1> QED
    BY <1>1 DEF MarketsInv, HalfMadeIsOwned, HalfMadeIsKnown

-----------------------------------------------------------------------------
(***************************************************************************)
(* The purse of the deployment command                                     *)
(***************************************************************************)

\* What a budgeted command still needs of the purse.
PerSeed == net("bet") + Stake
FirstKind(cmd) == IF cmd = "v1" THEN "install" ELSE "create"
FirstValue(cmd) == IF cmd = "v1" THEN 0 ELSE Bond
AfterFirst == net("register") + Cardinality(SeedOutcomes) * PerSeed
PerMarket(cmd) == net(FirstKind(cmd)) + FirstValue(cmd) + AfterFirst
Reserve(cmd) == Headroom({FirstKind(cmd), "register", "bet"})
ExtraOn(v, cmd) == IF cmd # "v1" /\ v = {} THEN net_cost(FirstCreate, GasLimit["create"]) - net("create") ELSE 0
Extra(cmd) == ExtraOn(inVault, cmd)
RestOf(j, v) ==
    CASE j.at = "next" -> Cardinality(j.todo) * PerMarket(j.cmd) + Reserve(j.cmd) + ExtraOn(v, j.cmd)
      [] j.at \in {"install", "create"} ->
            Cardinality(j.todo) * PerMarket(j.cmd) + PerMarket(j.cmd) + Reserve(j.cmd) + ExtraOn(v, j.cmd)
      [] j.at = "register" -> Cardinality(j.todo) * PerMarket(j.cmd) + AfterFirst + Reserve(j.cmd)
      [] j.at = "seed" -> Cardinality(j.todo) * PerMarket(j.cmd) + Cardinality(j.left) * PerSeed + Reserve(j.cmd)
      [] j.at = "vault" -> GasLimit["install"] + GasLimit["register"]
      [] j.at = "set_vault" -> GasLimit["register"]
      [] j.at = "fund" -> Cardinality(j.left) * (Refuel + GasLimit["transfer"])
      [] OTHER -> 0
Rest == RestOf(job, inVault)

BudgetInv == ~starved /\ (job.budgeted => treasury_motes >= Rest)

LEMMA RestOfIs ==
    ASSUME NEW j, NEW v
    PROVE
    /\ j.at = "next" => RestOf(j, v) = Cardinality(j.todo) * PerMarket(j.cmd) + Reserve(j.cmd) + ExtraOn(v, j.cmd)
    /\ j.at \in {"install", "create"} =>
          RestOf(j, v) = Cardinality(j.todo) * PerMarket(j.cmd) + PerMarket(j.cmd) + Reserve(j.cmd) + ExtraOn(v, j.cmd)
    /\ j.at = "register" => RestOf(j, v) = Cardinality(j.todo) * PerMarket(j.cmd) + AfterFirst + Reserve(j.cmd)
    /\ j.at = "seed" =>
          RestOf(j, v) = Cardinality(j.todo) * PerMarket(j.cmd) + Cardinality(j.left) * PerSeed + Reserve(j.cmd)
    /\ j.at = "vault" => RestOf(j, v) = GasLimit["install"] + GasLimit["register"]
    /\ j.at = "set_vault" => RestOf(j, v) = GasLimit["register"]
    /\ j.at = "fund" => RestOf(j, v) = Cardinality(j.left) * (Refuel + GasLimit["transfer"])
    /\ j.at = "idle" => RestOf(j, v) = 0
BY DEF RestOf

LEMMA RestIs ==
    /\ job.at = "next" => Rest = Cardinality(job.todo) * PerMarket(job.cmd) + Reserve(job.cmd) + Extra(job.cmd)
    /\ job.at \in {"install", "create"} =>
          Rest = Cardinality(job.todo) * PerMarket(job.cmd) + PerMarket(job.cmd) + Reserve(job.cmd) + Extra(job.cmd)
    /\ job.at = "register" => Rest = Cardinality(job.todo) * PerMarket(job.cmd) + AfterFirst + Reserve(job.cmd)
    /\ job.at = "seed" =>
          Rest = Cardinality(job.todo) * PerMarket(job.cmd) + Cardinality(job.left) * PerSeed + Reserve(job.cmd)
    /\ job.at = "vault" => Rest = GasLimit["install"] + GasLimit["register"]
    /\ job.at = "set_vault" => Rest = GasLimit["register"]
    /\ job.at = "fund" => Rest = Cardinality(job.left) * (Refuel + GasLimit["transfer"])
    /\ job.at = "idle" => Rest = 0
BY RestOfIs DEF Rest, Extra

LEMMA Multiples ==
    ASSUME NEW n \in Nat, NEW p \in Nat
    PROVE  n * p \in Nat /\ (n + 1) * p = n * p + p /\ (n > 0 => n * p = (n - 1) * p + p)
OBVIOUS

\* A transaction that uses more is charged more.
LEMMA NetCostGrows ==
    ASSUME NEW l \in Nat, NEW u \in 0..l, NEW v \in u..l
    PROVE  net_cost(u, l) <= net_cost(v, l)
<1>1. \A x, y \in Nat : x >= y => (x * 25) \div 100 - (y * 25) \div 100 <= x - y
    OBVIOUS
<1>2. \A n \in Nat : (n * 25) \div 100 \in Nat
    OBVIOUS
<1>3. l - u \in Nat /\ l - v \in Nat /\ l - u >= l - v
    OBVIOUS
<1>4. ((l - u) * 25) \div 100 - ((l - v) * 25) \div 100 <= (l - u) - (l - v)
    BY <1>1, <1>3
<1> QED
    BY <1>2, <1>3, <1>4 DEF net_cost

Kinds == {"install", "create", "register", "bet", "transfer"}

LEMMA KindCosts ==
    ASSUME NEW kind \in Kinds
    PROVE  net(kind) \in Nat /\ GasLimit[kind] \in Nat /\ net(kind) <= GasLimit[kind]
BY GasIsLimited, NetCosts DEF net, Kinds

LEMMA HeadroomCovers ==
    ASSUME NEW a \in Kinds, NEW b \in Kinds, NEW c \in Kinds
    PROVE  /\ Headroom({a, b, c}) \in Nat
           /\ \A kind \in {a, b, c} : GasLimit[kind] <= Headroom({a, b, c})
<1> DEFINE S == {GasLimit[kind] : kind \in {a, b, c}}
<1>1. GasLimit[a] \in Nat /\ GasLimit[b] \in Nat /\ GasLimit[c] \in Nat
    BY KindCosts
<1>2. S = {GasLimit[a], GasLimit[b], GasLimit[c]}
    OBVIOUS
<1>3. \E x \in S : \A y \in S : x >= y
    BY <1>1, <1>2
<1>4. Max(S) \in S /\ \A y \in S : Max(S) >= y
    BY <1>3 DEF Max
<1> QED
    BY <1>1, <1>2, <1>4 DEF Headroom

LEMMA BudgetParts ==
    /\ PerSeed \in Nat /\ PerSeed = net("bet") + Stake /\ Stake \in Nat /\ Bond \in Nat /\ Refuel \in Nat
    /\ Cardinality(SeedOutcomes) \in Nat /\ IsFiniteSet(SeedOutcomes)
    /\ AfterFirst \in Nat /\ AfterFirst = net("register") + Cardinality(SeedOutcomes) * PerSeed
    /\ \A kind \in Kinds : net(kind) \in Nat /\ GasLimit[kind] \in Nat /\ net(kind) <= GasLimit[kind]
    /\ \A cmd : /\ FirstKind(cmd) \in Kinds /\ FirstValue(cmd) \in Nat /\ Extra(cmd) \in Nat /\ (\A v : ExtraOn(v, cmd) \in Nat)
                /\ PerMarket(cmd) \in Nat /\ PerMarket(cmd) = net(FirstKind(cmd)) + FirstValue(cmd) + AfterFirst
                /\ Reserve(cmd) \in Nat
                /\ \A kind \in {FirstKind(cmd), "register", "bet"} : GasLimit[kind] <= Reserve(cmd)
<1>1. Stake \in Nat /\ Bond \in Nat /\ Refuel \in Nat
    BY PlanAssumption
<1>2. Cardinality(SeedOutcomes) \in Nat /\ IsFiniteSet(SeedOutcomes)
    BY PlanAssumption, FS_CardinalityType
<1>3. \A kind \in Kinds : net(kind) \in Nat /\ GasLimit[kind] \in Nat /\ net(kind) <= GasLimit[kind]
    BY KindCosts
<1>4. PerSeed \in Nat
    BY <1>1, <1>3 DEF PerSeed, Kinds
<1>5. AfterFirst \in Nat
    BY <1>2, <1>3, <1>4, Multiples DEF AfterFirst, Kinds
<1>6. ASSUME NEW cmd PROVE FirstKind(cmd) \in Kinds /\ FirstValue(cmd) \in Nat
    BY <1>1 DEF FirstKind, FirstValue, Kinds
<1>7. ASSUME NEW cmd PROVE Extra(cmd) \in Nat /\ \A v : ExtraOn(v, cmd) \in Nat
    <2>1. /\ GasLimit["create"] \in Nat /\ GasUsed["create"] \in 0..GasLimit["create"]
          /\ FirstCreate \in GasUsed["create"]..GasLimit["create"]
        BY GasIsLimited
    <2>2. net("create") <= net_cost(FirstCreate, GasLimit["create"])
        BY <2>1, NetCostGrows DEF net
    <2>3. net_cost(FirstCreate, GasLimit["create"]) \in Nat /\ net("create") \in Nat
        BY <1>3, <2>1, NetCosts DEF Kinds
    <2> QED
        BY <2>2, <2>3 DEF Extra, ExtraOn
<1>8. ASSUME NEW cmd PROVE PerMarket(cmd) \in Nat
    BY <1>3, <1>5, <1>6 DEF PerMarket
<1>9. ASSUME NEW cmd
      PROVE  /\ Reserve(cmd) \in Nat
             /\ \A kind \in {FirstKind(cmd), "register", "bet"} : GasLimit[kind] <= Reserve(cmd)
    BY <1>6, HeadroomCovers DEF Reserve, Kinds
<1> QED
    BY <1>1, <1>2, <1>3, <1>4, <1>5, <1>6, <1>7, <1>8, <1>9 DEF PerSeed, AfterFirst, PerMarket

\* The counts a job keeps are of finite sets.
LEMMA JobCounts ==
    ASSUME JobShape
    PROVE  /\ IsFiniteSet(job.todo) /\ Cardinality(job.todo) \in Nat
           /\ IsFiniteSet(job.left) /\ Cardinality(job.left) \in Nat
           /\ job.left # {} => Cardinality(job.left) >= 1
<1>1. job.todo \subseteq Slugs /\ job.left \subseteq SeedOutcomes \cup Agents
    BY DEF JobShape
<1>2. IsFiniteSet(job.todo) /\ IsFiniteSet(job.left)
    BY <1>1, PlanAssumption, FS_Subset, FS_Union
<1>3. Cardinality(job.todo) \in Nat /\ Cardinality(job.left) \in Nat
    BY <1>2, FS_CardinalityType
<1>4. Cardinality(job.left) = 0 <=> job.left = {}
    BY <1>2, FS_EmptySet
<1> QED
    BY <1>2, <1>3, <1>4

\* What executing the job's transaction takes from the purse.
Spent == net_cost(Used, GasLimit[Sends.kind]) + Sends.value

LEMMA SpentIs ==
    ASSUME MarketsInv
    PROVE  /\ job.at \in {"install", "vault"} => Spent = net("install") /\ Sends.kind = "install" /\ Sends.value = 0
           /\ job.at = "create" => /\ Spent = net("create") + Extra(job.cmd) + Bond
                                   /\ Sends.kind = "create" /\ Sends.value = Bond
           /\ job.at \in {"register", "set_vault"} =>
                 Spent = net("register") /\ Sends.kind = "register" /\ Sends.value = 0
           /\ job.at = "seed" => Spent = PerSeed /\ Sends.kind = "bet" /\ Sends.value = Stake
           /\ job.at = "fund" => Sends.kind = "transfer" /\ Sends.value = Refuel
<1>0. \A kind \in Kinds : net(kind) \in Nat
    BY BudgetParts
<1>1. ASSUME job.at \in {"install", "vault"}
      PROVE  Spent = net("install") /\ Sends.kind = "install" /\ Sends.value = 0
    <2>1. Sends = [kind |-> "install", value |-> 0]
        BY <1>1 DEF Sends
    <2>2. Used = GasUsed["install"]
        BY <1>1, <2>1 DEF Used
    <2> QED
        BY <1>0, <2>1, <2>2 DEF Spent, net, Kinds
<1>2. ASSUME job.at = "create"
      PROVE  Spent = net("create") + Extra(job.cmd) + Bond /\ Sends.kind = "create" /\ Sends.value = Bond
    <2>1. Sends = [kind |-> "create", value |-> Bond]
        BY <1>2 DEF Sends
    <2>2. Used = IF inVault = {} THEN FirstCreate ELSE GasUsed["create"]
        BY <1>2, <2>1 DEF Used
    <2>3. job.cmd # "v1"
        BY <1>2 DEF MarketsInv, JobShape, Creates
    <2>4. CASE inVault = {}
        <3>1. Spent = net_cost(FirstCreate, GasLimit["create"]) + Bond
            BY <2>1, <2>2, <2>4 DEF Spent
        <3>2. Extra(job.cmd) = net_cost(FirstCreate, GasLimit["create"]) - net("create")
            BY <2>3, <2>4 DEF Extra, ExtraOn
        <3>3. net_cost(FirstCreate, GasLimit["create"]) \in Nat
            BY GasIsLimited, NetCosts
        <3> QED
            BY <1>0, <2>1, <3>1, <3>2, <3>3, BudgetParts DEF Kinds
    <2>5. CASE inVault # {}
        BY <1>0, <2>1, <2>2, <2>5, BudgetParts DEF Spent, Extra, ExtraOn, net, Kinds
    <2> QED
        BY <2>4, <2>5
<1>3. ASSUME job.at \in {"register", "set_vault"}
      PROVE  Spent = net("register") /\ Sends.kind = "register" /\ Sends.value = 0
    <2>1. Sends = [kind |-> "register", value |-> 0]
        BY <1>3 DEF Sends
    <2>2. Used = GasUsed["register"]
        BY <1>3, <2>1 DEF Used
    <2> QED
        BY <1>0, <2>1, <2>2 DEF Spent, net, Kinds
<1>4. ASSUME job.at = "seed" PROVE Spent = PerSeed /\ Sends.kind = "bet" /\ Sends.value = Stake
    <2>1. Sends = [kind |-> "bet", value |-> Stake]
        BY <1>4 DEF Sends
    <2>2. Used = GasUsed["bet"]
        BY <1>4, <2>1 DEF Used
    <2> QED
        BY <2>1, <2>2 DEF Spent, PerSeed, net
<1>5. ASSUME job.at = "fund" PROVE Sends.kind = "transfer" /\ Sends.value = Refuel
    BY <1>5 DEF Sends
<1> QED
    BY <1>1, <1>2, <1>3, <1>4, <1>5

LEMMA RestInNat ==
    ASSUME JobShape
    PROVE  Rest \in Nat
<1>1. Cardinality(job.todo) \in Nat /\ Cardinality(job.left) \in Nat
    BY JobCounts
<1>2. Cardinality(job.todo) * PerMarket(job.cmd) \in Nat /\ PerMarket(job.cmd) \in Nat
    BY <1>1, BudgetParts, Multiples
<1>3. Cardinality(job.left) * PerSeed \in Nat
    BY <1>1, BudgetParts, Multiples
<1>4. Reserve(job.cmd) \in Nat /\ Extra(job.cmd) \in Nat /\ AfterFirst \in Nat
    BY BudgetParts
<1>5. GasLimit["install"] \in Nat /\ GasLimit["register"] \in Nat /\ Refuel + GasLimit["transfer"] \in Nat
    BY BudgetParts DEF Kinds
<1>6. Cardinality(job.left) * (Refuel + GasLimit["transfer"]) \in Nat
    BY <1>1, <1>5, Multiples
<1>7. job.at \in {"idle", "next", "install", "vault", "create", "register", "set_vault", "seed", "fund"}
    BY DEF JobShape
<1>8. job.at \in {"next", "install", "create"} => Rest \in Nat
    BY <1>2, <1>4, RestIs
<1>9. job.at \in {"register", "seed"} => Rest \in Nat
    BY <1>2, <1>3, <1>4, RestIs
<1>10. job.at \in {"vault", "set_vault", "fund", "idle"} => Rest \in Nat
    BY <1>5, <1>6, RestIs
<1> QED
    BY <1>7, <1>8, <1>9, <1>10

\* A budgeted command can pay for the transaction it is about to send.
LEMMA BudgetAffords ==
    ASSUME MarketsInv, BudgetInv, job.budgeted, Sending, job.at = "fund" => job.left # {}
    PROVE  Affordable
<1>0. treasury_motes \in Int /\ treasury_motes >= Rest /\ JobShape
    BY DEF MarketsInv, DriverTypes, BudgetInv
<1>1. /\ Cardinality(job.todo) \in Nat /\ Cardinality(job.left) \in Nat
      /\ job.left # {} => Cardinality(job.left) >= 1
    BY <1>0, JobCounts
<1>2. Cardinality(job.todo) * PerMarket(job.cmd) \in Nat /\ PerMarket(job.cmd) \in Nat
    BY <1>1, BudgetParts, Multiples
<1>9. Rest \in Nat
    BY <1>0, <1>1, <1>2, RestInNat
<1>3. CASE job.at = "install"
    <2>1. Rest >= Reserve(job.cmd)
        BY <1>2, <1>3, RestIs, BudgetParts
    <2>2. Reserve(job.cmd) >= GasLimit["install"]
        BY <1>0, <1>3, BudgetParts DEF JobShape, FirstKind
    <2> QED
        <3>1. Sends.kind = "install" /\ Sends.value = 0
            BY <1>3, SpentIs
        <3>2. GasLimit["install"] \in Nat /\ Bond \in Nat /\ Stake \in Nat /\ Refuel \in Nat /\ Rest \in Int
            BY <1>9, BudgetParts DEF Kinds
        <3>3. treasury_motes >= GasLimit["install"] + 0
            BY <1>0, <1>3, <1>9, <2>1, <2>2, <3>2, BudgetParts
        <3> QED
            BY <3>1, <3>3 DEF Affordable
<1>4. CASE job.at = "create"
    <2>1. Rest >= Reserve(job.cmd) + Bond
        <3>1. PerMarket(job.cmd) >= Bond
            BY <1>0, <1>4, BudgetParts DEF JobShape, Creates, FirstValue
        <3> QED
            BY <1>2, <1>4, <3>1, RestIs, BudgetParts
    <2>2. Reserve(job.cmd) >= GasLimit["create"]
        BY <1>0, <1>4, BudgetParts DEF JobShape, Creates, FirstKind
    <2> QED
        <3>1. Sends.kind = "create" /\ Sends.value = Bond
            BY <1>4, SpentIs
        <3>2. GasLimit["create"] \in Nat /\ Bond \in Nat /\ Stake \in Nat /\ Refuel \in Nat /\ Rest \in Int
            BY <1>9, BudgetParts DEF Kinds
        <3>3. treasury_motes >= GasLimit["create"] + Bond
            BY <1>0, <1>4, <1>9, <2>1, <2>2, <3>2, BudgetParts
        <3> QED
            BY <3>1, <3>3 DEF Affordable
<1>5. CASE job.at = "register"
    <2>1. Rest >= Reserve(job.cmd) /\ Reserve(job.cmd) >= GasLimit["register"]
        BY <1>2, <1>5, RestIs, BudgetParts
    <2> QED
        <3>1. Sends.kind = "register" /\ Sends.value = 0
            BY <1>5, SpentIs
        <3>2. GasLimit["register"] \in Nat /\ Bond \in Nat /\ Stake \in Nat /\ Refuel \in Nat /\ Rest \in Int
            BY <1>9, BudgetParts DEF Kinds
        <3>3. treasury_motes >= GasLimit["register"] + 0
            BY <1>0, <1>5, <1>9, <2>1, <3>2, BudgetParts
        <3> QED
            BY <3>1, <3>3 DEF Affordable
<1>6. CASE job.at = "seed"
    <2>1. Cardinality(job.left) * PerSeed >= PerSeed /\ PerSeed >= Stake
        <3>1. Cardinality(job.left) >= 1
            BY <1>0, <1>1, <1>6 DEF JobShape
        <3>2. Cardinality(job.left) - 1 \in Nat /\ PerSeed \in Nat
            BY <1>1, <3>1, BudgetParts
        <3>3. Cardinality(job.left) * PerSeed = (Cardinality(job.left) - 1) * PerSeed + PerSeed
            BY <1>1, <3>1, <3>2, Multiples
        <3>4. (Cardinality(job.left) - 1) * PerSeed \in Nat
            BY <3>2, Multiples
        <3> QED
            BY <3>2, <3>3, <3>4, BudgetParts DEF Kinds
    <2>2. Rest >= Reserve(job.cmd) + Stake /\ Reserve(job.cmd) >= GasLimit["bet"]
        <3>1. Cardinality(job.left) * PerSeed \in Nat
            BY <1>1, BudgetParts, Multiples
        <3> QED
            BY <1>2, <1>6, <2>1, <3>1, RestIs, BudgetParts
    <2> QED
        <3>1. Sends.kind = "bet" /\ Sends.value = Stake
            BY <1>6, SpentIs
        <3>2. GasLimit["bet"] \in Nat /\ Bond \in Nat /\ Stake \in Nat /\ Refuel \in Nat /\ Rest \in Int
            BY <1>9, BudgetParts DEF Kinds
        <3>3. treasury_motes >= GasLimit["bet"] + Stake
            BY <1>0, <1>6, <1>9, <2>2, <3>2, BudgetParts
        <3> QED
            BY <3>1, <3>3 DEF Affordable
<1>7. CASE job.at \in {"vault", "set_vault"}
    BY <1>0, <1>7, RestIs, SpentIs, BudgetParts DEF Affordable, Kinds
<1>8. CASE job.at = "fund" /\ job.left # {}
    <2>1. Refuel + GasLimit["transfer"] \in Nat
        BY BudgetParts DEF Kinds
    <2>2. Rest >= Refuel + GasLimit["transfer"]
        <3>1. Cardinality(job.left) - 1 \in Nat
            BY <1>1, <1>8
        <3>2. Rest = (Cardinality(job.left) - 1) * (Refuel + GasLimit["transfer"]) + (Refuel + GasLimit["transfer"])
            <4>1. Rest = Cardinality(job.left) * (Refuel + GasLimit["transfer"])
                BY <1>8, RestIs
            <4>2. Cardinality(job.left) > 0 /\ Cardinality(job.left) \in Nat
                BY <1>1, <1>8
            <4> QED
                BY <2>1, <4>1, <4>2, Multiples
        <3>3. (Cardinality(job.left) - 1) * (Refuel + GasLimit["transfer"]) \in Nat
            BY <2>1, <3>1, Multiples
        <3> QED
            BY <2>1, <3>2, <3>3
    <2> QED
        <3>1. Sends.kind = "transfer" /\ Sends.value = Refuel
            BY <1>8, SpentIs
        <3>2. GasLimit["transfer"] \in Nat /\ Bond \in Nat /\ Stake \in Nat /\ Refuel \in Nat /\ Rest \in Int
            BY <1>9, BudgetParts DEF Kinds
        <3>3. treasury_motes >= GasLimit["transfer"] + Refuel
            BY <1>0, <1>8, <1>9, <2>2, <3>2, BudgetParts
        <3> QED
            BY <3>1, <3>3 DEF Affordable
<1> QED
    <2>1. job.at \in {"install", "vault", "create", "register", "set_vault", "seed", "fund"}
        BY <1>0 DEF JobShape, Sending
    <2> QED
        BY <1>3, <1>4, <1>5, <1>6, <1>7, <1>8, <2>1


\* An idle purse owes nothing.
LEMMA EndKeepsBudget == ASSUME ~starved', job' = Idle PROVE BudgetInv'
BY DEF BudgetInv, Idle

\* The rest of a job that goes on is what it was less what was spent.
LEMMA SpendKeepsBudget ==
    ASSUME MarketsInv, BudgetInv, NEW j, Executes(j), starved' = starved, j.budgeted => job.budgeted,
           j.budgeted => RestOf(j, inVault') <= Rest - Spent /\ RestOf(j, inVault') \in Int
    PROVE  BudgetInv'
<1>0. JobShape /\ treasury_motes \in Int /\ ~starved
    BY DEF MarketsInv, DriverTypes, BudgetInv
<1>1. treasury_motes' = treasury_motes - net_cost(Used, GasLimit[Sends.kind]) - Sends.value /\ (job' = j \/ job' = Idle)
    BY DEF Executes
<1>2. net_cost(Used, GasLimit[Sends.kind]) \in Nat /\ Sends.value \in Nat
    BY <1>0, SendsWhat DEF Executes
<1>3. treasury_motes' = treasury_motes - Spent /\ Spent \in Nat
    BY <1>0, <1>1, <1>2 DEF Spent
<1>4. CASE job' = Idle
    BY <1>0, <1>4, EndKeepsBudget
<1>5. CASE job' = j /\ j.budgeted
    <2>1. treasury_motes >= Rest /\ Rest \in Nat
        BY <1>0, <1>5, RestInNat DEF BudgetInv
    <2>2. Rest' = RestOf(j, inVault')
        BY <1>5 DEF Rest
    <2>3. treasury_motes' >= Rest'
        BY <1>0, <1>3, <1>5, <2>1, <2>2
    <2> QED
        BY <1>0, <2>3 DEF BudgetInv
<1>6. CASE job' = j /\ ~j.budgeted
    BY <1>0, <1>6 DEF BudgetInv
<1> QED
    BY <1>1, <1>4, <1>5, <1>6

\* plan-cost recommends what a catalogue run over n markets of the plan may need.
LEMMA RecommendedIsEnough ==
    ASSUME NEW n \in Nat, NEW release \in {"v1", "v2"}, NEW v
    PROVE  /\ recommended(release, n) \in Int
           /\ recommended(release, n) >= n * PerMarket(release) + Reserve(release) + ExtraOn(v, release)
<1> DEFINE bets == n * Cardinality(SeedOutcomes)
           seeds == Cardinality(SeedOutcomes) * PerSeed
<1>1. /\ Cardinality(SeedOutcomes) \in Nat /\ net("bet") \in Nat /\ net("register") \in Nat /\ net("install") \in Nat
      /\ net("create") \in Nat /\ Stake \in Nat /\ Bond \in Nat /\ PerSeed = net("bet") + Stake
    BY BudgetParts DEF Kinds
<1>2. bets * net("bet") + bets * Stake = n * seeds
    BY <1>1
<1>3. AfterFirst = net("register") + seeds /\ seeds \in Nat
    BY <1>1, Multiples, BudgetParts
<1>4. n * AfterFirst = n * net("register") + n * seeds
    BY <1>1, <1>3
<1>5. Reserve(release) \in Nat
    BY BudgetParts
<1>6. CASE release = "v1"
    <2>1. recommended(release, n) = n * net("install") + n * net("register") + bets * net("bet") + Reserve(release) + bets * Stake
        BY <1>6 DEF recommended, Reserve, FirstKind
    <2>2. n * PerMarket(release) = n * net("install") + n * AfterFirst
        BY <1>1, <1>3, <1>6, BudgetParts DEF FirstKind, FirstValue
    <2>3. ExtraOn(v, release) = 0
        BY <1>6 DEF ExtraOn
    <2> QED
        BY <1>1, <1>2, <1>3, <1>4, <1>5, <2>1, <2>2, <2>3
<1>7. CASE release = "v2"
    <2> DEFINE first == net_cost(FirstCreate, GasLimit["create"])
    <2>1. recommended(release, n) =
             first + (n - 1) * net("create") + n * Bond + n * net("register") + bets * net("bet") + Reserve(release) + bets * Stake
        BY <1>7 DEF recommended, Reserve, FirstKind
    <2>2. n * PerMarket(release) = n * net("create") + n * Bond + n * AfterFirst
        BY <1>1, <1>3, <1>7, BudgetParts DEF FirstKind, FirstValue
    <2>3. (n - 1) * net("create") = n * net("create") - net("create")
        BY <1>1
    <2>4. first \in Nat /\ first >= net("create")
        <3>1. /\ GasLimit["create"] \in Nat /\ GasUsed["create"] \in 0..GasLimit["create"]
              /\ FirstCreate \in GasUsed["create"]..GasLimit["create"]
            BY GasIsLimited
        <3>2. FirstCreate \in 0..GasLimit["create"]
            BY <3>1
        <3> QED
            BY <3>1, <3>2, NetCosts, NetCostGrows DEF net
    <2>5. ExtraOn(v, release) \in Nat /\ ExtraOn(v, release) <= first - net("create")
        BY <1>1, <2>4 DEF ExtraOn
    <2> HIDE DEF first
    <2> QED
        BY <1>1, <1>2, <1>3, <1>4, <1>5, <2>1, <2>2, <2>3, <2>4, <2>5
<1> QED
    BY <1>6, <1>7


LEMMA FiniteCounts ==
    ASSUME NEW S, S \subseteq Slugs \/ S \subseteq Agents \/ S \subseteq SeedOutcomes
    PROVE  IsFiniteSet(S) /\ Cardinality(S) \in Nat
BY PlanAssumption, FS_Subset, FS_CardinalityType

LEMMA BeginsKeepBudget ==
    ASSUME MarketsInv, BudgetInv,
           \/ \E release \in {"v1", "v2"}, selection \in SUBSET Slugs : StartCatalogue(release, selection)
           \/ \E s \in Slugs : StartCreateV2(s)
           \/ StartVaultDeploy \/ StartFleetFund
    PROVE  BudgetInv'
<1>0. treasury_motes \in Int /\ ~starved
    BY DEF MarketsInv, DriverTypes, BudgetInv
<1>1. ASSUME NEW release \in {"v1", "v2"}, NEW selection \in SUBSET Slugs, StartCatalogue(release, selection)
      PROVE  BudgetInv'
    <2> DEFINE n == Cardinality(selection)
    <2>1. /\ UNCHANGED <<treasury_motes, inVault, starved>>
          /\ job' = [cmd |-> release, todo |-> selection, slug |-> Sample, at |-> "next", left |-> {},
                     budgeted |-> treasury_motes >= recommended(release, n)]
        BY <1>1 DEF StartCatalogue, Begin
    <2>2. n \in Nat
        BY FiniteCounts
    <2>3. Rest' = n * PerMarket(release) + Reserve(release) + ExtraOn(inVault, release)
        BY <2>1, RestOfIs DEF Rest
    <2>4. /\ recommended(release, n) \in Int
          /\ recommended(release, n) >= n * PerMarket(release) + Reserve(release) + ExtraOn(inVault, release)
        BY <2>2, RecommendedIsEnough
    <2>5. n * PerMarket(release) + Reserve(release) + ExtraOn(inVault, release) \in Nat
        BY <2>2, BudgetParts, Multiples
    <2>6. job'.budgeted => treasury_motes >= recommended(release, n)
        BY <2>1
    <2> HIDE DEF n
    <2> QED
        BY <1>0, <2>1, <2>3, <2>4, <2>5, <2>6 DEF BudgetInv
<1>2. ASSUME NEW s \in Slugs, StartCreateV2(s) PROVE BudgetInv'
    <2>1. /\ UNCHANGED <<treasury_motes, inVault, starved>>
          /\ \/ job' = Idle
             \/ job' = [cmd |-> "create-v2", todo |-> {}, slug |-> s, at |-> "create", left |-> {},
                        budgeted |-> treasury_motes >= recommended("v2", 1)]
        BY <1>2 DEF StartCreateV2, Idle
    <2>2. CASE job' = Idle
        BY <1>0, <2>1, <2>2, EndKeepsBudget
    <2>3. CASE job' # Idle
        <3>0. /\ job'.at = "create" /\ job'.todo = {} /\ job'.cmd = "create-v2" /\ inVault' = inVault
              /\ job'.budgeted = (treasury_motes >= recommended("v2", 1))
            BY <2>1, <2>3
        <3>1. Rest' = Cardinality({}) * PerMarket("create-v2") + PerMarket("create-v2") + Reserve("create-v2")
                      + ExtraOn(inVault, "create-v2")
            BY <3>0, RestOfIs DEF Rest
        <3>2. /\ PerMarket("create-v2") = PerMarket("v2") /\ Reserve("create-v2") = Reserve("v2")
              /\ ExtraOn(inVault, "create-v2") = ExtraOn(inVault, "v2")
            BY DEF PerMarket, Reserve, ExtraOn, FirstKind, FirstValue
        <3>3. Cardinality({}) = 0 /\ PerMarket("v2") \in Nat /\ Reserve("v2") \in Nat /\ ExtraOn(inVault, "v2") \in Nat
            BY FS_EmptySet, BudgetParts
        <3>4. Rest' = 1 * PerMarket("v2") + Reserve("v2") + ExtraOn(inVault, "v2")
            BY <3>1, <3>2, <3>3
        <3>5. recommended("v2", 1) \in Int /\ recommended("v2", 1) >= Rest'
            BY <3>4, RecommendedIsEnough
        <3>6. job'.budgeted => treasury_motes >= recommended("v2", 1)
            BY <3>0
        <3>7. Rest' \in Nat
            BY <3>3, <3>4
        <3> QED
            BY <1>0, <2>1, <3>5, <3>6, <3>7 DEF BudgetInv
    <2> QED
        BY <2>2, <2>3
<1>3. CASE StartVaultDeploy
    <2>1. UNCHANGED <<treasury_motes, starved>> /\ job'.at = "vault"
        BY <1>3 DEF StartVaultDeploy, Begin
    <2>2. Rest' = GasLimit["install"] + GasLimit["register"]
        BY <2>1, RestOfIs DEF Rest
    <2> QED
        BY <1>0, <1>3, <2>1, <2>2 DEF BudgetInv, StartVaultDeploy
<1>4. CASE StartFleetFund
    <2>1. UNCHANGED <<treasury_motes, starved>> /\ job'.at = "fund" /\ job'.left = Agents
        BY <1>4 DEF StartFleetFund, Begin
    <2>2. Rest' = Cardinality(Agents) * (Refuel + GasLimit["transfer"])
        BY <2>1, RestOfIs DEF Rest
    <2> QED
        BY <1>0, <1>4, <2>1, <2>2 DEF BudgetInv, StartFleetFund
<1> QED
    BY <1>1, <1>2, <1>3, <1>4

LEMMA LoopsKeepBudget ==
    ASSUME MarketsInv, BudgetInv, (\E s \in Slugs : NextSlug(s)) \/ JobDone
    PROVE  BudgetInv'
<1>0. treasury_motes \in Int /\ ~starved /\ JobShape
    BY DEF MarketsInv, DriverTypes, BudgetInv
<1>1. ASSUME NEW s \in Slugs, NextSlug(s) PROVE BudgetInv'
    <2>1. job.at = "next" /\ s \in job.todo /\ UNCHANGED <<treasury_motes, inVault, starved>>
        BY <1>1 DEF NextSlug
    <2> DEFINE n == Cardinality(job.todo)
               rest == (n - 1) * PerMarket(job.cmd)
    <2>2. /\ n \in Nat /\ IsFiniteSet(job.todo)
        BY <1>0, JobCounts
    <2>3. Cardinality(job.todo \ {s}) = n - 1 /\ n - 1 \in Nat
        <3>1. Cardinality(job.todo \ {s}) = n - 1
            BY <2>1, <2>2, FS_RemoveElement
        <3>2. job.todo \ {s} \subseteq Slugs
            BY <1>0 DEF JobShape
        <3> QED
            BY <3>1, <3>2, FiniteCounts
    <2>4. n * PerMarket(job.cmd) = rest + PerMarket(job.cmd) /\ rest \in Nat /\ PerMarket(job.cmd) \in Nat
        <3>1. n > 0
            BY <2>2, <2>3
        <3> QED
            BY <2>2, <2>3, <3>1, Multiples, BudgetParts
    <2>5. Reserve(job.cmd) \in Nat /\ Extra(job.cmd) \in Nat
        BY BudgetParts
    <2>6. Rest = n * PerMarket(job.cmd) + Reserve(job.cmd) + Extra(job.cmd)
        BY <2>1, RestIs
    <2>7. CASE job' = Idle
        BY <1>0, <2>1, <2>7, EndKeepsBudget
    <2>8. CASE job' = [job EXCEPT !.todo = @ \ {s}]
        <3>1. /\ job'.at = "next" /\ job'.todo = job.todo \ {s} /\ job'.cmd = job.cmd /\ job'.budgeted = job.budgeted
            BY <1>0, <2>1, <2>8 DEF JobShape
        <3>2. Rest' = rest + Reserve(job.cmd) + Extra(job.cmd)
            BY <2>1, <2>3, <3>1, RestOfIs DEF Rest, Extra
        <3> HIDE DEF n, rest
        <3> QED
            BY <1>0, <2>1, <2>4, <2>5, <2>6, <3>1, <3>2 DEF BudgetInv
    <2>9. CASE job' = [job EXCEPT !.todo = @ \ {s}, !.slug = s, !.at = IF job.cmd = "v1" THEN "install" ELSE "create"]
        <3>1. /\ job'.at \in {"install", "create"} /\ job'.todo = job.todo \ {s} /\ job'.cmd = job.cmd
              /\ job'.budgeted = job.budgeted
            BY <1>0, <2>1, <2>9 DEF JobShape
        <3>2. Rest' = rest + PerMarket(job.cmd) + Reserve(job.cmd) + Extra(job.cmd)
            <4>1. Rest' = Cardinality(job'.todo) * PerMarket(job'.cmd) + PerMarket(job'.cmd) + Reserve(job'.cmd)
                          + ExtraOn(inVault', job'.cmd)
                BY <3>1, RestOfIs DEF Rest
            <4> QED
                BY <2>1, <2>3, <3>1, <4>1 DEF Extra
        <3> HIDE DEF n, rest
        <3> QED
            BY <1>0, <2>1, <2>4, <2>5, <2>6, <3>1, <3>2 DEF BudgetInv
    <2> QED
        BY <1>1, <2>7, <2>8, <2>9 DEF NextSlug
<1>2. CASE JobDone
    BY <1>0, <1>2, EndKeepsBudget DEF JobDone
<1> QED
    BY <1>1, <1>2

LEMMA DeploysKeepBudget ==
    ASSUME MarketsInv, BudgetInv, DeployMarket \/ DeployVault \/ SetFactoryVault
    PROVE  BudgetInv'
<1>0. JobShape /\ ~starved
    BY DEF MarketsInv, BudgetInv
<1>1. CASE DeployMarket
    <2> DEFINE j == IF job.slug = Sample THEN Seeding ELSE [job EXCEPT !.at = "register"]
               todo == Cardinality(job.todo) * PerMarket(job.cmd)
    <2>1. Executes(j) /\ job.at = "install" /\ starved' = starved /\ inVault' = inVault
        BY <1>1 DEF DeployMarket
    <2>2. job.cmd = "v1"
        BY <1>0, <2>1 DEF JobShape
    <2>3. /\ todo \in Nat /\ PerMarket(job.cmd) = net("install") + AfterFirst
          /\ Reserve(job.cmd) \in Nat /\ Extra(job.cmd) = 0
          /\ net("install") \in Nat /\ net("register") \in Nat /\ Cardinality(SeedOutcomes) * PerSeed \in Nat
          /\ AfterFirst = net("register") + Cardinality(SeedOutcomes) * PerSeed
        <3>1. FirstKind(job.cmd) = "install" /\ FirstValue(job.cmd) = 0 /\ Extra(job.cmd) = 0
            BY <2>2 DEF FirstKind, FirstValue, Extra, ExtraOn
        <3>2. /\ net("install") \in Nat /\ net("register") \in Nat /\ Cardinality(SeedOutcomes) * PerSeed \in Nat
              /\ AfterFirst = net("register") + Cardinality(SeedOutcomes) * PerSeed /\ AfterFirst \in Nat
            BY BudgetParts, Multiples DEF Kinds
        <3>3. todo \in Nat
            BY <1>0, JobCounts, BudgetParts, Multiples
        <3>4. PerMarket(job.cmd) = net(FirstKind(job.cmd)) + FirstValue(job.cmd) + AfterFirst /\ Reserve(job.cmd) \in Nat
            BY BudgetParts
        <3>5. PerMarket(job.cmd) = net("install") + AfterFirst
            BY <3>1, <3>2, <3>4
        <3> QED
            BY <3>1, <3>2, <3>3, <3>4, <3>5
    <2>4. Rest = todo + PerMarket(job.cmd) + Reserve(job.cmd) + Extra(job.cmd) /\ Spent = net("install")
        BY <2>1, RestIs, SpentIs
    <2>5. j.budgeted = job.budgeted
        BY <1>0 DEF JobShape, Seeding
    <2>6. \/ RestOf(j, inVault') = todo + AfterFirst + Reserve(job.cmd)
          \/ RestOf(j, inVault') = todo + Cardinality(SeedOutcomes) * PerSeed + Reserve(job.cmd)
        <3>1. CASE j = Seeding
            <4>1. j.at = "seed" /\ j.left = SeedOutcomes /\ j.todo = job.todo /\ j.cmd = job.cmd
                BY <1>0, <3>1 DEF JobShape, Seeding
            <4> HIDE DEF j
            <4> QED
                BY <4>1, RestOfIs
        <3>2. CASE j = [job EXCEPT !.at = "register"]
            <4>1. j.at = "register" /\ j.todo = job.todo /\ j.cmd = job.cmd
                BY <1>0, <3>2 DEF JobShape
            <4> HIDE DEF j
            <4> QED
                BY <4>1, RestOfIs
        <3> QED
            BY <3>1, <3>2
    <2> HIDE DEF j, todo
    <2>7. RestOf(j, inVault') <= Rest - Spent /\ RestOf(j, inVault') \in Int
        BY <2>3, <2>4, <2>6
    <2> QED
        BY <2>1, <2>5, <2>7, SpendKeepsBudget
<1>2. CASE DeployVault
    <2> DEFINE j == [job EXCEPT !.at = "set_vault"]
    <2>1. Executes(j) /\ job.at = "vault" /\ starved' = starved
        BY <1>2 DEF DeployVault
    <2>2. j.at = "set_vault" /\ j.budgeted = job.budgeted
        BY <1>0 DEF JobShape
    <2> HIDE DEF j
    <2>3. RestOf(j, inVault') = GasLimit["register"]
        BY <2>2, RestOfIs
    <2>4. Rest = GasLimit["install"] + GasLimit["register"] /\ Spent = net("install")
        BY <2>1, RestIs, SpentIs
    <2>5. RestOf(j, inVault') <= Rest - Spent /\ RestOf(j, inVault') \in Int
        BY <2>3, <2>4, BudgetParts DEF Kinds
    <2> QED
        BY <2>1, <2>2, <2>5, SpendKeepsBudget
<1>3. CASE SetFactoryVault
    <2>1. job' = Idle /\ ~starved'
        BY <1>0, <1>3 DEF SetFactoryVault, Executes
    <2> QED
        BY <2>1, EndKeepsBudget
<1> QED
    BY <1>1, <1>2, <1>3


LEMMA CreateKeepsBudget ==
    ASSUME MarketsInv, BudgetInv, CreateMarket
    PROVE  BudgetInv'
<1> DEFINE j == IF entry[job.slug] # "none" THEN Seeding ELSE [job EXCEPT !.at = "register"]
           todo == Cardinality(job.todo) * PerMarket(job.cmd)
<1>0. JobShape
    BY DEF MarketsInv
<1>1. Executes(j) /\ job.at = "create" /\ starved' = starved
    BY DEF CreateMarket
<1>2. job.cmd # "v1"
    BY <1>0, <1>1 DEF JobShape, Creates
<1>3. /\ todo \in Nat /\ PerMarket(job.cmd) = net("create") + Bond + AfterFirst
      /\ Reserve(job.cmd) \in Nat /\ Extra(job.cmd) \in Nat /\ Bond \in Nat
      /\ net("create") \in Nat /\ net("register") \in Nat /\ Cardinality(SeedOutcomes) * PerSeed \in Nat
      /\ AfterFirst = net("register") + Cardinality(SeedOutcomes) * PerSeed
    <2>1. FirstKind(job.cmd) = "create" /\ FirstValue(job.cmd) = Bond
        BY <1>2 DEF FirstKind, FirstValue
    <2>2. /\ net("create") \in Nat /\ net("register") \in Nat /\ Cardinality(SeedOutcomes) * PerSeed \in Nat
          /\ AfterFirst = net("register") + Cardinality(SeedOutcomes) * PerSeed /\ AfterFirst \in Nat
        BY BudgetParts, Multiples DEF Kinds
    <2>3. todo \in Nat
        BY <1>0, JobCounts, BudgetParts, Multiples
    <2>4. /\ PerMarket(job.cmd) = net(FirstKind(job.cmd)) + FirstValue(job.cmd) + AfterFirst
          /\ Reserve(job.cmd) \in Nat /\ Extra(job.cmd) \in Nat /\ Bond \in Nat
        BY BudgetParts
    <2>5. PerMarket(job.cmd) = net("create") + Bond + AfterFirst
        BY <2>1, <2>2, <2>4
    <2> QED
        BY <2>2, <2>3, <2>4, <2>5
<1>4. Rest = todo + PerMarket(job.cmd) + Reserve(job.cmd) + Extra(job.cmd) /\ Spent = net("create") + Extra(job.cmd) + Bond
    BY <1>1, RestIs, SpentIs
<1>5. j.budgeted = job.budgeted
    BY <1>0 DEF JobShape, Seeding
<1>6. \/ RestOf(j, inVault') = todo + AfterFirst + Reserve(job.cmd)
      \/ RestOf(j, inVault') = todo + Cardinality(SeedOutcomes) * PerSeed + Reserve(job.cmd)
    <2>1. CASE j = Seeding
        <3>1. j.at = "seed" /\ j.left = SeedOutcomes /\ j.todo = job.todo /\ j.cmd = job.cmd
            BY <1>0, <2>1 DEF JobShape, Seeding
        <3> HIDE DEF j
        <3> QED
            BY <3>1, RestOfIs
    <2>2. CASE j = [job EXCEPT !.at = "register"]
        <3>1. j.at = "register" /\ j.todo = job.todo /\ j.cmd = job.cmd
            BY <1>0, <2>2 DEF JobShape
        <3> HIDE DEF j
        <3> QED
            BY <3>1, RestOfIs
    <2> QED
        BY <2>1, <2>2
<1> HIDE DEF j, todo
<1>7. RestOf(j, inVault') <= Rest - Spent /\ RestOf(j, inVault') \in Int
    BY <1>3, <1>4, <1>6
<1> QED
    BY <1>1, <1>5, <1>7, SpendKeepsBudget

LEMMA RegisterKeepsBudget ==
    ASSUME MarketsInv, BudgetInv, RegisterEntry
    PROVE  BudgetInv'
<1> DEFINE todo == Cardinality(job.todo) * PerMarket(job.cmd)
           seeds == Cardinality(SeedOutcomes) * PerSeed
<1>0. JobShape
    BY DEF MarketsInv
<1>1. Executes(Seeding) /\ job.at = "register" /\ starved' = starved /\ inVault' = inVault
    BY DEF RegisterEntry
<1>2. Rest = todo + AfterFirst + Reserve(job.cmd) /\ Spent = net("register")
    BY <1>1, RestIs, SpentIs
<1>3. Seeding.at = "seed" /\ Seeding.left = SeedOutcomes /\ Seeding.todo = job.todo /\ Seeding.cmd = job.cmd
      /\ Seeding.budgeted = job.budgeted
    BY <1>0 DEF JobShape, Seeding
<1>4. RestOf(Seeding, inVault') = todo + seeds + Reserve(job.cmd)
    BY <1>3, RestOfIs
<1>5. /\ todo \in Nat /\ seeds \in Nat /\ Reserve(job.cmd) \in Nat /\ net("register") \in Nat
      /\ AfterFirst = net("register") + seeds
    BY <1>0, JobCounts, BudgetParts, Multiples DEF Kinds
<1> HIDE DEF todo, seeds
<1>6. RestOf(Seeding, inVault') <= Rest - Spent /\ RestOf(Seeding, inVault') \in Int
    BY <1>2, <1>4, <1>5
<1> QED
    BY <1>1, <1>3, <1>6, SpendKeepsBudget

LEMMA SeedKeepsBudget ==
    ASSUME MarketsInv, BudgetInv, NEW o \in SeedOutcomes, SeedOne(o)
    PROVE  BudgetInv'
<1> DEFINE j == IF job.left = {o} THEN AfterMarket ELSE [job EXCEPT !.left = @ \ {o}]
           todo == Cardinality(job.todo) * PerMarket(job.cmd)
           n == Cardinality(job.left)
           seeds == (n - 1) * PerSeed
<1>0. JobShape /\ ~starved
    BY DEF MarketsInv, BudgetInv
<1>1. Executes(j) /\ job.at = "seed" /\ o \in job.left /\ starved' = starved /\ inVault' = inVault
    BY DEF SeedOne
<1>2. IsFiniteSet(job.left) /\ n \in Nat /\ n >= 1
    BY <1>0, <1>1, JobCounts
<1>3. Cardinality(job.left \ {o}) = n - 1 /\ n - 1 \in Nat
    <2>1. Cardinality(job.left \ {o}) = n - 1
        BY <1>1, <1>2, FS_RemoveElement
    <2> HIDE DEF n
    <2> QED
        BY <1>2, <2>1
<1>4. n * PerSeed = seeds + PerSeed /\ seeds \in Nat /\ PerSeed \in Nat
    BY <1>2, <1>3, BudgetParts, Multiples
<1>5. Rest = todo + n * PerSeed + Reserve(job.cmd) /\ Spent = PerSeed
    BY <1>1, RestIs, SpentIs
<1>6. todo \in Nat /\ Reserve(job.cmd) \in Nat
    BY <1>0, JobCounts, BudgetParts, Multiples
<1>7. CASE job.left # {o}
    <2>1. j.at = "seed" /\ j.left = job.left \ {o} /\ j.todo = job.todo /\ j.cmd = job.cmd /\ j.budgeted = job.budgeted
        BY <1>0, <1>1, <1>7 DEF JobShape
    <2> HIDE DEF j
    <2>2. RestOf(j, inVault') = todo + seeds + Reserve(job.cmd)
        BY <1>3, <2>1, RestOfIs
    <2> HIDE DEF todo, seeds, n
    <2>3. RestOf(j, inVault') <= Rest - Spent /\ RestOf(j, inVault') \in Int
        BY <1>2, <1>4, <1>5, <1>6, <2>2
    <2> QED
        BY <1>1, <2>1, <2>3, SpendKeepsBudget
<1>8. CASE job.left = {o} /\ job.cmd = "create-v2"
    <2>1. j = Idle
        BY <1>8 DEF AfterMarket
    <2>2. job' = Idle /\ ~starved'
        BY <1>0, <1>1, <2>1 DEF Executes
    <2> QED
        BY <2>2, EndKeepsBudget
<1>9. CASE job.left = {o} /\ job.cmd # "create-v2"
    <2>1. j.at = "next" /\ j.todo = job.todo /\ j.cmd = job.cmd /\ j.budgeted = job.budgeted
        BY <1>0, <1>9 DEF JobShape, AfterMarket
    <2> HIDE DEF j
    <2>2. ExtraOn(inVault', job.cmd) = 0
        <3>1. job.cmd # "v1" => Creates(job)
            BY <1>0, <1>1 DEF JobShape, Creates
        <3>2. job.cmd # "v1" => inVault # {}
            BY <1>1, <3>1 DEF MarketsInv, JobMatchesChain
        <3> QED
            BY <1>1, <3>2 DEF ExtraOn
    <2>3. RestOf(j, inVault') = todo + Reserve(job.cmd) + 0
        BY <2>1, <2>2, RestOfIs
    <2> HIDE DEF todo, seeds, n
    <2>4. RestOf(j, inVault') <= Rest - Spent /\ RestOf(j, inVault') \in Int
        BY <1>2, <1>4, <1>5, <1>6, <2>3
    <2> QED
        BY <1>1, <2>1, <2>4, SpendKeepsBudget
<1> QED
    BY <1>7, <1>8, <1>9

LEMMA FundKeepsBudget ==
    ASSUME MarketsInv, BudgetInv, NEW a \in Agents, FundOne(a)
    PROVE  BudgetInv'
<1> DEFINE n == Cardinality(job.left)
           share == Refuel + GasLimit["transfer"]
           shares == (n - 1) * share
<1>0. /\ JobShape /\ ~starved /\ treasury_motes \in Int /\ job.at = "fund" /\ a \in job.left /\ job.budgeted
      /\ treasury_motes >= Rest
    BY DEF MarketsInv, DriverTypes, BudgetInv, FundOne, JobShape
<1>1. Affordable
    BY <1>0, BudgetAffords DEF Sending
<1>2. treasury_motes' = treasury_motes - GasLimit["transfer"] - Refuel /\ starved' = starved
    BY <1>1, Zenon DEF FundOne
<1>3. IsFiniteSet(job.left) /\ n \in Nat /\ n >= 1
    BY <1>0, JobCounts
<1>4. Cardinality(job.left \ {a}) = n - 1 /\ n - 1 \in Nat
    <2>1. Cardinality(job.left \ {a}) = n - 1
        BY <1>0, <1>3, FS_RemoveElement
    <2> HIDE DEF n
    <2> QED
        BY <1>3, <2>1
<1>5. GasLimit["transfer"] \in Nat /\ Refuel \in Nat /\ share \in Nat
    BY BudgetParts DEF Kinds
<1>6. n * share = shares + share /\ shares \in Nat
    BY <1>3, <1>4, <1>5, Multiples
<1>7. Rest = n * share
    BY <1>0, RestIs
<1>8. CASE job' = Idle
    BY <1>0, <1>2, <1>8, EndKeepsBudget
<1>9. CASE job' = [job EXCEPT !.left = @ \ {a}]
    <2>1. job'.at = "fund" /\ job'.left = job.left \ {a} /\ job'.budgeted
        BY <1>0, <1>9 DEF JobShape
    <2>2. Rest' = shares
        BY <1>4, <2>1, RestOfIs DEF Rest
    <2>3. treasury_motes' >= Rest'
        <3>1. share = Refuel + GasLimit["transfer"]
            OBVIOUS
        <3> HIDE DEF n, share, shares
        <3> QED
            BY <1>0, <1>2, <1>5, <1>6, <1>7, <2>2, <3>1
    <2> QED
        BY <1>0, <1>2, <2>3 DEF BudgetInv
<1> QED
    BY <1>8, <1>9 DEF FundOne

\* A budgeted command is never refused; any other ends with the refusal, or the revert.
LEMMA FailuresKeepBudget ==
    ASSUME MarketsInv, BudgetInv, TxRefused \/ TxReverts
    PROVE  BudgetInv'
<1>1. CASE TxRefused
    <2>1. ~job.budgeted
        BY <1>1, BudgetAffords DEF TxRefused
    <2>2. job' = Idle /\ starved' = (starved \/ job.budgeted) /\ ~starved
        BY <1>1 DEF TxRefused, BudgetInv
    <2> QED
        BY <2>1, <2>2, EndKeepsBudget
<1>2. CASE TxReverts
    BY <1>2, EndKeepsBudget DEF TxReverts, BudgetInv
<1> QED
    BY <1>1, <1>2

LEMMA DriverKeepsBudget == MarketsInv /\ BudgetInv /\ DriverNext => BudgetInv'
<1> SUFFICES ASSUME MarketsInv, BudgetInv, DriverNext PROVE BudgetInv'
    OBVIOUS
<1>1. CASE UNCHANGED driverVars
    BY <1>1 DEF driverVars, BudgetInv, Rest
<1> QED
    BY <1>1, BeginsKeepBudget, LoopsKeepBudget, DeploysKeepBudget, CreateKeepsBudget, RegisterKeepsBudget,
       SeedKeepsBudget, FundKeepsBudget, FailuresKeepBudget DEF DriverNext

DriverInv == MarketsInv /\ BudgetInv

LEMMA DriverInitInv == DriverInit => DriverInv
<1>1. DriverInit => BudgetInv
    BY DEF DriverInit, BudgetInv, Idle
<1> QED
    BY <1>1, DriverInitMarkets DEF DriverInv

LEMMA DriverNextInv == DriverInv /\ DriverNext => DriverInv'
BY DriverKeepsMarkets, DriverKeepsBudget DEF DriverInv

LEMMA DriverInvIsWhole == DriverInv => NoTwins /\ HalfMadeIsKnown /\ SeededOnce /\ BudgetedRunsFinish
BY MarketsInvKnows DEF DriverInv, BudgetInv, BudgetedRunsFinish

-----------------------------------------------------------------------------
(***************************************************************************)
(* The visitor's session                                                   *)
(***************************************************************************)
SessionTypeOK ==
    /\ sdk \in {"loading", "loaded"} /\ rejected \in BOOLEAN /\ provider \in BOOLEAN /\ blocked \in BOOLEAN
    /\ sdkAccount \in WalletKeys \cup {Nobody}
    /\ stored \in WalletKeys \cup {Demo, Nobody} /\ memoryAccount \in WalletKeys \cup {Demo, Nobody}
    /\ inFlight \in Logins \cup {0}
    /\ attempts \in [Logins -> {"unused", "waiting", "open", "done"}]

SessionInv == SessionTypeOK /\ DialogHasAnEnd

Standings == {"unused", "preparing", "preflight", "signing", "operator", "pending", "superseded", "error",
              "declined", "confirmed", "failed", "unconfirmed", "left"}

BetPanelTypeOK ==
    /\ bet \in [Presses -> [at : Standings, as : WalletKeys \cup {Demo, Nobody}, signs : BOOLEAN, code501 : BOOLEAN]]
    /\ payer \in [Presses -> WalletKeys \cup {Demo, Nobody, Operator}]
    /\ fate \in [Presses -> {"none", "submitted", "executed", "reverted"}]

PressIsTrue(p) ==
    /\ bet[p].at # "superseded"
    /\ bet[p].at # "unused" => bet[p].as # Nobody
    /\ bet[p].at \in {"unused", "preparing", "preflight", "signing", "operator", "declined"} =>
          payer[p] = Nobody /\ fate[p] = "none"
    /\ bet[p].at \in {"preparing", "preflight", "signing"} => bet[p].signs
    /\ bet[p].at = "operator" => ~bet[p].signs \/ bet[p].code501
    /\ bet[p].at = "signing" => provider
    /\ bet[p].at = "confirmed" => p \in onBoards \cup unindexed
    /\ bet[p].at = "failed" => fate[p] = "reverted"

BetPanelInv ==
    /\ BetPanelTypeOK
    /\ \A p \in Presses : PressIsTrue(p)
    /\ StakesAreTheVisitors

FormInv ==
    /\ quoted \in Nat
    /\ form \in {"blank", "challenge", "paying", "prepared", "awaiting", "opening", "finalizing", "created"}
    /\ bond \in BOOLEAN
    /\ paid \in [Quotes -> Nat]
    /\ bondFate \in [Quotes -> {"none", "submitted", "executed", "reverted"}]
    /\ form # "blank" => quoted \in Quotes
    /\ \A n \in Quotes : n > quoted => paid[n] = 0
    /\ \A n \in Quotes : bondFate[n] = "none" <=> paid[n] = 0
    /\ bond => paid[quoted] >= 1
    /\ form \in {"challenge", "paying", "prepared"} /\ ~bond => paid[quoted] = 0 \/ quoted \in mute
    /\ form = "paying" => ~bond
    /\ form \in {"awaiting", "opening", "finalizing"} => bond
    /\ OneBondPerPreview

SessionStep ==
    \/ SdkLoads \/ ProbeRejects \/ Disconnect \/ WalletEnds
    \/ \E k \in WalletKeys : WalletAnnounces(k)
    \/ \E k \in WalletKeys \cup {Demo, Nobody} : OtherTab(k)

ConnectStep ==
    \/ \E n \in Logins :
          \/ Connect(n) \/ AttemptGoesOn(n) \/ ConnectReturns(n) \/ ConnectFails(n) \/ PairingMoves(n)
          \/ \E k \in WalletKeys : PairingSignsIn(n, k)
    \/ CancelConnect

LEMMA SessionStartsTyped == WalletInit \/ (\E k \in WalletKeys : SignedIn(k)) => SessionInv
BY DEF WalletInit, SignedIn, SessionInv, SessionTypeOK, DialogHasAnEnd

LEMMA PersistIsTyped ==
    ASSUME SessionTypeOK, NEW k \in WalletKeys \cup {Demo, Nobody}, persistAccount(k) \/ keepSession
    PROVE  stored' \in WalletKeys \cup {Demo, Nobody} /\ memoryAccount' \in WalletKeys \cup {Demo, Nobody}
BY DEF SessionTypeOK, persistAccount, keepSession

LEMMA AbortIsTyped ==
    ASSUME SessionTypeOK
    PROVE  /\ afterAbort \in [Logins -> {"unused", "waiting", "open", "done"}]
           /\ abort => sdkAccount' \in WalletKeys \cup {Nobody}
<1>1. afterAbort \in [Logins -> {"unused", "waiting", "open", "done"}]
    BY DEF SessionTypeOK, afterAbort, PairingAborted
<1>2. abort => sdkAccount' \in WalletKeys \cup {Nobody}
    BY DEF SessionTypeOK, abort
<1> QED
    BY <1>1, <1>2

\* Whatever the SDK, the wallet and other tabs do, an attempt under way stays under way.
LEMMA WalletKeepsSession == ASSUME SessionInv, SessionStep PROVE SessionInv'
<1> USE DEF SessionInv
<1>1. CASE SdkLoads
    BY <1>1 DEF SdkLoads, SessionTypeOK, DialogHasAnEnd
<1>2. CASE ProbeRejects
    BY <1>2 DEF ProbeRejects, SessionTypeOK, DialogHasAnEnd
<1>3. CASE Disconnect
    <2>1. stored' \in WalletKeys \cup {Demo, Nobody} /\ memoryAccount' \in WalletKeys \cup {Demo, Nobody}
        BY <1>3, PersistIsTyped DEF Disconnect
    <2>2. attempts' \in [Logins -> {"unused", "waiting", "open", "done"}]
        BY <1>3, AbortIsTyped DEF Disconnect
    <2> QED
        BY <1>3, <2>1, <2>2 DEF Disconnect, SessionTypeOK, DialogHasAnEnd
<1>4. CASE WalletEnds
    <2>1. stored' \in WalletKeys \cup {Demo, Nobody} /\ memoryAccount' \in WalletKeys \cup {Demo, Nobody}
        BY <1>4, PersistIsTyped DEF WalletEnds
    <2> QED
        BY <1>4, <2>1 DEF WalletEnds, SessionTypeOK, DialogHasAnEnd
<1>5. ASSUME NEW k \in WalletKeys, WalletAnnounces(k) PROVE SessionInv'
    <2>1. stored' \in WalletKeys \cup {Demo, Nobody} /\ memoryAccount' \in WalletKeys \cup {Demo, Nobody}
        BY <1>5, PersistIsTyped DEF WalletAnnounces
    <2>2. provider' \in BOOLEAN
        BY <1>5, Zenon DEF WalletAnnounces, SessionTypeOK
    <2>3. /\ sdkAccount' = k
          /\ UNCHANGED <<sdk, rejected, blocked, route, dialog, inFlight, attempts>>
        BY <1>5, Zenon DEF WalletAnnounces
    <2> QED
        BY <1>5, <2>1, <2>2, <2>3 DEF SessionTypeOK, DialogHasAnEnd
<1>6. ASSUME NEW k \in WalletKeys \cup {Demo, Nobody}, OtherTab(k) PROVE SessionInv'
    BY <1>6 DEF OtherTab, SessionTypeOK, DialogHasAnEnd
<1> QED
    BY <1>1, <1>2, <1>3, <1>4, <1>5, <1>6 DEF SessionStep

LEMMA OutcomeKeepsSession ==
    ASSUME SessionInv, NEW n \in Logins, NEW k \in WalletKeys \cup {Nobody}, Outcome(n, k),
           sdkAccount' \in WalletKeys \cup {Nobody}, provider' = TRUE,
           UNCHANGED <<sdk, rejected, blocked, route>>
    PROVE  SessionInv'
<1> USE DEF SessionInv
<1>1. stored' \in WalletKeys \cup {Demo, Nobody} /\ memoryAccount' \in WalletKeys \cup {Demo, Nobody}
    BY PersistIsTyped DEF Outcome
<1>2. attempts' = [attempts EXCEPT ![n] = "done"] /\ (n # inFlight => UNCHANGED <<dialog, inFlight>>)
    BY DEF Outcome
<1>3. n = inFlight => dialog' = "idle" /\ inFlight' = 0
    BY DEF Outcome
<1> QED
    BY <1>1, <1>2, <1>3 DEF SessionTypeOK, DialogHasAnEnd

\* A dialog is up only while the attempt whose controller is current is under way.
LEMMA AttemptsKeepSession == ASSUME SessionInv, ConnectStep PROVE SessionInv'
<1> USE DEF SessionInv
<1>1. ASSUME NEW n \in Logins, Connect(n) PROVE SessionInv'
    <2>1. attempts' = [afterAbort EXCEPT ![n] = "waiting"] /\ sdkAccount' \in WalletKeys \cup {Nobody}
        BY <1>1, AbortIsTyped DEF Connect
    <2>2. attempts' \in [Logins -> {"unused", "waiting", "open", "done"}] /\ attempts'[n] = "waiting"
        BY <2>1, AbortIsTyped
    <2> QED
        BY <1>1, <2>1, <2>2, NoLoginIsZero DEF Connect, keepSession, SessionTypeOK, DialogHasAnEnd
<1>2. ASSUME NEW n \in Logins, AttemptGoesOn(n) PROVE SessionInv'
    <2>1. stored' \in WalletKeys \cup {Demo, Nobody} /\ memoryAccount' \in WalletKeys \cup {Demo, Nobody}
        BY <1>2, PersistIsTyped DEF AttemptGoesOn
    <2>2. UNCHANGED <<sdk, rejected, sdkAccount, provider, blocked, route>>
        BY <1>2 DEF AttemptGoesOn
    <2>3. CASE n # inFlight
        BY <1>2, <2>1, <2>2, <2>3 DEF AttemptGoesOn, SessionTypeOK, DialogHasAnEnd
    <2>4. CASE n = inFlight
        <3>1. \/ attempts' = [attempts EXCEPT ![n] = "done"] /\ inFlight' = 0 /\ dialog' \in {"idle", "error"}
              \/ attempts' = [attempts EXCEPT ![n] = "open"] /\ UNCHANGED <<dialog, inFlight>>
            BY <1>2, <2>4 DEF AttemptGoesOn
        <3> QED
            BY <2>1, <2>2, <2>4, <3>1 DEF SessionTypeOK, DialogHasAnEnd
    <2> QED
        BY <2>3, <2>4
<1>3. ASSUME NEW n \in Logins, ConnectReturns(n) PROVE SessionInv'
    <2>1. PICK k \in {sdkAccount, Nobody} : Outcome(n, k)
        BY <1>3 DEF ConnectReturns
    <2> QED
        BY <1>3, <2>1, OutcomeKeepsSession DEF ConnectReturns, SessionTypeOK
<1>4. ASSUME NEW n \in Logins, ConnectFails(n) PROVE SessionInv'
    BY <1>4 DEF ConnectFails, keepSession, SessionTypeOK, DialogHasAnEnd
<1>5. ASSUME NEW n \in Logins, PairingMoves(n) PROVE SessionInv'
    BY <1>5, NoLoginIsZero DEF PairingMoves, keepSession, SessionTypeOK, DialogHasAnEnd
<1>6. ASSUME NEW n \in Logins, NEW k \in WalletKeys, PairingSignsIn(n, k) PROVE SessionInv'
    BY <1>6, OutcomeKeepsSession DEF PairingSignsIn
<1>7. CASE CancelConnect
    <2>1. attempts' = afterAbort /\ sdkAccount' \in WalletKeys \cup {Nobody}
        BY <1>7, AbortIsTyped DEF CancelConnect
    <2> QED
        BY <1>7, <2>1, AbortIsTyped DEF CancelConnect, keepSession, SessionTypeOK, DialogHasAnEnd
<1> QED
    BY <1>1, <1>2, <1>3, <1>4, <1>5, <1>6, <1>7 DEF ConnectStep

LEMMA ReloadKeepsSession == SessionInv /\ reloaded => SessionInv'
BY DEF reloaded, SessionInv, SessionTypeOK, DialogHasAnEnd

LEMMA SessionStutters == SessionInv /\ UNCHANGED walletVars => SessionInv'
BY DEF walletVars, SessionInv, SessionTypeOK, DialogHasAnEnd

-----------------------------------------------------------------------------
(***************************************************************************)
(* The bet panel                                                           *)
(***************************************************************************)

BetPanelStep ==
    \/ \E p \in Presses :
          \/ PlaceBet(p) \/ BetPrepared(p) \/ PrepareToSign(p) \/ WalletSigns(p) \/ WalletDeclines(p)
          \/ OperatorPlaces(p) \/ ChainDecides(p) \/ PollVerdict(p)
    \/ BettingCloses

LEMMA PanelStarts == PagesInit => BetPanelInv
BY OperatorIsNoVisitor DEF PagesInit, BetPanelInv, BetPanelTypeOK, PressIsTrue, StakesAreTheVisitors, Standings

\* What holds of one press moves with that press alone.
LEMMA OnePressMoves ==
    ASSUME BetPanelInv, NEW p \in Presses,
           \A r \in Presses \ {p} : /\ bet'[r] = bet[r] /\ payer'[r] = payer[r] /\ fate'[r] = fate[r]
                                    /\ r \in onBoards \cup unindexed => r \in (onBoards \cup unindexed)',
           provider => provider',
           BetPanelTypeOK', PressIsTrue(p)',
           payer'[p] = Operator => ~bet'[p].signs \/ bet'[p].code501,
           payer'[p] \notin {Nobody, Operator} => payer'[p] = bet'[p].as /\ bet'[p].signs
    PROVE  BetPanelInv'
<1>1. ASSUME NEW r \in Presses PROVE PressIsTrue(r)'
    <2>1. CASE r = p
        BY <2>1
    <2>2. CASE r # p
        <3>1. /\ bet'[r] = bet[r] /\ payer'[r] = payer[r] /\ fate'[r] = fate[r]
              /\ r \in onBoards \cup unindexed => r \in (onBoards \cup unindexed)'
            BY <1>1, <2>2
        <3>2. PressIsTrue(r)
            BY <1>1 DEF BetPanelInv
        <3>3. bet[r].at = "signing" => provider'
            BY <3>2, Zenon DEF PressIsTrue
        <3> QED
            BY <3>1, <3>2, <3>3 DEF PressIsTrue
    <2> QED
        BY <2>1, <2>2
<1>2. StakesAreTheVisitors'
    <2> SUFFICES ASSUME NEW r \in Presses
                 PROVE  /\ payer'[r] = Operator => ~bet'[r].signs \/ bet'[r].code501
                        /\ payer'[r] \notin {Nobody, Operator} => payer'[r] = bet'[r].as /\ bet'[r].signs
                        /\ bet'[r].at = "declined" => payer'[r] = Nobody
        BY Zenon DEF StakesAreTheVisitors
    <2>1. bet'[r].at = "declined" => payer'[r] = Nobody
        BY <1>1 DEF PressIsTrue
    <2>2. CASE r = p
        BY <2>1, <2>2
    <2>3. CASE r # p
        BY <2>1, <2>3 DEF BetPanelInv, StakesAreTheVisitors
    <2> QED
        BY <2>2, <2>3
<1> QED
    BY <1>1, <1>2 DEF BetPanelInv

LEMMA PressKeepsPanel ==
    ASSUME SessionInv, BetPanelInv, NEW p \in Presses,
           PlaceBet(p) \/ BetPrepared(p) \/ PrepareToSign(p) \/ WalletDeclines(p)
    PROVE  BetPanelInv'
<1> USE DEF BetPanelInv
<1>0. PressIsTrue(p) /\ bet[p] \in [at : Standings, as : WalletKeys \cup {Demo, Nobody}, signs : BOOLEAN, code501 : BOOLEAN]
    BY DEF BetPanelTypeOK
<1>1. CASE PlaceBet(p)
    <2> DEFINE placed == [at |-> IF canSign THEN "preparing" ELSE "operator", as |-> readWallet,
                          signs |-> canSign, code501 |-> FALSE]
    <2>1. bet' = [r \in Presses |-> IF r = p THEN placed ELSE bet[r]]
        <3>1. \A r \in Presses : bet[r].at # "pending"
            BY <1>1, Zenon DEF PlaceBet, confirming
        <3> QED
            BY <1>1, <3>1, Zenon DEF PlaceBet
    <2>2. readWallet \in WalletKeys \cup {Demo} /\ bet[p].at = "unused"
        BY <1>1 DEF PlaceBet, readWallet, SessionInv, SessionTypeOK
    <2>3. canSign \in BOOLEAN
        BY DEF canSign, available
    <2>4. placed \in [at : Standings, as : WalletKeys \cup {Demo, Nobody}, signs : BOOLEAN, code501 : BOOLEAN]
        BY <2>2, <2>3 DEF Standings
    <2>5. /\ (placed.at = "preparing" /\ placed.signs) \/ (placed.at = "operator" /\ ~placed.signs)
          /\ placed.as = readWallet
        <3>1. placed.at = (IF canSign THEN "preparing" ELSE "operator") /\ placed.as = readWallet
            OBVIOUS
        <3>2. canSign => placed.at = "preparing" /\ placed.signs
            BY Zenon
        <3>3. ~canSign => placed.at = "operator" /\ ~placed.signs
            BY Zenon
        <3> QED
            BY <3>1, <3>2, <3>3
    <2> HIDE DEF placed
    <2>6. BetPanelTypeOK'
        BY <1>1, <2>1, <2>4 DEF PlaceBet, BetPanelTypeOK
    <2>7. PressIsTrue(p)' /\ payer'[p] = Nobody
        BY <1>0, <1>1, <2>1, <2>2, <2>5, AccountsAreApart DEF PlaceBet, PressIsTrue
    <2> QED
        BY <1>1, <2>1, <2>6, <2>7, OnePressMoves, OperatorIsNoVisitor DEF PlaceBet, walletVars
<1>2. CASE BetPrepared(p)
    <2>1. \/ bet' = [bet EXCEPT ![p].at = "preflight"]
          \/ bet' = [bet EXCEPT ![p].at = "operator", ![p].code501 = TRUE]
          \/ bet' = [bet EXCEPT ![p].at = "error"]
        BY <1>2 DEF BetPrepared, At
    <2>2. BetPanelTypeOK'
        BY <1>2, <2>1 DEF BetPrepared, BetPanelTypeOK, Standings
    <2>3. PressIsTrue(p)' /\ payer'[p] = Nobody
        BY <1>0, <1>2, <2>1 DEF BetPrepared, PressIsTrue, BetPanelTypeOK
    <2>4. \A r \in Presses \ {p} : bet'[r] = bet[r]
        BY <2>1 DEF BetPanelTypeOK
    <2> QED
        BY <1>2, <2>2, <2>3, <2>4, OnePressMoves, OperatorIsNoVisitor DEF BetPrepared, walletVars
<1>3. CASE PrepareToSign(p)
    <2>1. \/ bet' = [bet EXCEPT ![p].at = "signing"] /\ provider' = TRUE
          \/ bet' = [bet EXCEPT ![p].at = "error"] /\ provider' = provider
        BY <1>3 DEF PrepareToSign, At
    <2>2. BetPanelTypeOK'
        BY <1>3, <2>1 DEF PrepareToSign, BetPanelTypeOK, Standings
    <2>3. PressIsTrue(p)' /\ payer'[p] = Nobody
        BY <1>0, <1>3, <2>1 DEF PrepareToSign, PressIsTrue, BetPanelTypeOK
    <2>4. \A r \in Presses \ {p} : bet'[r] = bet[r]
        BY <2>1 DEF BetPanelTypeOK
    <2> QED
        BY <1>3, <2>1, <2>2, <2>3, <2>4, OnePressMoves, OperatorIsNoVisitor DEF PrepareToSign
<1>4. CASE WalletDeclines(p)
    <2>1. bet' = [bet EXCEPT ![p].at = "declined"]
        BY <1>4 DEF WalletDeclines, Declined, At
    <2>2. BetPanelTypeOK'
        BY <1>4, <2>1, ZenonT(40) DEF WalletDeclines, BetPanelTypeOK, Standings
    <2>3. PressIsTrue(p)' /\ payer'[p] = Nobody
        BY <1>0, <1>4, <2>1 DEF WalletDeclines, PressIsTrue, BetPanelTypeOK
    <2>4. \A r \in Presses \ {p} : bet'[r] = bet[r]
        BY <2>1 DEF BetPanelTypeOK
    <2> QED
        BY <1>4, <2>2, <2>3, <2>4, OnePressMoves, OperatorIsNoVisitor DEF WalletDeclines, walletVars
<1> QED
    BY <1>1, <1>2, <1>3, <1>4

\* Escrowed by the account that pressed, which is nobody's and not the operator's, or by the
\* operator for a press that had no signer.
LEMMA EscrowKeepsPanel ==
    ASSUME BetPanelInv, NEW p \in Presses,
           WalletSigns(p) \/ OperatorPlaces(p) \/ ChainDecides(p) \/ PollVerdict(p)
    PROVE  BetPanelInv'
<1> USE DEF BetPanelInv
<1>0. PressIsTrue(p) /\ bet[p] \in [at : Standings, as : WalletKeys \cup {Demo, Nobody}, signs : BOOLEAN, code501 : BOOLEAN]
    BY DEF BetPanelTypeOK
<1>1. CASE WalletSigns(p)
    <2>1. \E s \in {"pending", "error"} : bet' = [bet EXCEPT ![p].at = s]
        BY <1>1 DEF WalletSigns, At
    <2>2. payer' = [payer EXCEPT ![p] = bet[p].as] /\ fate' = [fate EXCEPT ![p] = "submitted"]
        BY <1>1 DEF WalletSigns
    <2>3. BetPanelTypeOK'
        BY <1>0, <2>1, <2>2 DEF BetPanelTypeOK, Standings
    <2>4. PressIsTrue(p)' /\ payer'[p] = bet'[p].as /\ payer'[p] # Operator /\ bet'[p].signs
        BY <1>0, <1>1, <2>1, <2>2, OperatorIsNoVisitor DEF WalletSigns, PressIsTrue, BetPanelTypeOK
    <2>5. \A r \in Presses \ {p} : bet'[r] = bet[r] /\ payer'[r] = payer[r] /\ fate'[r] = fate[r]
        BY <2>1, <2>2 DEF BetPanelTypeOK
    <2> QED
        BY <1>1, <2>3, <2>4, <2>5, OnePressMoves DEF WalletSigns, walletVars
<1>2. CASE OperatorPlaces(p)
    <2>1. CASE At(p, "error") /\ UNCHANGED <<payer, fate, onBoards, unindexed, marketIs>>
        <3>1. BetPanelTypeOK'
            BY <2>1 DEF At, BetPanelTypeOK, Standings
        <3>2. PressIsTrue(p)' /\ payer'[p] = Nobody
            BY <1>0, <1>2, <2>1 DEF At, OperatorPlaces, PressIsTrue, BetPanelTypeOK
        <3>3. \A r \in Presses \ {p} : bet'[r] = bet[r]
            BY <2>1 DEF At, BetPanelTypeOK
        <3> QED
            BY <1>2, <2>1, <3>1, <3>2, <3>3, OnePressMoves, OperatorIsNoVisitor DEF OperatorPlaces, walletVars
    <2>2. CASE ~(At(p, "error") /\ UNCHANGED <<payer, fate, onBoards, unindexed, marketIs>>)
        <3>1. PICK answer \in {"pending", "confirmed"}, indexed \in BOOLEAN, lost \in BOOLEAN :
                /\ payer' = [payer EXCEPT ![p] = Operator]
                /\ fate' = [fate EXCEPT ![p] = IF answer = "pending" THEN "submitted" ELSE "executed"]
                /\ onBoards' = IF answer = "confirmed" /\ indexed THEN onBoards \cup {p} ELSE onBoards
                /\ unindexed' = IF answer = "confirmed" /\ ~indexed THEN unindexed \cup {p} ELSE unindexed
                /\ marketIs' = IF answer = "confirmed" /\ ~indexed THEN "closed" ELSE marketIs
                /\ bet' = [bet EXCEPT ![p].at = IF lost THEN "error" ELSE answer]
            BY <1>2, <2>2, ZenonT(30) DEF OperatorPlaces, At
        <3>2. BetPanelTypeOK'
            BY <3>1 DEF BetPanelTypeOK, Standings
        <3>3. answer = "confirmed" => p \in (onBoards \cup unindexed)'
            BY <3>1
        <3>4. PressIsTrue(p)' /\ payer'[p] = Operator /\ (~bet'[p].signs \/ bet'[p].code501)
            BY <1>0, <1>2, <3>1, <3>3 DEF OperatorPlaces, PressIsTrue, BetPanelTypeOK
        <3>5. \A r \in Presses \ {p} : bet'[r] = bet[r] /\ payer'[r] = payer[r] /\ fate'[r] = fate[r]
            BY <3>1 DEF BetPanelTypeOK
        <3>6. onBoards \cup unindexed \subseteq (onBoards \cup unindexed)'
            BY <3>1
        <3> QED
            BY <1>2, <3>2, <3>4, <3>5, <3>6, OnePressMoves DEF OperatorPlaces, walletVars
    <2> QED
        BY <2>1, <2>2
<1>3. CASE ChainDecides(p)
    <2>1. PICK f \in {"executed", "reverted"} : fate' = [fate EXCEPT ![p] = f]
        BY <1>3 DEF ChainDecides
    <2>2. BetPanelTypeOK'
        BY <1>3, <2>1 DEF ChainDecides, BetPanelTypeOK
    <2>3. fate[p] = "submitted" /\ UNCHANGED <<walletVars, bet, payer, onBoards, unindexed>>
        BY <1>3 DEF ChainDecides
    <2>4. PressIsTrue(p)'
        BY <1>0, <2>1, <2>3 DEF PressIsTrue, BetPanelTypeOK, walletVars
    <2>5. \A r \in Presses \ {p} : fate'[r] = fate[r]
        BY <2>1 DEF BetPanelTypeOK
    <2> QED
        BY <2>2, <2>3, <2>4, <2>5, OnePressMoves DEF walletVars, StakesAreTheVisitors
<1>4. CASE PollVerdict(p)
    <2>0. ConfirmIndexes(p) => /\ onBoards \subseteq onBoards' /\ unindexed \subseteq unindexed'
                               /\ p \in (onBoards \cup unindexed)'
        BY DEF ConfirmIndexes
    <2>1. \/ bet' = bet
          \/ bet' = [bet EXCEPT ![p].at = "confirmed"] /\ p \in (onBoards \cup unindexed)'
          \/ bet' = [bet EXCEPT ![p].at = "failed"] /\ fate[p] = "reverted"
          \/ bet' = [bet EXCEPT ![p].at = "unconfirmed"]
        BY <1>4, <2>0, Zenon DEF PollVerdict, At
    <2>2. /\ bet[p].at = "pending" /\ UNCHANGED <<walletVars, payer, fate>>
          /\ onBoards \subseteq onBoards' /\ unindexed \subseteq unindexed'
        BY <1>4, <2>0 DEF PollVerdict
    <2>3. BetPanelTypeOK'
        BY <2>1, <2>2 DEF BetPanelTypeOK, Standings
    <2>4. PressIsTrue(p)' /\ bet'[p].as = bet[p].as /\ bet'[p].signs = bet[p].signs /\ bet'[p].code501 = bet[p].code501
        BY <1>0, <2>1, <2>2 DEF PressIsTrue, BetPanelTypeOK, walletVars
    <2>5. \A r \in Presses \ {p} : bet'[r] = bet[r]
        BY <2>1 DEF BetPanelTypeOK
    <2> QED
        BY <2>2, <2>3, <2>4, <2>5, OnePressMoves DEF walletVars, StakesAreTheVisitors
<1> QED
    BY <1>1, <1>2, <1>3, <1>4

\* The session may change under the panel; a provider that is live stays live until a reload.
LEMMA SessionKeepsPanel ==
    ASSUME BetPanelInv, UNCHANGED <<bet, payer, fate, onBoards, unindexed>>, provider => provider'
    PROVE  BetPanelInv'
<1>1. ASSUME NEW r \in Presses PROVE PressIsTrue(r)'
    <2>1. bet[r].at = "signing" => provider'
        BY Zenon DEF PressIsTrue, BetPanelInv
    <2> QED
        BY <2>1 DEF PressIsTrue, BetPanelInv
<1> QED
    BY <1>1 DEF BetPanelInv, BetPanelTypeOK, StakesAreTheVisitors

LEMMA ProviderStaysLive == SessionStep => (provider => provider')
<1>1. ASSUME NEW k, WalletAnnounces(k), provider PROVE provider'
    <2>1. provider' = provider \/ provider' = (provider \/ \E n \in Logins : attempts[n] = "open")
        BY <1>1, Zenon DEF WalletAnnounces
    <2> QED
        BY <1>1, <2>1, Zenon
<1> QED
    BY <1>1, Zenon DEF SessionStep, SdkLoads, ProbeRejects, Disconnect, WalletEnds, OtherTab

LEMMA ReloadKeepsPanel == ASSUME BetPanelInv, Reload PROVE BetPanelInv'
<1> USE DEF BetPanelInv
<1>1. bet' = [p \in Presses |-> IF bet[p].at \in {"preparing", "preflight", "signing", "operator", "pending"}
                                THEN [bet[p] EXCEPT !.at = "left"] ELSE bet[p]]
    BY Zenon DEF Reload
<1>2. UNCHANGED <<payer, fate, onBoards, unindexed>>
    BY DEF Reload
<1>3. ASSUME NEW p \in Presses
      PROVE  /\ bet'[p] \in [at : Standings, as : WalletKeys \cup {Demo, Nobody}, signs : BOOLEAN, code501 : BOOLEAN]
             /\ bet'[p].at = bet[p].at \/ (bet'[p].at = "left" /\ bet[p].at # "unused")
             /\ bet'[p].as = bet[p].as /\ bet'[p].signs = bet[p].signs /\ bet'[p].code501 = bet[p].code501
             /\ bet'[p].at # "signing"
    <2>0. bet[p] \in [at : Standings, as : WalletKeys \cup {Demo, Nobody}, signs : BOOLEAN, code501 : BOOLEAN]
        BY DEF BetPanelTypeOK
    <2>1. CASE bet[p].at \in {"preparing", "preflight", "signing", "operator", "pending"}
        BY <1>1, <2>0, <2>1 DEF Standings
    <2>2. CASE bet[p].at \notin {"preparing", "preflight", "signing", "operator", "pending"}
        BY <1>1, <2>0, <2>2
    <2> QED
        BY <2>1, <2>2
<1>4. BetPanelTypeOK'
    BY <1>1, <1>2, <1>3 DEF BetPanelTypeOK
<1>5. ASSUME NEW p \in Presses PROVE PressIsTrue(p)'
    BY <1>2, <1>3, <1>5 DEF PressIsTrue
<1>6. StakesAreTheVisitors'
    BY <1>2, <1>3 DEF StakesAreTheVisitors
<1> QED
    BY <1>4, <1>5, <1>6

LEMMA PanelStutters == BetPanelInv /\ UNCHANGED visitorVars => BetPanelInv'
BY SessionKeepsPanel DEF visitorVars, walletVars, betPanelVars

LEMMA PanelKeepsSession == ASSUME SessionInv, BetPanelStep PROVE SessionInv'
<1>1. ASSUME NEW p \in Presses, PrepareToSign(p) PROVE SessionInv'
    <2>1. provider' \in BOOLEAN
        BY <1>1 DEF PrepareToSign, SessionInv, SessionTypeOK
    <2> QED
        BY <1>1, <2>1 DEF PrepareToSign, SessionInv, SessionTypeOK, DialogHasAnEnd
<1>2. (\E p \in Presses : PrepareToSign(p)) \/ UNCHANGED walletVars
    BY Zenon DEF BetPanelStep, PlaceBet, BetPrepared, WalletSigns, WalletDeclines, OperatorPlaces, ChainDecides, PollVerdict,
              BettingCloses
<1> QED
    BY <1>1, <1>2, SessionStutters

LEMMA PanelInvFollows == BetPanelInv => StakesAreTheVisitors /\ EscrowsAreFollowed /\ WalletWasAsked
<1>1. BetPanelInv => EscrowsAreFollowed
    BY DEF BetPanelInv, BetPanelTypeOK, PressIsTrue, Standings, EscrowsAreFollowed
<1>2. BetPanelInv => WalletWasAsked
    BY Zenon DEF BetPanelInv, PressIsTrue, WalletWasAsked
<1> QED
    BY <1>1, <1>2 DEF BetPanelInv

-----------------------------------------------------------------------------
(***************************************************************************)
(* The create page                                                         *)
(***************************************************************************)

FormStep ==
    \/ RequestChallenge \/ PayAndCreate \/ SignBond \/ AwaitBond \/ OpenMarket \/ SignAndCreate \/ FinalizePoll
    \/ \E n \in Quotes : BondDecided(n)

LEMMA FormStarts == PagesInit => FormInv
<1> SUFFICES ASSUME PagesInit PROVE FormInv
    OBVIOUS
<1>1. form = "blank" /\ quoted = 0 /\ bond \in BOOLEAN /\ ~bond
    BY Zenon DEF PagesInit
<1>2. /\ bondFate = [n \in Quotes |-> "none"] /\ paid = [n \in Quotes |-> 0]
    BY DEF PagesInit
<1>3. \A n \in Quotes : paid[n] = 0 /\ bondFate[n] = "none"
    BY <1>2
<1>4. OneBondPerPreview
    BY <1>1, <1>3 DEF OneBondPerPreview
<1> QED
    BY <1>1, <1>2, <1>3, <1>4 DEF FormInv

\* A payment is made for the preview in hand, which had none unless the wallet hid it.
LEMMA PaymentKeepsForm ==
    ASSUME FormInv, quoted \in Quotes, paid[quoted] = 0 \/ quoted \in mute,
           bondFate' = [bondFate EXCEPT ![quoted] = "submitted"],
           paid' = [paid EXCEPT ![quoted] = @ + 1],
           \/ form' \in {"awaiting", "finalizing"} /\ bond' = TRUE /\ UNCHANGED mute
           \/ form' \in {"challenge", "prepared"} /\ mute' = mute \cup {quoted} /\ UNCHANGED bond,
           UNCHANGED quoted
    PROVE  FormInv'
<1> USE DEF FormInv
<1>1. paid' \in [Quotes -> Nat] /\ bondFate' \in [Quotes -> {"none", "submitted", "executed", "reverted"}]
    OBVIOUS
<1>2. paid'[quoted] = paid[quoted] + 1 /\ \A n \in Quotes : n # quoted => paid'[n] = paid[n]
    OBVIOUS
<1>3. bondFate'[quoted] = "submitted" /\ \A n \in Quotes : n # quoted => bondFate'[n] = bondFate[n]
    OBVIOUS
<1>4. mute \subseteq mute'
    OBVIOUS
<1>5. \A n \in Quotes : paid'[n] <= 1 \/ n \in mute'
    BY <1>1, <1>2, <1>4 DEF OneBondPerPreview
<1>6. \A n \in Quotes : n > quoted => paid'[n] = 0
    BY <1>2, QuotesAreNumbered
<1>7. \A n \in Quotes : bondFate'[n] = "none" <=> paid'[n] = 0
    BY <1>1, <1>2, <1>3
<1>8. paid'[quoted] >= 1
    BY <1>2
<1> QED
    BY <1>1, <1>5, <1>6, <1>7, <1>8 DEF OneBondPerPreview

LEMMA FormKeepsInv == ASSUME FormInv, FormStep PROVE FormInv'
<1> USE DEF FormInv
<1>1. CASE RequestChallenge
    <2>1. quoted' = quoted + 1 /\ quoted' \in Quotes /\ form' \in {"challenge", "prepared", "blank"}
          /\ UNCHANGED <<bondFate, paid, mute>>
        BY <1>1 DEF RequestChallenge
    <2>2. bond' \in BOOLEAN /\ ~bond'
        BY <1>1, Zenon DEF RequestChallenge
    <2>3. paid[quoted'] = 0
        BY <2>1
    <2>4. \A n \in Quotes : n > quoted' => paid[n] = 0
        BY <2>1, QuotesAreNumbered
    <2>5. OneBondPerPreview'
        BY <2>1 DEF OneBondPerPreview
    <2> QED
        BY <2>1, <2>2, <2>3, <2>4, <2>5
<1>2. CASE PayAndCreate
    <2>1. /\ form = "challenge" /\ UNCHANGED <<quoted, bond, bondFate, paid, mute>>
          /\ bond => form' = "awaiting"
          /\ ~bond => form' = "paying"
        BY <1>2 DEF PayAndCreate, BondInHand
    <2>2. \A n \in Quotes : paid'[n] <= 1 \/ n \in mute'
        BY <2>1 DEF OneBondPerPreview
    <2>3. CASE bond
        BY <2>1, <2>2, <2>3 DEF OneBondPerPreview
    <2>4. CASE ~bond
        BY <2>1, <2>2, <2>4 DEF OneBondPerPreview
    <2> QED
        BY <2>3, <2>4
<1>3. CASE SignBond
    <2>1. form = "paying" /\ quoted \in Quotes /\ ~bond
        BY <1>3 DEF SignBond
    <2>2. CASE form' = "challenge" /\ UNCHANGED <<bond, bondFate, paid, mute>>
        BY <1>3, <2>1, <2>2 DEF SignBond, OneBondPerPreview
    <2>3. CASE ~(form' = "challenge" /\ UNCHANGED <<bond, bondFate, paid, mute>>)
        BY <1>3, <2>1, <2>3, PaymentKeepsForm DEF SignBond
    <2> QED
        BY <2>2, <2>3
<1>4. CASE AwaitBond
    BY <1>4 DEF AwaitBond, OneBondPerPreview
<1>5. CASE OpenMarket
    BY <1>5 DEF OpenMarket, OneBondPerPreview
<1>6. CASE SignAndCreate
    <2>1. CASE UNCHANGED <<form, bond, bondFate, paid, mute>>
        BY <1>6, <2>1 DEF SignAndCreate, OneBondPerPreview
    <2>2. CASE ~UNCHANGED <<form, bond, bondFate, paid, mute>>
        <3>1. form = "prepared" /\ quoted \in Quotes /\ bondFate[quoted] = "none"
            BY <1>6, <2>2 DEF SignAndCreate
        <3>2. paid[quoted] = 0
            BY <3>1
        <3> QED
            BY <1>6, <2>2, <3>1, <3>2, PaymentKeepsForm DEF SignAndCreate
    <2> QED
        BY <2>1, <2>2
<1>7. CASE FinalizePoll
    BY <1>7 DEF FinalizePoll, OneBondPerPreview
<1>8. ASSUME NEW n \in Quotes, BondDecided(n) PROVE FormInv'
    <2>1. bondFate[n] = "submitted" /\ UNCHANGED <<form, quoted, bond, paid, mute>>
        BY <1>8 DEF BondDecided
    <2>2. PICK f \in {"executed", "reverted"} : bondFate' = [bondFate EXCEPT ![n] = f]
        BY <1>8 DEF BondDecided
    <2>3. \A m \in Quotes : bondFate'[m] = "none" <=> bondFate[m] = "none"
        BY <2>1, <2>2
    <2>4. bondFate' \in [Quotes -> {"none", "submitted", "executed", "reverted"}]
        BY <2>2
    <2> QED
        BY <2>1, <2>3, <2>4 DEF OneBondPerPreview
<1> QED
    BY <1>1, <1>2, <1>3, <1>4, <1>5, <1>6, <1>7, <1>8 DEF FormStep

\* A reload forgets the form, and with it the bond, but not what was paid.
LEMMA ReloadKeepsForm == FormInv /\ Reload => FormInv'
BY ZenonT(40) DEF Reload, FormInv, OneBondPerPreview

LEMMA FormStutters == FormInv /\ UNCHANGED <<createPageVars, mute>> => FormInv'
BY DEF createPageVars, FormInv, OneBondPerPreview

LEMMA FormInvFollows == FormInv => OneBondPerPreview
BY DEF FormInv

-----------------------------------------------------------------------------
(***************************************************************************)
(* The connector                                                           *)
(***************************************************************************)

\* The records' fields; what the accounts a phone shares may be is not needed.
TabShape ==
    /\ tab.sdk \in {"loading", "loaded"}
    /\ tab = [sdk |-> tab.sdk, probe |-> tab.probe, rejected |-> tab.rejected, newTab |-> tab.newTab,
              disarmed |-> tab.disarmed, marked |-> tab.marked, account |-> tab.account, session |-> tab.session]

LoginShape ==
    /\ login.leg \in {"click", "resume"}
    /\ login = [step |-> login.step, leg |-> login.leg, waited |-> login.waited, transport |-> login.transport,
                answer |-> login.answer, polls |-> login.polls, accounts |-> login.accounts, raw |-> login.raw,
                pending |-> login.pending, result |-> login.result]

VisitOK == visit \in VisitType /\ (visit.inApp => visit.injected)

\* What an attempt is at its step.
LoginIsTrue ==
    /\ login.step = "idle" => login = noLogin
    /\ login.step # "over" => login.result = "none"
    /\ login.step \in {"idle", "waiting", "pairing", "choosing", "prompting", "signing in"} => login.answer = "none"
    /\ login.step = "prompting" /\ login.transport = "casper-wallet" => visit.injected
    /\ login.step = "settling" /\ login.answer = "approved" => visit.injected
    /\ login.pending # {} => login.step \in {"choosing", "over"}
    /\ login.raw = login.accounts /\ \A p \in login.pending : p[1] = p[2]

ConnectorInv ==
    /\ TabShape /\ LoginShape /\ VisitOK /\ LoginIsTrue
    /\ RouteCanWork /\ DemoIsTheLastResort /\ AnswerIsHeard /\ ShownAccountIsBacked

ConnectorNext ==
    \/ BundleRuns
    \/ \E says \in ProbeVerdicts(csprClickAppId) : probeCsprClickAppId(says)
    \/ Clicks \/ Resumes \/ SdkIsReady \/ WaitRunsOut
    \/ \E says \in {"approved", "refused", "closed", "failed"} : WalletAnswers(says)
    \/ accountAfterConnect
    \/ \E k \in WalletKeys \cup {Nobody} : signIn(k)
    \/ \E entries \in Shared : PhoneShares(entries)
    \/ \E i \in DOMAIN login.accounts : choose(i)
    \/ \E p \in login.pending : SignedInWith(p)
    \/ \E p \in login.pending : SignInFails(p)
    \/ \E result \in {"cancelled", "failed"} : PairingFails(result)
    \/ onAbort
    \/ \E event \in ProviderEvents, k \in WalletKeys \cup {Nobody} : WalletSays(event, k)
    \/ OpensInWallet

\* What detectWalletTransport answers says what is not there.
LEMMA TransportIsTheFirst ==
    /\ detectWalletTransport = "casper-wallet" => visit.injected \/ visit.touch
    /\ detectWalletTransport = "walletconnect" => visit.project /\ ~visit.injected
    /\ detectWalletTransport = "none" => ~visit.injected /\ ~visit.touch /\ ~visit.metamask /\ ~visit.project
<1> DEFINE usable == {n \in DOMAIN CONNECT_ORDER : visit.project \/ CONNECT_ORDER[n] \notin REMOTE_ONLY_PROVIDERS}
           here == {n \in usable : isProviderPresent(CONNECT_ORDER[n])}
           first == CHOOSE n \in here : \A m \in here : n <= m
<1>1. /\ DOMAIN CONNECT_ORDER = {1, 2, 3}
      /\ CONNECT_ORDER[1] = "casper-wallet" /\ CONNECT_ORDER[2] = "metamask-snap" /\ CONNECT_ORDER[3] = "walletconnect"
    BY DEF CONNECT_ORDER
<1>2. /\ 1 \in here <=> visit.injected \/ visit.touch
      /\ 2 \in here <=> visit.metamask
      /\ 3 \in here <=> visit.project
    BY <1>1 DEF REMOTE_ONLY_PROVIDERS, isProviderPresent
<1>3. here \subseteq {1, 2, 3}
    BY <1>1
<1>4. here # {} => first \in here /\ \A m \in here : first <= m
    <2>1. here # {} => \E n \in here : \A m \in here : n <= m
        <3>1. CASE 1 \in here
            BY <1>3, <3>1
        <3>2. CASE 1 \notin here /\ 2 \in here
            BY <1>3, <3>2
        <3>3. CASE 1 \notin here /\ 2 \notin here
            BY <1>3, <3>3
        <3> QED
            BY <3>1, <3>2, <3>3
    <2> HIDE DEF here
    <2> QED
        BY <2>1
<1>5. detectWalletTransport = IF ~visit.asks THEN "undetectable" ELSE IF here = {} THEN "none" ELSE CONNECT_ORDER[first]
    BY DEF detectWalletTransport, firstAvailableProvider
<1> HIDE DEF here, first
<1>6. CASE here = {}
    BY <1>2, <1>5, <1>6
<1>7. CASE here # {} /\ visit.asks
    <2>1. first \in here /\ first \in {1, 2, 3} /\ \A m \in here : first <= m
        BY <1>3, <1>4, <1>7
    <2>2. detectWalletTransport = CONNECT_ORDER[first]
        BY <1>5, <1>7
    <2>3. CASE first = 1
        BY <1>1, <1>2, <2>1, <2>2, <2>3
    <2>4. CASE first = 2
        BY <1>1, <2>2, <2>4
    <2>5. CASE first = 3
        <3>1. 1 \notin here
            BY <2>1, <2>5
        <3> QED
            BY <1>1, <1>2, <2>1, <2>2, <2>5, <3>1
    <2> QED
        BY <2>1, <2>3, <2>4, <2>5
<1>8. CASE here # {} /\ ~visit.asks
    BY <1>5, <1>8
<1> QED
    BY <1>6, <1>7, <1>8

LEMMA ConnectorStarts == ConnectorInit => ConnectorInv
<1> SUFFICES ASSUME ConnectorInit PROVE ConnectorInv
    OBVIOUS
<1>1. tab = freshTab(FALSE, visit.kept) /\ login = noLogin /\ visit \in Visits
    BY DEF ConnectorInit
<1>2. VisitOK
    BY <1>1, VisitsArePossible DEF VisitOK
<1>3. TabShape /\ LoginShape
    BY <1>1 DEF TabShape, LoginShape, freshTab, noLogin
<1>4. LoginIsTrue
    BY <1>1 DEF LoginIsTrue, noLogin
<1>5. RouteCanWork /\ DemoIsTheLastResort /\ AnswerIsHeard /\ ShownAccountIsBacked
    BY <1>1, AccountsAreApart DEF freshTab, noLogin, RouteCanWork, DemoIsTheLastResort, AnswerIsHeard, ShownAccountIsBacked
<1> QED
    BY <1>2, <1>3, <1>4, <1>5 DEF ConnectorInv

\* The SDK arrives, or CSPR.click says what it thinks of the id: no attempt moves.
LEMMA PageKeepsConnector ==
    ASSUME ConnectorInv, BundleRuns \/ \E says \in ProbeVerdicts(csprClickAppId) : probeCsprClickAppId(says)
    PROVE  ConnectorInv'
<1> USE DEF ConnectorInv
<1>1. /\ UNCHANGED <<visit, login>>
      /\ \/ tab' = [tab EXCEPT !.sdk = "loaded"]
         \/ \E says \in ProbeVerdicts(csprClickAppId) :
               tab' = [tab EXCEPT !.probe = "over", !.rejected = says \in {"wrong application id", "not found"}]
    BY DEF BundleRuns, probeCsprClickAppId
<1>2. /\ tab'.newTab = tab.newTab /\ tab'.disarmed = tab.disarmed /\ tab'.account = tab.account /\ tab'.session = tab.session
      /\ TabShape'
    BY <1>1, Zenon DEF TabShape
<1>3. VisitOK' /\ LoginIsTrue' /\ LoginShape' /\ RouteCanWork' /\ AnswerIsHeard' /\ ShownAccountIsBacked'
    <2>1. UNCHANGED <<visit, login>>
        BY <1>1
    <2>2. VisitOK' /\ LoginIsTrue' /\ LoginShape'
        BY <1>2, <2>1 DEF VisitOK, LoginIsTrue, LoginShape
    <2>3. RouteCanWork' /\ AnswerIsHeard' /\ ShownAccountIsBacked'
        BY <1>2, <2>1 DEF RouteCanWork, AnswerIsHeard, ShownAccountIsBacked
    <2> QED
        BY <2>2, <2>3
<1>4. bootId' = bootId
    BY <1>1 DEF bootId, resolveCsprClickAppId
<1>5. tab'.rejected => tab.rejected \/ bootId \notin visit.issued
    <2>1. CASE tab' = [tab EXCEPT !.sdk = "loaded"]
        BY <2>1 DEF TabShape
    <2>2. ASSUME NEW says \in ProbeVerdicts(csprClickAppId),
                 tab' = [tab EXCEPT !.probe = "over", !.rejected = says \in {"wrong application id", "not found"}],
                 tab'.rejected
          PROVE  bootId \notin visit.issued
        <3>1. tab'.rejected = (says \in {"wrong application id", "not found"})
            BY <2>2, Zenon DEF TabShape
        <3>2. says \in {"wrong application id", "not found"}
            BY <2>2, <3>1, Zenon
        <3> QED
            BY <3>2 DEF ProbeVerdicts, csprClickAppId
    <2> QED
        BY <1>1, <2>1, <2>2
<1>6. DemoIsTheLastResort'
    BY <1>1, <1>4, <1>5 DEF DemoIsTheLastResort
<1> QED
    BY <1>2, <1>3, <1>6

\* An attempt that has not been answered, on its route.
OnRoute(waited, wallet, leads, result) ==
    [step |-> leads, leg |-> login.leg, waited |-> waited, transport |-> wallet, answer |-> "none",
     polls |-> login.polls, accounts |-> login.raw, raw |-> login.raw, pending |-> {}, result |-> result]

ViaExtension == detectWalletTransport = "casper-wallet" /\ visit.injected

LEMMA RouteTaken ==
    ASSUME LoginShape, login.answer = "none", login.result = "none", login.pending = {}, login.raw = login.accounts,
           NEW l, NEW waited, l = [login EXCEPT !.waited = waited], connects(l), csprClickAvailable
    PROVE  LET wallet == detectWalletTransport
               becomes(leads, result) == login' = OnRoute(waited, wallet, leads, result)
           IN  \/ wallet = "none" /\ tab' = tab /\ becomes("over", "no-wallet")
               \/ tab' = tab /\ becomes("signing in", "none")
               \/ wallet = "walletconnect" /\ tab' = tab /\ becomes("pairing", "none")
               \/ Redirects(wallet, ViaExtension) /\ tab' = [tab EXCEPT !.newTab = TRUE] /\ becomes("settling", "none")
               \/ ~Redirects(wallet, ViaExtension) /\ tab' = [tab EXCEPT !.disarmed = ViaExtension] /\ becomes("prompting", "none")
<1> DEFINE wallet == detectWalletTransport
           via == ViaExtension
<1>1. \/ /\ wallet = "none" /\ tab' = tab
         /\ login' = [l EXCEPT !.transport = wallet, !.step = "over", !.result = "no-wallet"]
      \/ /\ tab' = tab
         /\ login' = [l EXCEPT !.transport = wallet, !.step = "signing in"]
      \/ /\ wallet = "walletconnect" /\ tab' = tab
         /\ login' = [l EXCEPT !.transport = wallet, !.step = "pairing"]
      \/ /\ Redirects(wallet, via) /\ tab' = [tab EXCEPT !.newTab = TRUE]
         /\ login' = [l EXCEPT !.transport = wallet, !.step = "settling"]
      \/ /\ ~Redirects(wallet, via) /\ tab' = [tab EXCEPT !.disarmed = via]
         /\ login' = [l EXCEPT !.transport = wallet, !.step = "prompting"]
    BY ZenonT(30) DEF connects, ends, REMOTE_ONLY_PROVIDERS, ViaExtension
<1> HIDE DEF wallet, via
<1>2. ASSUME login' = [l EXCEPT !.transport = wallet, !.step = "over", !.result = "no-wallet"]
      PROVE  login' = OnRoute(waited, wallet, "over", "no-wallet")
    BY <1>2 DEF LoginShape, OnRoute
<1>3. ASSUME NEW leads, login' = [l EXCEPT !.transport = wallet, !.step = leads]
      PROVE  login' = OnRoute(waited, wallet, leads, "none")
    BY <1>3 DEF LoginShape, OnRoute
<1> QED
    BY <1>1, <1>2, <1>3, Zenon DEF wallet, via

\* The attempt takes its route.
LEMMA ConnectsKeepsInv ==
    ASSUME ConnectorInv, NEW l, NEW waited, l = [login EXCEPT !.waited = waited],
           login.step \in {"idle", "waiting"}, UNCHANGED visit, connects(l),
           ~csprClickAvailable => /\ login.leg = "click"
                                  /\ bootId = "none" \/ bootId \notin visit.issued \/ waited
    PROVE  ConnectorInv'
<1> USE DEF ConnectorInv
<1> DEFINE wallet == detectWalletTransport
           via == ViaExtension
<1>1. l = [step |-> login.step, leg |-> login.leg, waited |-> waited, transport |-> login.transport,
           answer |-> "none", polls |-> login.polls, accounts |-> login.raw, raw |-> login.raw,
           pending |-> {}, result |-> "none"]
    BY DEF LoginShape, LoginIsTrue
<1>2. ~tab.newTab \/ ~visit.injected
    BY DEF RouteCanWork
<1>3. ~tab.disarmed
    BY Zenon DEF RouteCanWork
<1>4. VisitOK' /\ bootId' = bootId
    BY DEF VisitOK, bootId, resolveCsprClickAppId
<1>5. CASE ~csprClickAvailable
    <2>1. login' = [l EXCEPT !.step = "over", !.result = "demo"] /\ tab' = [tab EXCEPT !.account = Demo]
        BY <1>5 DEF connects, ends, shows
    <2>2. TabShape' /\ LoginShape' /\ LoginIsTrue'
        BY <1>1, <2>1 DEF TabShape, LoginShape, LoginIsTrue
    <2>3. /\ login'.leg = login.leg /\ login'.waited = waited /\ login'.answer = "none" /\ login'.result = "demo"
          /\ login'.step = "over"
          /\ tab'.account = Demo /\ tab'.newTab = tab.newTab /\ tab'.disarmed = tab.disarmed /\ tab'.rejected = tab.rejected
        BY <1>1, <2>1 DEF TabShape
    <2>4. RouteCanWork' /\ AnswerIsHeard' /\ ShownAccountIsBacked'
        BY <1>2, <1>3, <2>3, AccountsAreApart DEF RouteCanWork, AnswerIsHeard, ShownAccountIsBacked
    <2>5. DemoIsTheLastResort'
        BY <1>4, <1>5, <2>3 DEF DemoIsTheLastResort
    <2> QED
        BY <1>4, <2>2, <2>4, <2>5
<1>6. CASE csprClickAvailable
    <2> DEFINE becomes(leads, result) == login' = OnRoute(waited, wallet, leads, result)
    <2>1. LoginShape /\ login.answer = "none" /\ login.result = "none" /\ login.pending = {} /\ login.raw = login.accounts
        BY Zenon DEF LoginIsTrue
    <2>2. \/ wallet = "none" /\ tab' = tab /\ becomes("over", "no-wallet")
          \/ tab' = tab /\ becomes("signing in", "none")
          \/ wallet = "walletconnect" /\ tab' = tab /\ becomes("pairing", "none")
          \/ Redirects(wallet, via) /\ tab' = [tab EXCEPT !.newTab = TRUE] /\ becomes("settling", "none")
          \/ ~Redirects(wallet, via) /\ tab' = [tab EXCEPT !.disarmed = via] /\ becomes("prompting", "none")
        BY <1>6, <2>1, RouteTaken, Zenon
    <2>3. PICK leads \in {"over", "signing in", "pairing", "settling", "prompting"}, result \in {"none", "no-wallet"} :
             /\ becomes(leads, result)
             /\ result = "no-wallet" => wallet = "none"
             /\ leads = "over" <=> result = "no-wallet"
             /\ leads = "pairing" => wallet = "walletconnect"
             /\ leads = "prompting" => ~Redirects(wallet, via)
        BY <2>2, Zenon
    <2>4. /\ LoginShape' /\ login'.answer = "none" /\ login'.result = result /\ login'.step = leads /\ login'.leg = login.leg
          /\ login'.transport = wallet /\ login'.pending = {} /\ login'.raw = login'.accounts
        BY <2>3 DEF LoginShape, OnRoute
    <2>5. /\ TabShape' /\ tab'.rejected = tab.rejected /\ tab'.account = tab.account /\ tab'.session = tab.session
          /\ tab'.newTab => tab.newTab \/ Redirects(wallet, via)
          /\ tab'.disarmed => login'.step = "prompting"
        <3>1. CASE tab' = tab
            BY <1>3, <3>1 DEF TabShape
        <3>2. CASE Redirects(wallet, via) /\ tab' = [tab EXCEPT !.newTab = TRUE]
            BY <1>3, <3>2 DEF TabShape
        <3>3. CASE tab' = [tab EXCEPT !.disarmed = via] /\ becomes("prompting", "none")
            <4>1. login'.step = "prompting"
                BY <3>3 DEF OnRoute
            <4> HIDE DEF via, becomes
            <4> QED
                BY <3>3, <4>1 DEF TabShape
        <3> QED
            BY <2>2, <3>1, <3>2, <3>3
    <2>6. Redirects(wallet, via) => ~visit.injected
        BY DEF Redirects, ViaExtension
    <2>7. wallet = "casper-wallet" /\ ~Redirects(wallet, via) => visit.injected
        BY TransportIsTheFirst DEF Redirects, ViaExtension, VisitOK
    <2>8. LoginIsTrue' /\ RouteCanWork'
        <3>1. LoginIsTrue'
            BY <2>3, <2>4, <2>7 DEF LoginIsTrue
        <3>2. RouteCanWork'
            BY <1>2, <2>3, <2>4, <2>5, <2>6, TransportIsTheFirst DEF RouteCanWork
        <3> QED
            BY <3>1, <3>2
    <2>9. DemoIsTheLastResort' /\ AnswerIsHeard' /\ ShownAccountIsBacked'
        BY <1>4, <2>1, <2>3, <2>4, <2>5 DEF DemoIsTheLastResort, AnswerIsHeard, ShownAccountIsBacked
    <2> QED
        BY <1>4, <2>4, <2>5, <2>8, <2>9
<1> QED
    BY <1>5, <1>6

\* A step that sends nobody away and ends no attempt in the demo account or for want of a wallet.
LEMMA AttemptMoves ==
    ASSUME ConnectorInv, UNCHANGED visit, TabShape', LoginShape', LoginIsTrue', AnswerIsHeard', ShownAccountIsBacked',
           tab'.newTab = tab.newTab, tab'.rejected = tab.rejected, tab'.disarmed => login'.step = "prompting",
           login'.leg = login.leg, login'.waited = login.waited,
           login'.result \in {"demo", "no-wallet"} => login'.result = login.result,
           login'.step \in {"pairing", "choosing"} => login.step \in {"pairing", "choosing"}
    PROVE  ConnectorInv'
<1> USE DEF ConnectorInv
<1>1. bootId' = bootId /\ VisitOK'
    BY DEF bootId, resolveCsprClickAppId, VisitOK
<1>2. RouteCanWork'
    BY DEF RouteCanWork
<1>3. DemoIsTheLastResort'
    BY <1>1 DEF DemoIsTheLastResort
<1> QED
    BY <1>1, <1>2, <1>3

LEMMA StartsKeepConnector ==
    ASSUME ConnectorInv, Clicks \/ Resumes \/ SdkIsReady \/ WaitRunsOut
    PROVE  ConnectorInv'
<1> USE DEF ConnectorInv
<1>0. login = [login EXCEPT !.waited = login.waited]
    BY DEF LoginShape
<1>1. CASE Clicks
    <2>1. login.step = "idle" /\ login = noLogin /\ UNCHANGED visit
        BY <1>1 DEF Clicks, LoginIsTrue
    <2>2. CASE login' = [login EXCEPT !.step = "waiting"] /\ UNCHANGED tab
        <3>1. login' = [noLogin EXCEPT !.step = "waiting"]
            BY <2>1, <2>2, Zenon
        <3>2. LoginShape' /\ LoginIsTrue' /\ AnswerIsHeard'
            BY <3>1 DEF noLogin, LoginShape, LoginIsTrue, AnswerIsHeard
        <3>3. /\ login'.leg = login.leg /\ login'.waited = login.waited /\ login'.result = "none" /\ login'.answer = login.answer
              /\ login'.step = "waiting"
            BY <2>1, <3>1 DEF noLogin
        <3>4. ~tab.disarmed /\ TabShape'
            BY <2>1, <2>2, Zenon DEF RouteCanWork, TabShape
        <3>5. ShownAccountIsBacked'
            BY <2>1, <2>2, <3>3 DEF ShownAccountIsBacked
        <3> QED
            BY <2>1, <2>2, <3>2, <3>3, <3>4, <3>5, AttemptMoves, Zenon
    <2>3. CASE ~(login' = [login EXCEPT !.step = "waiting"] /\ UNCHANGED tab)
        <3>1. connects(login) /\ ~(tab.sdk = "loading" /\ csprClickAppId # "none" /\ ~tab.rejected)
            BY <1>1, <2>3, Zenon DEF Clicks
        <3>2. login.leg = "click"
            BY <2>1 DEF noLogin
        <3>3. tab.sdk \in {"loading", "loaded"}
            BY DEF TabShape
        <3>4. ~csprClickAvailable => bootId = "none" \/ bootId \notin visit.issued
            BY <3>1, <3>3, Zenon DEF csprClickAvailable, csprClickAppId, DemoIsTheLastResort
        <3> QED
            BY <1>0, <2>1, <3>1, <3>2, <3>4, ConnectsKeepsInv, Zenon
    <2> QED
        BY <2>2, <2>3
<1>2. CASE Resumes
    <2>1. login.step = "idle" /\ login = noLogin /\ UNCHANGED visit /\ tab.account = Nobody
        BY <1>2 DEF Resumes, LoginIsTrue
    <2>2. login' = [noLogin EXCEPT !.step = "waiting", !.leg = "resume"] /\ tab' = [tab EXCEPT !.marked = FALSE]
        BY <1>2, <2>1, Zenon DEF Resumes
    <2>3. LoginShape' /\ LoginIsTrue' /\ AnswerIsHeard'
        BY <2>2 DEF noLogin, LoginShape, LoginIsTrue, AnswerIsHeard
    <2>4. login'.result = "none" /\ login'.step = "waiting"
        BY <2>2 DEF noLogin
    <2>5. /\ TabShape' /\ tab'.newTab = tab.newTab /\ tab'.rejected = tab.rejected /\ tab'.disarmed = tab.disarmed
          /\ tab'.account = Nobody
        BY <2>1, <2>2 DEF TabShape
    <2>6. bootId' = bootId /\ VisitOK'
        BY <2>1 DEF bootId, resolveCsprClickAppId, VisitOK
    <2>7. RouteCanWork'
        BY <2>1, <2>4, <2>5 DEF RouteCanWork
    <2>8. DemoIsTheLastResort' /\ ShownAccountIsBacked'
        BY <2>1, <2>4, <2>5, <2>6, AccountsAreApart DEF DemoIsTheLastResort, ShownAccountIsBacked
    <2> QED
        BY <2>3, <2>5, <2>6, <2>7, <2>8
<1>3. CASE SdkIsReady
    BY <1>0, <1>3, ConnectsKeepsInv, Zenon DEF SdkIsReady
<1>4. CASE WaitRunsOut
    <2>1. login.step = "waiting" /\ UNCHANGED visit
        BY <1>4 DEF WaitRunsOut
    <2>2. CASE login.leg = "resume"
        <3>1. login' = [login EXCEPT !.step = "over", !.result = "lost"] /\ tab' = tab
            BY <1>4, <2>2 DEF WaitRunsOut, ends
        <3>2. LoginShape' /\ LoginIsTrue'
            BY <2>1, <3>1 DEF LoginShape, LoginIsTrue
        <3>3. /\ login'.leg = login.leg /\ login'.waited = login.waited /\ login'.result = "lost" /\ login'.answer = "none"
              /\ login'.step = "over" /\ login.answer = "none"
            BY <2>1, <3>1 DEF LoginShape, LoginIsTrue
        <3>4. AnswerIsHeard' /\ ShownAccountIsBacked' /\ TabShape'
            BY <2>1, <3>1, <3>3 DEF AnswerIsHeard, ShownAccountIsBacked, TabShape
        <3>5. ~tab.disarmed
            BY <2>1, Zenon DEF RouteCanWork
        <3> QED
            BY <2>1, <3>1, <3>2, <3>3, <3>4, <3>5, AttemptMoves, Zenon
    <2>3. CASE login.leg # "resume"
        <3>1. connects([login EXCEPT !.waited = TRUE])
            BY <1>4, <2>3 DEF WaitRunsOut
        <3>2. login.leg = "click"
            BY <2>3 DEF LoginShape
        <3> QED
            BY <2>1, <3>1, <3>2, ConnectsKeepsInv, Zenon
    <2> QED
        BY <2>2, <2>3
<1> QED
    BY <1>1, <1>2, <1>3, <1>4

\* The popup is answered, and the page looks for the account that was announced.
LEMMA PopupKeepsConnector ==
    ASSUME ConnectorInv,
           \/ \E says \in {"approved", "refused", "closed", "failed"} : WalletAnswers(says)
           \/ accountAfterConnect
           \/ \E k \in WalletKeys \cup {Nobody} : signIn(k)
    PROVE  ConnectorInv'
<1> USE DEF ConnectorInv
<1>1. ASSUME NEW says \in {"approved", "refused", "closed", "failed"}, WalletAnswers(says)
      PROVE  ConnectorInv'
    <2> DEFINE direct == says = "approved" /\ login.transport # "casper-wallet"
    <2>1. login.step = "prompting" /\ login.answer = "none" /\ login.result = "none" /\ UNCHANGED visit
        BY <1>1 DEF WalletAnswers, LoginIsTrue
    <2>2. CASE direct
        <3>1. /\ tab' = [tab EXCEPT !.disarmed = FALSE, !.session = visit.active, !.account = visit.active]
              /\ login' = [login EXCEPT !.answer = "approved", !.step = "over", !.result = "ok"]
            BY <1>1, <2>2 DEF WalletAnswers, ends
        <3>2. TabShape' /\ tab'.newTab = tab.newTab /\ tab'.rejected = tab.rejected /\ tab'.account = tab'.session
            BY <3>1 DEF TabShape
        <3>3. ~tab'.disarmed
            BY <3>1 DEF TabShape
        <3>4. /\ LoginShape' /\ login'.result = "ok" /\ login'.answer = "approved" /\ login'.step = "over"
              /\ login'.leg = login.leg /\ login'.waited = login.waited
              /\ login'.pending = login.pending /\ login'.raw = login.raw /\ login'.accounts = login.accounts
            BY <3>1 DEF LoginShape
        <3>5. LoginIsTrue' /\ AnswerIsHeard' /\ ShownAccountIsBacked'
            BY <3>2, <3>4 DEF LoginIsTrue, AnswerIsHeard, ShownAccountIsBacked
        <3> QED
            BY <2>1, <3>2, <3>3, <3>4, <3>5, AttemptMoves, Zenon
    <2>3. CASE ~direct
        <3>1. /\ tab' = [tab EXCEPT !.disarmed = FALSE]
              /\ IF says = "failed" THEN login' = [login EXCEPT !.answer = says, !.step = "over", !.result = "failed"]
                 ELSE login' = [login EXCEPT !.answer = says, !.step = "settling"]
            BY <1>1, <2>3 DEF WalletAnswers, ends
        <3>2. TabShape' /\ tab'.newTab = tab.newTab /\ tab'.rejected = tab.rejected /\ tab'.account = tab.account /\ tab'.session = tab.session
            BY <3>1 DEF TabShape
        <3>3. ~tab'.disarmed
            BY <3>1 DEF TabShape
        <3>4. /\ LoginShape' /\ login'.answer = says
              /\ login'.leg = login.leg /\ login'.waited = login.waited /\ login'.transport = login.transport
              /\ login'.pending = login.pending /\ login'.raw = login.raw /\ login'.accounts = login.accounts
              /\ says = "failed" => login'.step = "over" /\ login'.result = "failed"
              /\ says # "failed" => login'.step = "settling" /\ login'.result = "none"
            BY <2>1, <3>1 DEF LoginShape
        <3>5. LoginIsTrue'
            BY <2>1, <2>3, <3>4 DEF LoginIsTrue
        <3>6. AnswerIsHeard' /\ ShownAccountIsBacked'
            BY <2>1, <3>2, <3>4 DEF AnswerIsHeard, ShownAccountIsBacked
        <3>7. login'.result \notin {"demo", "no-wallet"} /\ login'.step \notin {"pairing", "choosing"}
            BY <3>4
        <3> QED
            BY <2>1, <3>2, <3>3, <3>4, <3>5, <3>6, <3>7, AttemptMoves, Zenon
    <2> QED
        BY <2>2, <2>3
<1>2. CASE accountAfterConnect
    <2>1. login.step = "settling" /\ UNCHANGED visit /\ login.result = "none" /\ ~tab.disarmed
        BY <1>2 DEF accountAfterConnect, LoginIsTrue, RouteCanWork
    <2>2. \/ login.answer # "approved" /\ login' = [login EXCEPT !.step = "over", !.result = "cancelled"] /\ tab' = tab
          \/ /\ login.answer # "refused" /\ login' = [login EXCEPT !.step = "over", !.result = "ok"]
             /\ tab' = [tab EXCEPT !.account = tab.session]
          \/ /\ login.answer = "approved" /\ login' = [login EXCEPT !.step = "over", !.result = "ok"]
             /\ tab' = [tab EXCEPT !.account = visit.active]
          \/ login' = [login EXCEPT !.polls = @ + 1] /\ tab' = tab
        BY <1>2, <2>1 DEF accountAfterConnect, ends, shows, LoginIsTrue
    <2>3. /\ LoginShape' /\ login'.leg = login.leg /\ login'.waited = login.waited /\ login'.answer = login.answer
          /\ login'.pending = login.pending /\ login'.raw = login.raw /\ login'.accounts = login.accounts
          /\ login'.transport = login.transport
          /\ \/ login'.step = "over" /\ login'.result = "cancelled" /\ login.answer # "approved"
             \/ login'.step = "over" /\ login'.result = "ok" /\ login.answer # "refused"
             \/ login'.step = "settling" /\ login'.result = "none"
        BY <2>1, <2>2 DEF LoginShape
    <2>4. /\ TabShape' /\ tab'.newTab = tab.newTab /\ tab'.rejected = tab.rejected /\ tab'.session = tab.session
          /\ tab'.disarmed = tab.disarmed
          /\ tab'.account \in {tab.account, tab.session} \cup IF login.answer = "approved" THEN {visit.active} ELSE {}
        BY <2>2 DEF TabShape
    <2>5. LoginIsTrue' /\ AnswerIsHeard' /\ ShownAccountIsBacked'
        BY <2>1, <2>3, <2>4 DEF LoginIsTrue, AnswerIsHeard, ShownAccountIsBacked
    <2>6. login'.result \notin {"demo", "no-wallet"} /\ login'.step \notin {"pairing", "choosing"}
        BY <2>3
    <2> QED
        BY <2>1, <2>3, <2>4, <2>5, <2>6, AttemptMoves, Zenon
<1>3. ASSUME NEW k \in WalletKeys \cup {Nobody}, signIn(k) PROVE ConnectorInv'
    <2>1. login.step = "signing in" /\ UNCHANGED visit /\ login.result = "none" /\ login.answer = "none" /\ ~tab.disarmed
        BY <1>3 DEF signIn, LoginIsTrue, RouteCanWork
    <2>2. PICK result \in {"ok", "cancelled"} : login' = [login EXCEPT !.step = "over", !.result = result]
        BY <1>3, Zenon DEF signIn, ends
    <2>a. PICK account : tab' = tab \/ tab' = [tab EXCEPT !.account = account, !.session = account]
        BY <1>3, Zenon DEF signIn
    <2>3. /\ LoginShape' /\ login'.leg = login.leg /\ login'.waited = login.waited /\ login'.answer = "none"
          /\ login'.pending = login.pending /\ login'.raw = login.raw /\ login'.accounts = login.accounts
          /\ login'.step = "over" /\ login'.result = result
        BY <2>1, <2>2 DEF LoginShape
    <2>4. /\ TabShape' /\ tab'.newTab = tab.newTab /\ tab'.rejected = tab.rejected
          /\ tab'.disarmed = tab.disarmed
          /\ tab'.account = tab'.session \/ (tab'.account = tab.account /\ tab'.session = tab.session)
        BY <2>a DEF TabShape
    <2>5. LoginIsTrue' /\ AnswerIsHeard' /\ ShownAccountIsBacked'
        BY <2>1, <2>3, <2>4 DEF LoginIsTrue, AnswerIsHeard, ShownAccountIsBacked
    <2> QED
        BY <2>1, <2>3, <2>4, <2>5, AttemptMoves, Zenon
<1> QED
    BY <1>1, <1>2, <1>3

\* Between the QR and the account that is chosen the page itself stays as it is.
LEMMA PickerKeepsConnector ==
    ASSUME ConnectorInv,
           \/ \E entries \in Shared : PhoneShares(entries)
           \/ \E i \in DOMAIN login.accounts : choose(i)
           \/ \E p \in login.pending : SignInFails(p)
           \/ \E result \in {"cancelled", "failed"} : PairingFails(result)
    PROVE  ConnectorInv'
<1> USE DEF ConnectorInv
<1> DEFINE Moved ==
        /\ LoginShape' /\ login'.leg = login.leg /\ login'.waited = login.waited /\ login'.answer = login.answer
        /\ login'.raw = login'.accounts /\ \A p \in login'.pending : p[1] = p[2]
        /\ login'.pending # {} => login'.step \in {"choosing", "over"}
        /\ \/ login'.step = "over" /\ login'.result \in {"cancelled", "failed"} /\ login.answer = "none"
           \/ login'.step = "choosing" /\ login'.result = "none" /\ login.answer = "none" /\ login.step \in {"pairing", "choosing"}
           \/ login.step = "over" /\ login'.step = "over" /\ login'.result = login.result
<1>1. ASSUME NEW entries \in Shared, PhoneShares(entries) PROVE Moved
    <2> DEFINE valid == SelectSeq(entries, LAMBDA k : k # Nobody)
    <2>1. login.step = "pairing" /\ login.answer = "none" /\ login.result = "none" /\ login.pending = {}
        BY <1>1 DEF PhoneShares, LoginIsTrue
    <2>2. \/ login' = [login EXCEPT !.step = "over", !.result = "failed"]
          \/ \E only : login' = [login EXCEPT !.step = "choosing", !.pending = {<<only, only>>}]
          \/ \E all : login' = [login EXCEPT !.step = "choosing", !.accounts = all, !.raw = all]
        <3> HIDE DEF valid
        <3>1. login' = IF valid = << >> THEN [login EXCEPT !.step = "over", !.result = "failed"]
                       ELSE IF Len(valid) = 1
                       THEN [login EXCEPT !.step = "choosing", !.pending = {<<valid[1], valid[1]>>}]
                       ELSE [login EXCEPT !.step = "choosing", !.accounts = valid, !.raw = valid]
            BY <1>1, Zenon DEF PhoneShares, ends, valid
        <3> QED
            BY <3>1, Zenon
    <2>3. CASE login' = [login EXCEPT !.step = "over", !.result = "failed"]
        BY <2>1, <2>3 DEF LoginShape, LoginIsTrue
    <2>4. ASSUME NEW only, login' = [login EXCEPT !.step = "choosing", !.pending = {<<only, only>>}] PROVE Moved
        <3>1. \A p \in {<<only, only>>} : p[1] = p[2]
            OBVIOUS
        <3>2. /\ LoginShape' /\ login'.leg = login.leg /\ login'.waited = login.waited /\ login'.answer = login.answer
              /\ login'.raw = login.raw /\ login'.accounts = login.accounts /\ login'.pending = {<<only, only>>}
              /\ login'.step = "choosing" /\ login'.result = login.result
            BY <2>4 DEF LoginShape
        <3> QED
            BY <2>1, <3>1, <3>2 DEF LoginIsTrue
    <2>5. ASSUME NEW all, login' = [login EXCEPT !.step = "choosing", !.accounts = all, !.raw = all] PROVE Moved
        BY <2>1, <2>5 DEF LoginShape, LoginIsTrue
    <2> HIDE DEF Moved
    <2> QED
        BY <2>2, <2>3, <2>4, <2>5, Zenon
<1>2. ASSUME NEW i \in DOMAIN login.accounts, choose(i) PROVE Moved
    <2>1. /\ login.step = "choosing" /\ login.answer = "none" /\ login.result = "none" /\ login.raw = login.accounts
          /\ login' = [login EXCEPT !.pending = @ \cup {<<login.raw[i], login.accounts[i]>>}]
        BY <1>2 DEF choose, LoginIsTrue
    <2> QED
        BY <2>1 DEF LoginShape, LoginIsTrue
<1>3. ASSUME NEW p \in login.pending, SignInFails(p) PROVE Moved
    <2>1. CASE login.step = "choosing"
        <3>1. login' = [login EXCEPT !.pending = @ \ {p}, !.step = "over", !.result = "failed"]
            BY <1>3, <2>1 DEF SignInFails, ends
        <3> QED
            BY <2>1, <3>1 DEF LoginShape, LoginIsTrue
    <2>2. CASE login.step # "choosing"
        <3>1. login' = [login EXCEPT !.pending = @ \ {p}] /\ login.step = "over"
            BY <1>3, <2>2 DEF SignInFails, LoginIsTrue
        <3> QED
            BY <3>1 DEF LoginShape, LoginIsTrue
    <2> QED
        BY <2>1, <2>2
<1>4. ASSUME NEW result \in {"cancelled", "failed"}, PairingFails(result) PROVE Moved
    <2>1. login.step \in {"pairing", "choosing"} /\ login' = [login EXCEPT !.step = "over", !.result = result]
        BY <1>4 DEF PairingFails, ends
    <2> QED
        BY <2>1 DEF LoginShape, LoginIsTrue
<1>5. Moved /\ UNCHANGED <<visit, tab>>
    BY <1>1, <1>2, <1>3, <1>4, Zenon DEF PhoneShares, choose, SignInFails, PairingFails
<1>6. ~tab.disarmed
    BY Zenon DEF RouteCanWork, PhoneShares, choose, SignInFails, PairingFails, LoginIsTrue
<1>7. LoginIsTrue' /\ AnswerIsHeard'
    BY <1>5 DEF LoginIsTrue, AnswerIsHeard
<1>8. ShownAccountIsBacked' /\ TabShape'
    BY <1>5 DEF ShownAccountIsBacked, TabShape
<1>9. /\ login'.result \in {"demo", "no-wallet"} => login'.result = login.result
      /\ login'.step \in {"pairing", "choosing"} => login.step \in {"pairing", "choosing"}
    BY <1>5
<1> QED
    BY <1>5, <1>6, <1>7, <1>8, <1>9, AttemptMoves, Zenon

\* A sign-in ends, the visitor gives up, or the wallet speaks: page and SDK change hands together.
LEMMA WalletKeepsConnector ==
    ASSUME ConnectorInv,
           \/ \E p \in login.pending : SignedInWith(p)
           \/ onAbort
           \/ \E event \in ProviderEvents, k \in WalletKeys \cup {Nobody} : WalletSays(event, k)
           \/ OpensInWallet
    PROVE  ConnectorInv'
<1> USE DEF ConnectorInv
<1>1. ASSUME NEW p \in login.pending, SignedInWith(p) PROVE ConnectorInv'
    <2>1. /\ login.step \in {"choosing", "over"} /\ p[1] = p[2] /\ UNCHANGED visit
          /\ tab' = [tab EXCEPT !.session = p[1], !.account = p[1]]
        <3>1. p[1] = p[2] /\ login.step \in {"choosing", "over"}
            BY <1>1 DEF LoginIsTrue
        <3> QED
            BY <1>1, <3>1 DEF SignedInWith
    <2>2. \/ login.step = "choosing" /\ login' = [login EXCEPT !.pending = @ \ {p}, !.step = "over", !.result = "ok"]
          \/ login.step = "over" /\ login' = [login EXCEPT !.pending = @ \ {p}]
        BY <1>1, <2>1 DEF SignedInWith, ends
    <2>3. /\ LoginShape' /\ login'.leg = login.leg /\ login'.waited = login.waited /\ login'.answer = login.answer
          /\ login'.raw = login.raw /\ login'.accounts = login.accounts /\ login'.pending \subseteq login.pending
          /\ login'.step = "over" /\ login'.result \in {"ok", login.result}
          /\ login.step = "choosing" => login'.result = "ok"
          /\ login.step = "over" => login'.result = login.result
        BY <2>2 DEF LoginShape
    <2>4. /\ TabShape' /\ tab'.newTab = tab.newTab /\ tab'.rejected = tab.rejected /\ tab'.disarmed = tab.disarmed
          /\ tab'.account = tab'.session
        BY <2>1 DEF TabShape
    <2>5. ~tab.disarmed
        BY <2>1, Zenon DEF RouteCanWork
    <2>6. login.answer = "none" \/ login'.result = login.result
        BY <2>1, <2>3 DEF LoginIsTrue
    <2>7. LoginIsTrue' /\ AnswerIsHeard' /\ ShownAccountIsBacked'
        BY <2>1, <2>3, <2>4, <2>6 DEF LoginIsTrue, AnswerIsHeard, ShownAccountIsBacked
    <2> QED
        BY <2>1, <2>3, <2>4, <2>5, <2>7, AttemptMoves, Zenon
<1>2. CASE onAbort
    <2>1. /\ login.step \in {"pairing", "choosing"} /\ UNCHANGED visit /\ login.answer = "none"
          /\ login' = [login EXCEPT !.step = "over", !.result = "cancelled"]
        BY <1>2 DEF onAbort, ends, LoginIsTrue
    <2>2. tab' = tab \/ \E k \in {Demo, Nobody} : tab' = [tab EXCEPT !.session = Nobody, !.account = k]
        BY <1>2, Zenon DEF onAbort, cleared
    <2>3. /\ LoginShape' /\ login'.leg = login.leg /\ login'.waited = login.waited /\ login'.answer = "none"
          /\ login'.raw = login.raw /\ login'.accounts = login.accounts /\ login'.pending = login.pending
          /\ login'.step = "over" /\ login'.result = "cancelled"
        BY <2>1 DEF LoginShape
    <2>4. /\ TabShape' /\ tab'.newTab = tab.newTab /\ tab'.rejected = tab.rejected /\ tab'.disarmed = tab.disarmed
          /\ (tab'.account = tab.account /\ tab'.session = tab.session) \/ tab'.account \in {Demo, Nobody}
        BY <2>2 DEF TabShape
    <2>5. ~tab.disarmed
        BY <2>1, Zenon DEF RouteCanWork
    <2>6. LoginIsTrue' /\ AnswerIsHeard'
        BY <2>3 DEF LoginIsTrue, AnswerIsHeard
    <2>7. ShownAccountIsBacked'
        BY <2>1, <2>3, <2>4, AccountsAreApart DEF ShownAccountIsBacked
    <2> QED
        BY <2>1, <2>3, <2>4, <2>5, <2>6, <2>7, AttemptMoves, Zenon
<1>3. ASSUME NEW event \in ProviderEvents, NEW k \in WalletKeys \cup {Nobody}, WalletSays(event, k) PROVE ConnectorInv'
    <2>1. UNCHANGED visit
        BY <1>3 DEF WalletSays
    <2>2. \/ /\ tab' = [tab EXCEPT !.account = k, !.session = k]
             /\ login' = IF login.step \in {"pairing", "choosing"} THEN [login EXCEPT !.step = "over", !.result = "ok"] ELSE login
          \/ /\ \E account \in {Demo, Nobody} : tab' = [tab EXCEPT !.session = Nobody, !.account = account]
             /\ login' = IF login.answer = "approved" THEN [login EXCEPT !.answer = "revoked"] ELSE login
          \/ tab' = tab /\ login' = login
        <3> DEFINE signal == parseCsprClickEvent(event, k)
        <3>1. CASE signal = "connected"
            <4>1. k # Nobody /\ event \in {"connected", "unlocked", "activeKeyChanged"}
                BY <3>1 DEF parseCsprClickEvent, Announces
            <4> QED
                BY <1>3, <3>1, <4>1 DEF WalletSays, shows, ends, TabShape
        <3>2. CASE signal = "disconnected"
            <4>1. event = "disconnected"
                BY <3>2 DEF parseCsprClickEvent
            <4> QED
                BY <1>3, <3>2, <4>1 DEF WalletSays, cleared, TabShape
        <3>3. CASE signal \notin {"connected", "disconnected"}
            <4>1. event # "disconnected" /\ (k = Nobody \/ event = "locked")
                BY <3>3 DEF parseCsprClickEvent, Announces, ProviderEvents
            <4> QED
                BY <1>3, <3>3, <4>1 DEF WalletSays, TabShape
        <3> QED
            BY <3>1, <3>2, <3>3
    <2>3. /\ TabShape' /\ tab'.newTab = tab.newTab /\ tab'.rejected = tab.rejected /\ tab'.disarmed = tab.disarmed
        BY <2>2 DEF TabShape
    <2>4. /\ LoginShape' /\ login'.leg = login.leg /\ login'.waited = login.waited
          /\ login'.raw = login.raw /\ login'.accounts = login.accounts /\ login'.pending = login.pending
          /\ login'.transport = login.transport
          /\ login'.answer \in {login.answer, "revoked"}
          /\ login'.answer = "revoked" => login.answer \in {"approved", "revoked"}
          /\ \/ login'.step = login.step /\ login'.result = login.result
             \/ login.step \in {"pairing", "choosing"} /\ login'.step = "over" /\ login'.result = "ok" /\ login'.answer = login.answer
        BY <2>2 DEF LoginShape
    <2>5. LoginIsTrue' /\ AnswerIsHeard'
        <3>1. login.step = "idle" => login' = login
            BY <2>2 DEF LoginIsTrue, noLogin
        <3>2. login'.step = "idle" => login.step = "idle"
            BY <2>4
        <3>3. login'.step = "idle" => login' = noLogin
            BY <3>1, <3>2 DEF LoginIsTrue
        <3>4. LoginIsTrue'
            BY <2>1, <2>4, <3>3 DEF LoginIsTrue
        <3>5. AnswerIsHeard'
            BY <2>4 DEF AnswerIsHeard, LoginIsTrue
        <3> QED
            BY <3>4, <3>5
    <2>6. ShownAccountIsBacked'
        <3>1. \/ tab'.account = tab'.session
              \/ tab'.account \in {Demo, Nobody}
              \/ tab'.account = tab.account /\ tab'.session = tab.session /\ login'.answer = login.answer
            BY <2>2 DEF TabShape
        <3> QED
            BY <2>1, <3>1, AccountsAreApart DEF ShownAccountIsBacked
    <2>7. tab.disarmed => login'.step = "prompting"
        BY <2>4 DEF RouteCanWork
    <2>8. /\ login'.result \in {"demo", "no-wallet"} => login'.result = login.result
          /\ login'.step \in {"pairing", "choosing"} => login.step \in {"pairing", "choosing"}
        BY <2>4
    <2> QED
        BY <2>1, <2>3, <2>4, <2>5, <2>6, <2>7, <2>8, AttemptMoves, Zenon
<1>4. CASE OpensInWallet
    <2>1. /\ tab' = freshTab(TRUE, Nobody) /\ login' = noLogin
          /\ visit' = [visit EXCEPT !.inApp = TRUE, !.injected = TRUE, !.kept = Nobody]
        BY <1>4 DEF OpensInWallet
    <2>2. VisitOK'
        BY <2>1 DEF VisitOK, VisitType
    <2>3. TabShape' /\ LoginShape' /\ LoginIsTrue'
        BY <2>1 DEF TabShape, LoginShape, freshTab, noLogin, LoginIsTrue
    <2>4. RouteCanWork' /\ DemoIsTheLastResort' /\ AnswerIsHeard' /\ ShownAccountIsBacked'
        BY <2>1, AccountsAreApart
           DEF freshTab, noLogin, RouteCanWork, DemoIsTheLastResort, AnswerIsHeard, ShownAccountIsBacked
    <2> QED
        BY <2>2, <2>3, <2>4
<1> QED
    BY <1>1, <1>2, <1>3, <1>4

LEMMA ConnectorKeepsInv == ConnectorInv /\ ConnectorNext => ConnectorInv'
BY PageKeepsConnector, StartsKeepConnector, PopupKeepsConnector, PickerKeepsConnector, WalletKeepsConnector, Zenon
   DEF ConnectorNext

LEMMA ConnectorStutters == ConnectorInv /\ UNCHANGED connectorVars => ConnectorInv'
<1> SUFFICES ASSUME ConnectorInv, UNCHANGED connectorVars PROVE ConnectorInv'
    OBVIOUS
<1>1. visit' = visit /\ tab' = tab /\ login' = login
    BY DEF connectorVars
<1>2. bootId' = bootId /\ VisitOK'
    BY <1>1 DEF bootId, resolveCsprClickAppId, VisitOK, ConnectorInv
<1>3. TabShape' /\ LoginShape' /\ LoginIsTrue'
    BY <1>1, Zenon DEF TabShape, LoginShape, LoginIsTrue, ConnectorInv
<1>4. RouteCanWork' /\ DemoIsTheLastResort' /\ AnswerIsHeard' /\ ShownAccountIsBacked'
    BY <1>1, <1>2, Zenon DEF RouteCanWork, DemoIsTheLastResort, AnswerIsHeard, ShownAccountIsBacked, ConnectorInv
<1> QED
    BY <1>2, <1>3, <1>4 DEF ConnectorInv

-----------------------------------------------------------------------------
(***************************************************************************)
(* The doors                                                               *)
(***************************************************************************)

\* What the creation door has seen that no clock changes.
CreationSeen ==
    /\ request.door = "create"
    /\ site.bond >= NATIVE_TRANSFER_MINIMUM
    /\ normalizeAccountId(BoundOracle) # normalizeAccountId(request.signer)
    /\ site.approved.of # "nobody"
    /\ normalizeAccountId(BoundOracle) = normalizeAccountId(site.approved)
    /\ Composes(request)

\* What the door that made an offer had seen when it did, on the day shown[2].
OfferSeen(today) ==
    \/ /\ CreationSeen
       /\ request.feeBps <= MAX_PUBLIC_FEE_BPS /\ request.deadline > today /\ request.deadline <= today + Horizon
    \/ request.door = "bond" /\ site.payTo # "nobody"
    \/ /\ request.door = "register"
       /\ request.name.units \in 1 .. MAX_NAME_LEN /\ request.uri.units <= MAX_URI_LEN
    \/ /\ request.door = "bet"
       /\ request.amount # 0 /\ request.amount <= currentMaxBet
       /\ request.outcome \in site.listed.outcomes
       /\ site.listed.status = "open" /\ today < site.listed.deadline

DoorsInv ==
    /\ errand \in Errands /\ day \in Nat
    /\ slip = [step |-> slip.step, answer |-> slip.answer, call |-> slip.call, shown |-> slip.shown, end |-> slip.end]
    /\ slip.step = "composing" => CreationSeen
    /\ slip.step \in {"offered", "signed", "executed"} =>
          slip.call = Plan /\ Buildable /\ slip.shown[2] \in Nat /\ OfferSeen(slip.shown[2])
DoorsNext ==
    \/ AskDoor \/ CreationComposed \/ SignedExecutes \/ DayPasses
    \/ \E account \in {"ann", "bob"} : VisitorSigns(account)
    \/ \E face \in Faces : ChainTurns(face)

LEMMA ErrandStands == ASSUME errand' = errand
    PROVE  /\ request' = request /\ site' = site /\ currentMaxBet' = currentMaxBet
           /\ CreationSeen' = CreationSeen /\ Plan' = Plan /\ Buildable' = Buildable
<1>1. request' = request /\ site' = site
    BY DEF request, site
<1>2. BoundOracle' = BoundOracle
    BY <1>1 DEF BoundOracle
<1>3. Composes(request)' = Composes(request) /\ normalizeAccountId(BoundOracle)' = normalizeAccountId(BoundOracle)
      /\ normalizeAccountId(request.signer)' = normalizeAccountId(request.signer)
      /\ normalizeAccountId(site.approved)' = normalizeAccountId(site.approved)
    BY <1>1, <1>2 DEF Composes, Title, normalizeAccountId
<1> QED BY <1>1, <1>2, <1>3 DEF currentMaxBet, CreationSeen, Plan, Buildable

LEMMA DoorSees == ASSUME errand \in Errands, day \in Nat
    PROVE  /\ request.door = "create" /\ CreateDoor = 200 => CreationSeen
           /\ CreationSeen /\ Capped = 200 => OfferSeen(day)
           /\ request.door = "bond" /\ BondDoor = 200 => OfferSeen(day)
           /\ request.door = "register" /\ RegisterDoor = 200 => OfferSeen(day)
           /\ request.door = "bet" /\ BetDoor = 200 => OfferSeen(day)
<1>t. IsRequest(request) /\ site.bond \in Nat
    BY ErrandsAreRequests DEF site, request
<1>1. request.door = "create" /\ CreateDoor = 200 => CreationSeen
    <2> SUFFICES ASSUME request.door = "create", CreateDoor = 200 PROVE CreationSeen
        OBVIOUS
    <2>1. ~creationBondPaymentBlocker /\ Composed = 200
        BY DEF CreateDoor
    <2>2. site.bond >= NATIVE_TRANSFER_MINIMUM
        BY <1>t, <2>1 DEF creationBondPaymentBlocker, NATIVE_TRANSFER_MINIMUM
    <2>3. /\ normalizeAccountId(BoundOracle) # normalizeAccountId(request.signer)
          /\ site.approved.of # "nobody"
          /\ normalizeAccountId(BoundOracle) = normalizeAccountId(site.approved)
          /\ Composes(request)
        BY <2>1 DEF Composed
    <2> QED BY <2>2, <2>3 DEF CreationSeen
<1>2. CreationSeen /\ Capped = 200 => OfferSeen(day)
    BY <1>t, HorizonIsDays DEF Capped, OfferSeen, CreationSeen, IsRequest, MAX_PUBLIC_FEE_BPS
<1>3. request.door = "bond" /\ BondDoor = 200 => OfferSeen(day)
    BY DEF BondDoor, OfferSeen
<1>4. request.door = "register" /\ RegisterDoor = 200 => OfferSeen(day)
    BY <1>t DEF RegisterDoor, OfferSeen, IsRequest, IsText, MAX_URI_LEN
<1>5. request.door = "bet" /\ BetDoor = 200 => OfferSeen(day)
    <2> SUFFICES ASSUME request.door = "bet", BetDoor = 200 PROVE OfferSeen(day)
        OBVIOUS
    <2>1. /\ request.amount # 0 /\ ~(request.amount > currentMaxBet)
          /\ request.outcome \in site.listed.outcomes /\ effectiveStatus(site.listed) = "open"
        BY DEF BetDoor
    <2>2. site.listed.deadline \in Nat
        BY ErrandsAreRequests DEF site
    <2>3. site.listed.status = "open" /\ day < site.listed.deadline
        BY <2>1, <2>2 DEF effectiveStatus
    <2>4. request.amount \in Nat /\ currentMaxBet \in Nat
        BY <1>t DEF IsRequest, currentMaxBet, Unlimited
    <2> QED BY <2>1, <2>3, <2>4 DEF OfferSeen
<1> QED BY <1>1, <1>2, <1>3, <1>4, <1>5

LEMMA AnswersKeepInv == ASSUME DoorsInv, NEW status, Answers(status), UNCHANGED <<errand, day>>,
                               status = 200 => OfferSeen(day)
    PROVE  DoorsInv'
<1>s. /\ request' = request /\ site' = site /\ currentMaxBet' = currentMaxBet
      /\ CreationSeen' = CreationSeen /\ Plan' = Plan /\ Buildable' = Buildable
    BY ErrandStands
<1>l. errand' \in Errands /\ day' \in Nat
    BY DEF DoorsInv
<1>1. CASE status # 200 \/ ~Buildable
    <2>1. PICK a : slip' = [slip EXCEPT !.step = "over", !.answer = a]
        <3>1. CASE status # 200
            BY <3>1 DEF Answers
        <3>2. CASE status = 200 /\ ~Buildable
            BY <3>2, ZenonT(40) DEF Answers
        <3> QED BY <1>1, <3>1, <3>2
    <2>2. slip = [step |-> slip.step, answer |-> slip.answer, call |-> slip.call, shown |-> slip.shown, end |-> slip.end]
        BY DEF DoorsInv
    <2>3. slip' = [step |-> "over", answer |-> a, call |-> slip.call, shown |-> slip.shown, end |-> slip.end]
        BY <2>1, <2>2
    <2> QED BY <1>l, <2>3 DEF DoorsInv
<1>2. CASE status = 200 /\ Buildable
    <2>1. slip' = [step |-> "offered", answer |-> 200, call |-> Plan, shown |-> <<facing, day>>, end |-> slip.end]
        <3>1. slip' = [slip EXCEPT !.step = "offered", !.answer = 200, !.call = Plan, !.shown = <<facing, day>>]
            BY <1>2 DEF Answers
        <3>2. slip = [step |-> slip.step, answer |-> slip.answer, call |-> slip.call, shown |-> slip.shown, end |-> slip.end]
            BY DEF DoorsInv
        <3> QED BY <3>1, <3>2
    <2>2. OfferSeen(day)
        BY <1>2
    <2>3. slip'.shown[2] = day /\ slip'.call = Plan /\ slip'.step = "offered"
        BY <2>1
    <2>4. OfferSeen(slip.shown[2])'
        BY <1>s, <2>2, <2>3 DEF OfferSeen
    <2>5. slip'.shown[2] \in Nat
        BY <2>3 DEF DoorsInv
    <2> QED BY <1>l, <1>2, <1>s, <2>1, <2>3, <2>4, <2>5 DEF DoorsInv
<1> QED BY <1>1, <1>2

LEMMA DoorsKeepInv == ASSUME DoorsInv, DoorsNext PROVE DoorsInv'
<1>t. errand \in Errands /\ day \in Nat
    BY DEF DoorsInv
<1>d. /\ request.door = "create" /\ CreateDoor = 200 => CreationSeen
      /\ CreationSeen /\ Capped = 200 => OfferSeen(day)
      /\ request.door = "bond" /\ BondDoor = 200 => OfferSeen(day)
      /\ request.door = "register" /\ RegisterDoor = 200 => OfferSeen(day)
      /\ request.door = "bet" /\ BetDoor = 200 => OfferSeen(day)
    BY <1>t, DoorSees
<1>e. errand' = errand
    BY DEF DoorsNext, AskDoor, CreationComposed, SignedExecutes, DayPasses, VisitorSigns, ChainTurns
<1>s. /\ request' = request /\ site' = site /\ currentMaxBet' = currentMaxBet
      /\ CreationSeen' = CreationSeen /\ Plan' = Plan /\ Buildable' = Buildable
    BY <1>e, ErrandStands
<1>q. request.door \in {"create", "bond", "register", "bet"}
    BY <1>t, ErrandsAreRequests DEF request, IsRequest
<1>1. CASE AskDoor
    <2>1. CASE request.door = "create" /\ CreateDoor = 200
        <3>1. slip' = [step |-> "composing", answer |-> slip.answer, call |-> slip.call, shown |-> slip.shown, end |-> slip.end]
            BY <1>1, <2>1 DEF AskDoor, DoorsInv
        <3> QED BY <1>1, <1>d, <1>s, <1>t, <2>1, <3>1 DEF AskDoor, DoorsInv
    <2>2. CASE ~(request.door = "create" /\ CreateDoor = 200)
        <3>1. PICK status : Answers(status)
                  /\ status = (CASE request.door = "create" -> CreateDoor [] request.door = "bond" -> BondDoor
                      [] request.door = "register" -> RegisterDoor [] OTHER -> BetDoor)
            BY <1>1, <2>2 DEF AskDoor
        <3>2. status = 200 => OfferSeen(day)
            BY <1>d, <1>q, <2>2, <3>1
        <3>3. UNCHANGED <<errand, day>>
            BY <1>1 DEF AskDoor
        <3> QED BY <3>1, <3>2, <3>3, AnswersKeepInv
    <2> QED BY <2>1, <2>2
<1>2. CASE CreationComposed
    <2>1. Answers(Capped) /\ UNCHANGED <<errand, day>> /\ CreationSeen
        BY <1>2 DEF CreationComposed, DoorsInv
    <2> QED BY <1>d, <2>1, AnswersKeepInv
<1>3. CASE \E account \in {"ann", "bob"} : VisitorSigns(account)
    <2>1. /\ slip.step = "offered" /\ UNCHANGED <<errand, day>>
          /\ \/ slip' = [slip EXCEPT !.step = "signed"] 
             \/ slip' = [slip EXCEPT !.step = "over"]
        BY <1>3 DEF VisitorSigns
    <2>2. PICK to \in {"signed", "over"} :
              slip' = [step |-> to, answer |-> slip.answer, call |-> slip.call, shown |-> slip.shown, end |-> slip.end]
        BY <2>1 DEF DoorsInv
    <2>3. OfferSeen(slip.shown[2])' <=> OfferSeen(slip.shown[2])
        BY <1>s, <2>2 DEF OfferSeen
    <2> QED BY <1>t, <1>s, <2>1, <2>2, <2>3 DEF DoorsInv
<1>4. CASE SignedExecutes
    <2>1. slip.step = "signed" /\ UNCHANGED <<errand, day>>
        BY <1>4 DEF SignedExecutes
    <2>2. slip' = [step |-> "executed", answer |-> slip.answer, call |-> slip.call, shown |-> slip.shown, end |-> slip'.end]
        BY <1>4 DEF SignedExecutes, DoorsInv
    <2>3. OfferSeen(slip.shown[2])' <=> OfferSeen(slip.shown[2])
        BY <1>s, <2>2 DEF OfferSeen
    <2> QED BY <1>t, <1>s, <2>1, <2>2, <2>3 DEF DoorsInv
<1>5. CASE DayPasses \/ \E face \in Faces : ChainTurns(face)
    <2>1. slip' = slip /\ day' \in Nat
        BY <1>5, <1>t DEF DayPasses, ChainTurns
    <2>3. OfferSeen(slip.shown[2])' <=> OfferSeen(slip.shown[2])
        BY <1>s, <2>1 DEF OfferSeen
    <2> QED BY <1>t, <1>e, <1>s, <2>1, <2>3 DEF DoorsInv
<1> QED BY <1>1, <1>2, <1>3, <1>4, <1>5 DEF DoorsNext

LEMMA DoorsStart == DoorsInit => DoorsInv
BY DEF DoorsInit, DoorsInv, freshSlip

LEMMA DoorsStutter == ASSUME DoorsInv, UNCHANGED doorVars PROVE DoorsInv'
<1>1. errand' = errand /\ day' = day /\ slip' = slip
    BY DEF doorVars
<1>s. /\ request' = request /\ site' = site /\ currentMaxBet' = currentMaxBet
      /\ CreationSeen' = CreationSeen /\ Plan' = Plan /\ Buildable' = Buildable
    BY <1>1, ErrandStands
<1>2. OfferSeen(slip.shown[2])' <=> OfferSeen(slip.shown[2])
    BY <1>1, <1>s DEF OfferSeen
<1> QED BY <1>1, <1>s, <1>2 DEF DoorsInv

\* What a creation's oracle is, once the door has seen it: the platform's own, and not the signer.
LEMMA OraclesMeet == ASSUME errand \in Errands, CreationSeen, request.signer.spelled = "key"
    PROVE  BoundOracle.of = site.approved.of /\ BoundOracle.of # request.signer.of
<1>1. site.approved.spelled \in {"account_hash", "key"}
    BY ErrandsAreRequests DEF CreationSeen, site
<1>2. normalizeAccountId(site.approved) = [of |-> site.approved.of, spelled |-> "account_hash"]
    BY <1>1 DEF normalizeAccountId
<1>3. normalizeAccountId(request.signer) = [of |-> request.signer.of, spelled |-> "account_hash"]
    BY DEF normalizeAccountId
<1>4. normalizeAccountId(BoundOracle) = normalizeAccountId(site.approved)
      /\ normalizeAccountId(BoundOracle) # normalizeAccountId(request.signer)
    BY DEF CreationSeen
<1>5. BoundOracle.of = site.approved.of
    BY <1>2, <1>4 DEF normalizeAccountId
<1> QED BY <1>2, <1>3, <1>4, <1>5

LEMMA SignersFollow == ASSUME DoorsInv PROVE SignersOweThemselves
<1> SUFFICES ASSUME slip.step \in {"offered", "signed", "executed"}
             PROVE  /\ slip.call.from = request.signer.of /\ request.signer.spelled = "key"
                    /\ request.door = "create" => BoundOracle.of = site.approved.of /\ BoundOracle.of # slip.call.from
                    /\ request.door = "bond" => /\ slip.call.to = site.payTo /\ slip.call.to # "nobody"
                                                /\ slip.call.carries >= NATIVE_TRANSFER_MINIMUM
                    /\ request.door = "bet" /\ site.network = "mainnet" /\ site.audit # "audited" => slip.call.carries <= 50
    BY DEF SignersOweThemselves
<1>t. /\ slip.call = Plan /\ Buildable /\ errand \in Errands
      /\ request.door = "create" => CreationSeen
      /\ request.door = "bond" => site.payTo # "nobody"
      /\ request.door = "bet" => request.amount <= currentMaxBet
    BY DEF DoorsInv, OfferSeen, CreationSeen
<1>1. slip.call.from = request.signer.of /\ request.signer.spelled = "key"
    BY <1>t DEF Plan, Buildable
<1>2. ASSUME request.door = "create" PROVE BoundOracle.of = site.approved.of /\ BoundOracle.of # slip.call.from
    BY <1>1, <1>2, <1>t, OraclesMeet
<1>3. ASSUME request.door = "bond"
      PROVE  slip.call.to = site.payTo /\ slip.call.to # "nobody" /\ slip.call.carries >= NATIVE_TRANSFER_MINIMUM
    <2>1. Plan.to = site.payTo /\ Plan.carries = site.bond
        BY <1>3 DEF Plan
    <2> QED BY <1>3, <1>t, <2>1 DEF Buildable
<1>4. ASSUME request.door = "bet", site.network = "mainnet", site.audit # "audited" PROVE slip.call.carries <= 50
    <2>1. Plan.carries = request.amount
        BY <1>4 DEF Plan
    <2>2. currentMaxBet = 50
        BY <1>4 DEF currentMaxBet
    <2> QED BY <1>4, <1>t, <2>1, <2>2
<1> QED BY <1>1, <1>2, <1>3, <1>4

LEMMA RefusalsFollow == ASSUME DoorsInv PROVE RefusalsAreNews
<1> SUFFICES ASSUME slip.step = "executed",
                    NEW why \in Refusals(slip.call, slip.shown[1], slip.shown[2]) \ OnlyTheChainKnows
             PROVE  \/ why = "MarketClosed" /\ ~slip.shown[1].betting /\ site.listed.status = "open"
                    \/ why = "InvalidProfile" /\ (request.name.bytes > request.name.units \/ request.uri.bytes > request.uri.units)
    BY Zenon DEF RefusalsAreNews
<1> DEFINE face == slip.shown[1]
           today == slip.shown[2]
<1>t. /\ slip.call = Plan /\ Buildable /\ errand \in Errands /\ today \in Nat
      /\ OfferSeen(today)
    BY DEF DoorsInv
<1>p. Plan.says = request /\ Plan.from = request.signer.of
    BY DEF Plan
<1>w. why \in Refusals(Plan, face, today) /\ why \notin OnlyTheChainKnows
    BY <1>t
<1>f. IsRequest(request) /\ site.bond \in Nat /\ site.listed.deadline \in Nat
    BY <1>t, ErrandsAreRequests DEF site, request
<1> HIDE DEF face, today
<1>1. ASSUME request.door = "create" PROVE FALSE
    <2>1. CreationSeen /\ request.feeBps <= MAX_PUBLIC_FEE_BPS /\ request.deadline > today /\ request.deadline <= today + Horizon
        BY <1>1, <1>t DEF OfferSeen
    <2>2. /\ request.feeBps \in Nat /\ request.deadline \in Nat /\ request.keys.count \in Nat /\ request.keys.longest \in Nat
          /\ request.claim.units \in Nat /\ request.claim.bytes \in Nat /\ request.claim.bytes >= request.claim.units
        BY <1>1, <1>f DEF IsRequest, IsText
    <2>3. BoundOracle.of = site.approved.of /\ BoundOracle.of # request.signer.of
        BY <1>t, <2>1, OraclesMeet DEF Buildable
    <2>4. /\ request.claim.units \in 1 .. 200 /\ Title(request).bytes <= MAX_QUESTION_LEN
          /\ request.source \notin {"internal", "attested"}
          /\ request.keys.count \in 2 .. 8 /\ request.keys.distinct /\ request.keys.longest \in 1 .. MAX_OUTCOME_LEN
        BY <2>1 DEF CreationSeen, Composes
    <2>5. Title(request).bytes \in Nat /\ Title(request).bytes >= 1
        <3>1. Title(request).bytes = request.claim.bytes \/ Title(request).bytes = request.claim.bytes + 1
            BY DEF Title
        <3>2. request.claim.bytes \in Nat /\ request.claim.bytes >= 1
            BY <2>2, <2>4
        <3> QED BY <3>1, <3>2
    <2>a. (IF request.oracle.of = "nobody" THEN site.approved.of ELSE request.oracle.of) = BoundOracle.of
        BY DEF BoundOracle
    <2>6. why \in CreateRefusals(Plan, face, today)
        BY <1>1, <1>p, <1>w, Zenon DEF Refusals
    <2>7. ~(request.feeBps >= BPS_DENOMINATOR) /\ ~(request.feeBps > MAX_PUBLIC_FEE_BPS)
        BY <2>1, <2>2 DEF MAX_PUBLIC_FEE_BPS, BPS_DENOMINATOR
    <2>8. ~(request.deadline <= today) /\ ~(request.deadline > today + Horizon)
        BY <1>t, <2>1, <2>2, HorizonIsDays
    <2>9. ~(request.keys.count < 2) /\ ~(request.keys.count > 8) /\ Title(request).bytes \in 1 .. MAX_QUESTION_LEN
        BY <2>4, <2>5 DEF MAX_QUESTION_LEN
    <2> DEFINE f == Plan.says
               asked == IF f.oracle.of = "nobody" THEN site.approved.of ELSE f.oracle.of
    <2>10. f = request /\ asked = BoundOracle.of
        BY <1>p, <2>a
    <2> HIDE DEF f, asked
    <2>11. /\ why \notin When(~face.open, "CreationClosed") /\ why \notin When(face.taken, "MarketExists")
           /\ why \notin When(asked \notin face.oracles, "OracleNotApproved")
           /\ why \notin When(~face.room, "CreatorMarketCapReached")
           /\ why \notin When(Plan.carries < face.least, "InsufficientBond")
        BY <1>w, Zenon DEF When, OnlyTheChainKnows
    <2>12. why \notin When(f.keys.count < 2, "InvalidOutcomeCount")
        BY <2>9, <2>10, Zenon DEF When
    <2>13. why \notin When(f.feeBps >= BPS_DENOMINATOR, "InvalidFee")
        BY <2>7, <2>10, Zenon DEF When
    <2>13b. why \notin When(f.feeBps > MAX_PUBLIC_FEE_BPS, "FeeTooHigh")
        BY <2>7, <2>10, Zenon DEF When
    <2>14. why \notin When(f.deadline <= today, "InvalidDeadline") /\ why \notin When(f.deadline > today + Horizon, "DeadlineTooFar")
        BY <2>8, <2>10, Zenon DEF When
    <2>15. why \notin When(Title(f).bytes \notin 1 .. MAX_QUESTION_LEN \/ f.keys.count > 8
                           \/ f.keys.longest \notin 1 .. MAX_OUTCOME_LEN, "InvalidField")
        BY <2>4, <2>9, <2>10, Zenon DEF When
    <2>16. /\ why \notin When(~f.keys.distinct, "DuplicateOutcome") /\ why \notin When(f.source = "internal", "ReservedCategory")
           /\ why \notin When(asked = Plan.from, "SelfOracle")
        BY <1>p, <2>3, <2>4, <2>10, Zenon DEF When
    <2>17. why \in  When(~face.open, "CreationClosed")
                     \cup When(face.taken, "MarketExists")
                     \cup When(f.keys.count < 2, "InvalidOutcomeCount")
                     \cup When(f.feeBps >= BPS_DENOMINATOR, "InvalidFee")
                     \cup When(f.deadline <= today, "InvalidDeadline")
                     \cup When(Title(f).bytes \notin 1 .. MAX_QUESTION_LEN \/ f.keys.count > 8
                               \/ f.keys.longest \notin 1 .. MAX_OUTCOME_LEN, "InvalidField")
                     \cup When(~f.keys.distinct, "DuplicateOutcome")
                     \cup When(f.source = "internal", "ReservedCategory")
                     \cup When(asked = Plan.from, "SelfOracle")
                     \cup When(asked \notin face.oracles, "OracleNotApproved")
                     \cup When(f.feeBps > MAX_PUBLIC_FEE_BPS, "FeeTooHigh")
                     \cup When(f.deadline > today + Horizon, "DeadlineTooFar")
                     \cup When(~face.room, "CreatorMarketCapReached")
                     \cup When(Plan.carries < face.least, "InsufficientBond")
        BY <2>6, Zenon DEF CreateRefusals, f, asked
    <2> QED BY <2>11, <2>12, <2>13, <2>13b, <2>14, <2>15, <2>16, <2>17, Zenon
<1>2. ASSUME request.door = "bond" PROVE FALSE
    <2>1. why \in TransferRefusals(Plan) /\ Plan.carries = site.bond
        BY <1>2, <1>p, <1>w DEF Refusals, Plan
    <2> QED BY <1>2, <1>t, <1>f, <2>1 DEF TransferRefusals, When, Buildable, NATIVE_TRANSFER_MINIMUM
<1>3. ASSUME request.door = "register"
      PROVE  why = "InvalidProfile" /\ (request.name.bytes > request.name.units \/ request.uri.bytes > request.uri.units)
    <2>1. request.name.units \in 1 .. MAX_NAME_LEN /\ request.uri.units <= MAX_URI_LEN
        BY <1>3, <1>t DEF OfferSeen, CreationSeen
    <2>2. why \in RegisterRefusals(Plan, face)
        BY <1>3, <1>p, <1>w DEF Refusals
    <2>3. why = "InvalidProfile" /\ (request.name.bytes \notin 1 .. MAX_NAME_LEN \/ request.uri.bytes > MAX_URI_LEN)
        BY <1>p, <1>w, <2>2, Zenon DEF RegisterRefusals, When, OnlyTheChainKnows
    <2>4. IsText(request.name) /\ IsText(request.uri)
        BY <1>3, <1>f DEF IsRequest
    <2> QED BY <2>1, <2>3, <2>4 DEF IsText, MAX_NAME_LEN, MAX_URI_LEN
<1>4. ASSUME request.door = "bet"
      PROVE  why = "MarketClosed" /\ ~face.betting /\ site.listed.status = "open"
    <2>1. /\ request.amount # 0 /\ request.outcome \in site.listed.outcomes
          /\ site.listed.status = "open" /\ today < site.listed.deadline
        BY <1>4, <1>t DEF OfferSeen, CreationSeen
    <2>2. why \in BetRefusals(Plan, face, today) /\ Plan.carries = request.amount
        BY <1>4, <1>p, <1>w DEF Refusals, Plan
    <2>3. ~(today >= site.listed.deadline)
        BY <1>f, <1>t, <2>1
    <2>4. why = "MarketClosed" /\ ~face.betting
        BY <1>p, <1>w, <2>1, <2>2, <2>3, Zenon DEF BetRefusals, When, OnlyTheChainKnows
    <2> QED BY <2>1, <2>4
<1> QED BY <1>f, <1>1, <1>2, <1>3, <1>4, Zenon DEF IsRequest, face

=============================================================================
