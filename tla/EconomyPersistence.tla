-------------------------- MODULE EconomyPersistence --------------------------
(***************************************************************************)
(* How serverless instances share the economy through one key of a KV      *)
(* store: src/adapters/persist/economy-state.ts.                            *)
(*                                                                         *)
(* The envelope is abstracted to the set of facts it holds (a bet recorded, *)
(* a market created, a resolution, a bond spent) and its `rev`; merging two *)
(* envelopes is the union of their facts, which module EconomyMerge refines.*)
(* An instance is one JavaScript thread: code between two awaits is one     *)
(* action, and anything may happen in other requests at an await.  A GET    *)
(* is served when it is sent: serving it later only returns newer facts.    *)
(***************************************************************************)
EXTENDS Integers, FiniteSets

CONSTANTS
    Instances,          \* warm serverless instances
    Facts,              \* mutations the economy may accept, each at most once
    CAS_MAX_ATTEMPTS,
    EvalSupported,      \* whether the KV product runs EVAL
    SerialRequests,     \* whether an instance serves one request at a time
    TickInstances,      \* the instances the cron's tick lands on
    Faults,             \* which of AllFaults happen
    MaxRev              \* bound: no explicit flush once `rev` has reached it

\* A GET fails; an EVAL gets no answer; an EVAL is answered with an error status
\* although EVAL works; a SET fails; an instance is recycled, losing its memory.
AllFaults == {"get", "eval", "status", "set", "restart"}

ASSUME PersistenceAssumption ==
    /\ CAS_MAX_ATTEMPTS \in Nat \ {0} /\ MaxRev \in Nat
    /\ {EvalSupported, SerialRequests} \subseteq BOOLEAN
    /\ TickInstances \subseteq Instances
    /\ Faults \subseteq AllFaults

VARIABLES
    kv,             \* the stored envelope: [rev, facts]; rev 0 is the missing key
    mem,            \* mem[i]: facts in the instance's module singletons
    hydrated,
    lapsed,         \* lapsed[i]: HYDRATE_TTL_MS have passed since `hydratedAt`
    hydrating,      \* hydrating[i]: NoFetch or the envelope the GET returned
    dirty,
    writer,         \* writer[i]: where the write cycle is, and its payload
    casUnsupported,
    warm,           \* warm[i]: some hydration has ended, so a handler may be past its await
    accepted,       \* history: accepted[i], facts mutated since i started
    published,      \* history: facts some write has put in the store
    forgone         \* history: facts that died with the memory of a recycled instance

vars == <<kv, mem, hydrated, lapsed, hydrating, dirty, writer, casUnsupported,
          warm, accepted, published, forgone>>
history == <<accepted, published, forgone>>
reading == <<hydrated, lapsed, hydrating, warm>>

Envelope == [rev : Nat, facts : SUBSET Facts]
NoFetch  == [rev |-> -1, facts |-> {}]
Idle     == [pc |-> "idle", attempt |-> 0, rev |-> 0, facts |-> {}]
Reading(attempt) == [pc |-> "read", attempt |-> attempt, rev |-> 0, facts |-> {}]

Init ==
    /\ kv = [rev |-> 0, facts |-> {}]
    /\ mem = [i \in Instances |-> {}]
    /\ hydrated = [i \in Instances |-> FALSE]
    /\ lapsed = [i \in Instances |-> FALSE]
    /\ hydrating = [i \in Instances |-> NoFetch]
    /\ dirty = [i \in Instances |-> FALSE]
    /\ writer = [i \in Instances |-> Idle]
    /\ casUnsupported = [i \in Instances |-> FALSE]
    /\ warm = [i \in Instances |-> FALSE]
    /\ accepted = [i \in Instances |-> {}]
    /\ published = {}
    /\ forgone = {}
-----------------------------------------------------------------------------
WritePending(i) == dirty[i] \/ writer[i] # Idle

FaultyMayReread(i) == hydrating[i] = NoFetch /\ (hydrated[i] => lapsed[i])
MayReread(i) ==
    /\ hydrating[i] = NoFetch
    /\ hydrated[i] => lapsed[i] /\ ~WritePending(i)

SendGet(i) == hydrating' = [hydrating EXCEPT ![i] = kv]

Hydrate(i) ==
    /\ MayReread(i)
    /\ SendGet(i)
    /\ UNCHANGED <<kv, mem, hydrated, lapsed, warm, dirty, writer, casUnsupported, history>>

ForcedRead(i) ==
    /\ hydrating[i] = NoFetch
    /\ hydrated' = [hydrated EXCEPT ![i] = FALSE]
    /\ SendGet(i)
    /\ UNCHANGED <<kv, mem, lapsed, warm, dirty, writer, casUnsupported, history>>

\* The tick forces a re-read; it looks at neither `dirty` nor `writer`.
Rehydrate(i) == i \in TickInstances /\ ForcedRead(i)

\* A read with `fresh=1` awaits a running writer and keeps unflushed memory.
Refresh(i) == ~WritePending(i) /\ ForcedRead(i)

\* The `finally` of the hydration.
HydrationEnds(i) ==
    /\ hydrated' = [hydrated EXCEPT ![i] = TRUE]
    /\ lapsed' = [lapsed EXCEPT ![i] = FALSE]
    /\ hydrating' = [hydrating EXCEPT ![i] = NoFetch]
    /\ warm' = [warm EXCEPT ![i] = TRUE]
    /\ UNCHANGED <<kv, dirty, writer, casUnsupported, history>>

\* The answer REPLACES memory, unless the key is missing.
HydrateLands(i) ==
    /\ hydrating[i] # NoFetch
    /\ mem' = [mem EXCEPT ![i] = IF hydrating[i].rev > 0 THEN hydrating[i].facts ELSE @]
    /\ HydrationEnds(i)

HydrateFails(i) ==
    /\ "get" \in Faults
    /\ hydrating[i] # NoFetch
    /\ UNCHANGED mem
    /\ HydrationEnds(i)

TtlLapses(i) ==
    /\ hydrated[i] /\ ~lapsed[i]
    /\ lapsed' = [lapsed EXCEPT ![i] = TRUE]
    /\ UNCHANGED <<kv, mem, hydrated, hydrating, warm, dirty, writer, casUnsupported, history>>
-----------------------------------------------------------------------------
\* `persistEconomyState`: a running writer finds `dirty` set; otherwise a new one starts
\* and has cleared `dirty` again before its first await.
StartPersist(i) ==
    /\ dirty' = [dirty EXCEPT ![i] = writer[i] # Idle]
    /\ writer' = [writer EXCEPT ![i] = IF @ = Idle THEN Reading(0) ELSE @]

\* A handler that has awaited its hydration mutates a ledger and fires the hook.
Mutate(i, f) ==
    /\ warm[i]
    /\ SerialRequests => hydrating[i] = NoFetch
    /\ f \notin published \cup forgone \cup UNION {accepted[j] : j \in Instances}
    /\ mem' = [mem EXCEPT ![i] = @ \cup {f}]
    /\ accepted' = [accepted EXCEPT ![i] = @ \cup {f}]
    /\ StartPersist(i)
    /\ UNCHANGED <<kv, reading, casUnsupported, published, forgone>>

\* A route flushes explicitly.
Flush(i) ==
    /\ warm[i] /\ kv.rev < MaxRev
    /\ StartPersist(i)
    /\ UNCHANGED <<kv, mem, reading, casUnsupported, history>>

FaultyMerge(local, remote) == local
Merge(local, remote) == local \cup remote

\* GET, then snapshot, merge, import and serialize in one synchronous block.
ReadAndMerge(i) ==
    LET union == Merge(mem[i], kv.facts)
        next  == IF casUnsupported[i] THEN "set" ELSE "cas"
    IN  /\ writer[i].pc = "read"
        /\ mem' = [mem EXCEPT ![i] = union]
        /\ dirty' = [dirty EXCEPT ![i] = FALSE]
        /\ writer' = [writer EXCEPT ![i] = [pc |-> next, attempt |-> @.attempt,
                                            rev |-> kv.rev + 1, facts |-> union]]
        /\ UNCHANGED <<kv, reading, casUnsupported, history>>

\* The cycle ends without a write; `dirty` is set for the next persist.
FaultyGiveUp(i) == UNCHANGED dirty /\ writer' = [writer EXCEPT ![i] = Idle]
GiveUp(i) ==
    /\ dirty' = [dirty EXCEPT ![i] = TRUE]
    /\ writer' = [writer EXCEPT ![i] = Idle]

\* The cycle counts as written; a mutation since the snapshot starts another one.
FaultyEndCycle(i) == UNCHANGED dirty /\ writer' = [writer EXCEPT ![i] = Idle]
EndCycle(i) ==
    /\ writer' = [writer EXCEPT ![i] = IF dirty[i] THEN Reading(0) ELSE Idle]
    /\ dirty' = [dirty EXCEPT ![i] = FALSE]

Store(i) ==
    /\ kv' = [rev |-> writer[i].rev, facts |-> writer[i].facts]
    /\ published' = published \cup writer[i].facts

\* A store that could not be read is not written.
FaultyReadUnavailable(i) ==
    /\ "get" \in Faults /\ writer[i].pc = "read"
    /\ kv' = [rev |-> kv.rev, facts |-> mem[i]]
    /\ EndCycle(i)
    /\ UNCHANGED <<mem, reading, casUnsupported, history>>
ReadUnavailable(i) ==
    /\ "get" \in Faults /\ writer[i].pc = "read"
    /\ GiveUp(i)
    /\ UNCHANGED <<kv, mem, reading, casUnsupported, history>>

RevMatches(i) == kv.rev = writer[i].rev - 1

CasWritten(i) ==
    /\ EvalSupported /\ writer[i].pc = "cas" /\ RevMatches(i)
    /\ Store(i)
    /\ EndCycle(i)
    /\ UNCHANGED <<mem, reading, casUnsupported, accepted, forgone>>

FaultyAttemptsLeft(i) == writer[i].attempt + 1 <= CAS_MAX_ATTEMPTS
AttemptsLeft(i) == writer[i].attempt + 1 < CAS_MAX_ATTEMPTS

CasConflict(i) ==
    /\ EvalSupported /\ writer[i].pc = "cas" /\ ~RevMatches(i)
    /\ IF AttemptsLeft(i)
       THEN /\ writer' = [writer EXCEPT ![i] = Reading(writer[i].attempt + 1)]
            /\ UNCHANGED dirty
       ELSE GiveUp(i)
    /\ UNCHANGED <<kv, mem, reading, casUnsupported, history>>

FallBackToSet(i) ==
    /\ writer[i].pc = "cas"
    /\ writer' = [writer EXCEPT ![i].pc = "set"]
    /\ UNCHANGED <<mem, reading, dirty, accepted, forgone>>

\* No answer to the EVAL, which may have been executed all the same.
CasError(i) ==
    /\ EvalSupported /\ "eval" \in Faults
    /\ FallBackToSet(i)
    /\ \/ RevMatches(i) /\ Store(i)
       \/ UNCHANGED <<kv, published>>
    /\ UNCHANGED casUnsupported

\* Any answer that is not a success is taken as "the server rejected EVAL".
CasRejected(i) ==
    /\ ~EvalSupported \/ "status" \in Faults
    /\ FallBackToSet(i)
    /\ casUnsupported' = [casUnsupported EXCEPT ![i] = TRUE]
    /\ UNCHANGED <<kv, published>>

PlainSet(i) ==
    /\ writer[i].pc = "set"
    /\ Store(i)
    /\ EndCycle(i)
    /\ UNCHANGED <<mem, reading, casUnsupported, accepted, forgone>>

\* The failure is warned about once and swallowed; the cycle counts as written.
PlainSetFails(i) ==
    /\ "set" \in Faults /\ writer[i].pc = "set"
    /\ EndCycle(i)
    /\ UNCHANGED <<kv, mem, reading, casUnsupported, history>>

Restart(i) ==
    /\ "restart" \in Faults
    /\ mem' = [mem EXCEPT ![i] = {}]
    /\ hydrated' = [hydrated EXCEPT ![i] = FALSE]
    /\ lapsed' = [lapsed EXCEPT ![i] = FALSE]
    /\ hydrating' = [hydrating EXCEPT ![i] = NoFetch]
    /\ dirty' = [dirty EXCEPT ![i] = FALSE]
    /\ writer' = [writer EXCEPT ![i] = Idle]
    /\ casUnsupported' = [casUnsupported EXCEPT ![i] = FALSE]
    /\ warm' = [warm EXCEPT ![i] = FALSE]
    /\ accepted' = [accepted EXCEPT ![i] = {}]
    /\ forgone' = forgone \cup (accepted[i] \ published)
    /\ UNCHANGED <<kv, published>>
-----------------------------------------------------------------------------
WriterStep(i) ==
    \/ ReadAndMerge(i) \/ ReadUnavailable(i) \/ CasWritten(i) \/ CasConflict(i)
    \/ CasError(i) \/ CasRejected(i) \/ PlainSet(i) \/ PlainSetFails(i)

HydrationStep(i) == HydrateLands(i) \/ HydrateFails(i)

Next ==
    \E i \in Instances :
        \/ Hydrate(i) \/ Rehydrate(i) \/ Refresh(i) \/ HydrationStep(i) \/ TtlLapses(i)
        \/ \E f \in Facts : Mutate(i, f)
        \/ Flush(i) \/ WriterStep(i) \/ Restart(i)

Spec == Init /\ [][Next]_vars

\* Every request to the store is answered or aborted within TIMEOUT_MS, and the event
\* loop resumes the awaiting code.
FairSpec ==
    /\ Spec
    /\ \A i \in Instances : WF_vars(WriterStep(i)) /\ WF_vars(HydrationStep(i))
-----------------------------------------------------------------------------
\* Every variable keeps its type, and a running writer has attempts left.
TypeOK ==
    /\ kv \in Envelope
    /\ mem \in [Instances -> SUBSET Facts]
    /\ hydrated \in [Instances -> BOOLEAN]
    /\ lapsed \in [Instances -> BOOLEAN]
    /\ hydrating \in [Instances -> Envelope \cup {NoFetch}]
    /\ dirty \in [Instances -> BOOLEAN]
    /\ writer \in [Instances -> [pc : {"idle", "read", "cas", "set"},
                                 attempt : 0..(CAS_MAX_ATTEMPTS - 1),
                                 rev : Nat, facts : SUBSET Facts]]
    /\ casUnsupported \in [Instances -> BOOLEAN]
    /\ warm \in [Instances -> BOOLEAN]
    /\ accepted \in [Instances -> SUBSET Facts]
    /\ published \in SUBSET Facts
    /\ forgone \in SUBSET Facts

\* "A re-read REPLACES memory wholesale, so it must never land on top of an unflushed
\* mutation": a fact an instance accepted is in its memory until some write has
\* published it, through every overlap of re-reads, merges and writers.
UnflushedSurvives == \A i \in Instances : accepted[i] \ published \subseteq mem[i]

\* The compare-and-set "loses neither writer's work": what a write has published no
\* later write of another instance removes, also when that instance is cold or could
\* not read the store.
PublishedStaysPublished == published \subseteq kv.facts

\* An instance shows nothing that would vanish with a refresh: whatever is in memory is
\* in the store or is its own mutation still on the way there.
MemoryIsBacked ==
    \A i \in Instances : mem[i] \subseteq kv.facts \cup accepted[i]

\* What an instance still has to publish is going to be: an accepted fact is in the
\* store, or a writer is at work on it, or the instance remembers it is dirty.
OwedFlushIsRemembered ==
    \A i \in Instances : accepted[i] \ published # {} => WritePending(i)

\* A fact an instance accepted reaches the store, if no instance is recycled first.
EveryFactIsPublished ==
    \A f \in Facts : (\E i \in Instances : f \in accepted[i]) ~> f \in kv.facts
=============================================================================
