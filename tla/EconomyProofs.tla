----------------------------- MODULE EconomyProofs -----------------------------
(***************************************************************************)
(* Proofs about the economy's memory and its markets.  The shared          *)
(* envelope, for any instances and facts: every theorem states the         *)
(* deployment it needs, since the code gives each guarantee under some     *)
(* faults only, and the runs show the same boundaries.  How a market       *)
(* settles, for any catalogue, any number of rounds, outcomes and          *)
(* resolutions per sweep, and without the limits of the run on kills and   *)
(* operators.                                                              *)
(***************************************************************************)
EXTENDS EconomyPersistence, EconomyTick, TLAPS

Writers == [pc : {"idle", "read", "cas", "set"}, attempt : 0..(CAS_MAX_ATTEMPTS - 1),
            rev : Nat, facts : SUBSET Facts]

\* What one instance may do.
InstanceStep(i) ==
    \/ Hydrate(i) \/ Rehydrate(i) \/ Refresh(i) \/ HydrationStep(i) \/ TtlLapses(i)
    \/ \E f \in Facts : Mutate(i, f)
    \/ Flush(i) \/ WriterStep(i) \/ Restart(i)

LEMMA NextIsOneInstance == Next <=> \E i \in Instances : InstanceStep(i)
  BY DEF Next, InstanceStep
-----------------------------------------------------------------------------
(***************************************************************************)
(* Writers: what each step makes of the instance's writer                  *)
(***************************************************************************)

LEMMA WriterValues ==
    /\ Idle \in Writers /\ Idle.pc = "idle"
    /\ \A n \in 0..(CAS_MAX_ATTEMPTS - 1) : Reading(n) \in Writers /\ Reading(n).pc = "read" /\ Reading(n) # Idle
<1>1. Idle = [pc |-> "idle", attempt |-> 0, rev |-> 0, facts |-> {}]
  BY DEF Idle
<1>2. 0 \in 0..(CAS_MAX_ATTEMPTS - 1)
  BY PersistenceAssumption
<1>3. Idle \in Writers /\ Idle.pc = "idle"
  BY <1>1, <1>2 DEF Writers
<1>4. ASSUME NEW n \in 0..(CAS_MAX_ATTEMPTS - 1)
      PROVE  Reading(n) \in Writers /\ Reading(n).pc = "read" /\ Reading(n) # Idle
  <2>1. Reading(n) = [pc |-> "read", attempt |-> n, rev |-> 0, facts |-> {}]
    BY DEF Reading
  <2>2. Reading(n) \in Writers
    BY <2>1 DEF Writers
  <2>3. Reading(n).pc = "read"
    BY <2>1
  <2> QED
    BY <1>3, <2>2, <2>3
<1> QED
  BY <1>3, <1>4

\* The writer ReadAndMerge leaves carries the union of memory and store at the next revision.
LEMMA MergedWriter ==
    ASSUME TypeOK, NEW i \in Instances, ReadAndMerge(i)
    PROVE  \E w \in Writers :
              /\ writer' = [writer EXCEPT ![i] = w]
              /\ w.pc \in {"cas", "set"} /\ (w.pc = "set" => casUnsupported[i])
              /\ w.rev = kv.rev + 1 /\ w.facts = mem[i] \cup kv.facts
<1> DEFINE next == IF casUnsupported[i] THEN "set" ELSE "cas"
           w == [pc |-> next, attempt |-> writer[i].attempt, rev |-> kv.rev + 1, facts |-> mem[i] \cup kv.facts]
<1>1. writer[i] \in Writers /\ mem[i] \subseteq Facts /\ kv.rev \in Nat /\ kv.facts \subseteq Facts
  BY DEF TypeOK, Envelope, Writers
<1>2. writer' = [writer EXCEPT ![i] = w]
  BY DEF ReadAndMerge, Merge
<1>3. w \in Writers
  BY <1>1 DEF Writers
<1> QED
  BY <1>2, <1>3

\* The fallback keeps what the writer carries.
LEMMA FallenBackWriter ==
    ASSUME TypeOK, NEW i \in Instances, FallBackToSet(i)
    PROVE  \E w \in Writers :
              /\ writer' = [writer EXCEPT ![i] = w]
              /\ w.pc = "set" /\ w.rev = writer[i].rev /\ w.facts = writer[i].facts
<1> DEFINE w == [pc |-> "set", attempt |-> writer[i].attempt, rev |-> writer[i].rev, facts |-> writer[i].facts]
<1>1. writer[i] \in Writers
  BY DEF TypeOK, Writers
<1>2. [writer[i] EXCEPT !.pc = "set"] = w /\ w \in Writers
  BY <1>1 DEF Writers
<1>3. writer' = [writer EXCEPT ![i] = [writer[i] EXCEPT !.pc = "set"]]
  BY DEF FallBackToSet
<1> QED
  BY <1>2, <1>3

\* Every other way a step changes the writer leaves it idle or about to read.
LEMMA RestingWriter ==
    ASSUME TypeOK, NEW i \in Instances,
           \/ StartPersist(i) \/ GiveUp(i) \/ EndCycle(i) \/ CasConflict(i) \/ ReadUnavailable(i)
           \/ CasWritten(i) \/ PlainSet(i) \/ PlainSetFails(i) \/ Restart(i)
    PROVE  \E w \in Writers :
              /\ writer' = [writer EXCEPT ![i] = w]
              /\ w = writer[i] \/ w.pc \in {"idle", "read"}
<1> USE WriterValues
<1>1. writer \in [Instances -> Writers] /\ writer[i] \in Writers /\ 0 \in 0..(CAS_MAX_ATTEMPTS - 1)
  BY PersistenceAssumption DEF TypeOK, Writers
<1>2. CASE StartPersist(i)
  BY <1>1, <1>2 DEF StartPersist
<1>3. CASE GiveUp(i) \/ ReadUnavailable(i) \/ Restart(i)
  BY <1>1, <1>3 DEF GiveUp, ReadUnavailable, Restart
<1>4. CASE EndCycle(i) \/ CasWritten(i) \/ PlainSet(i) \/ PlainSetFails(i)
  <2>1. EndCycle(i)
    BY <1>4 DEF CasWritten, PlainSet, PlainSetFails
  <2> QED
    BY <1>1, <2>1 DEF EndCycle
<1>5. CASE CasConflict(i)
  <2>1. CASE AttemptsLeft(i)
    <3>1. writer[i].attempt + 1 \in 0..(CAS_MAX_ATTEMPTS - 1)
      BY <1>1, <2>1, PersistenceAssumption DEF AttemptsLeft, Writers
    <3>2. writer' = [writer EXCEPT ![i] = Reading(writer[i].attempt + 1)]
      BY <1>5, <2>1 DEF CasConflict
    <3> QED
      BY <3>1, <3>2
  <2>2. CASE ~AttemptsLeft(i)
    BY <1>1, <1>5, <2>2 DEF CasConflict, GiveUp
  <2> QED
    BY <2>1, <2>2
<1> QED
  BY <1>2, <1>3, <1>4, <1>5

-----------------------------------------------------------------------------
(***************************************************************************)
(* Types                                                                   *)
(***************************************************************************)

LEMMA InitTypes == Init => TypeOK
<1> SUFFICES ASSUME Init PROVE TypeOK
  OBVIOUS
<1>1. writer \in [Instances -> Writers]
  BY WriterValues DEF Init
<1> QED
  BY <1>1 DEF Init, TypeOK, Envelope, Writers

\* Reads, failed reads and the end of their window.
LEMMA ReadingKeepsTypes ==
    ASSUME TypeOK, NEW i \in Instances,
           Hydrate(i) \/ Rehydrate(i) \/ Refresh(i) \/ HydrationStep(i) \/ TtlLapses(i)
    PROVE  TypeOK'
<1>1. kv \in Envelope /\ NoFetch \notin Envelope /\ hydrating[i] \in Envelope \cup {NoFetch}
  BY DEF TypeOK, Envelope, NoFetch
<1>2. CASE Hydrate(i)
  BY <1>1, <1>2 DEF TypeOK, Hydrate, SendGet, history
<1>3. CASE Rehydrate(i) \/ Refresh(i)
  <2>1. ForcedRead(i)
    BY <1>3, Zenon DEF Rehydrate, Refresh
  <2> QED
    BY <1>1, <2>1 DEF TypeOK, ForcedRead, SendGet, history
<1>4. CASE HydrateLands(i)
  <2>1. hydrating[i].facts \subseteq Facts
    BY <1>1, <1>4 DEF HydrateLands, Envelope
  <2>2. mem' \in [Instances -> SUBSET Facts]
    BY <1>4, <2>1 DEF HydrateLands, TypeOK
  <2> QED
    BY <1>4, <2>2 DEF TypeOK, HydrateLands, HydrationEnds, history
<1>5. CASE HydrateFails(i)
  BY <1>5 DEF TypeOK, HydrateFails, HydrationEnds, history
<1>6. CASE TtlLapses(i)
  BY <1>6 DEF TypeOK, TtlLapses, history
<1> QED
  BY <1>2, <1>3, <1>4, <1>5, <1>6 DEF HydrationStep

\* Steps that start, resume or end a writer.
LEMMA WritingKeepsTypes ==
    ASSUME TypeOK, NEW i \in Instances,
           (\E f \in Facts : Mutate(i, f)) \/ Flush(i) \/ WriterStep(i)
    PROVE  TypeOK'
<1>1. PICK w \in Writers : writer' = [writer EXCEPT ![i] = w]
  <2>1. CASE (\E f \in Facts : Mutate(i, f)) \/ Flush(i)
    BY <2>1, RestingWriter DEF Mutate, Flush
  <2>2. CASE ReadAndMerge(i)
    BY <2>2, MergedWriter
  <2>3. CASE CasError(i) \/ CasRejected(i)
    BY <2>3, FallenBackWriter DEF CasError, CasRejected
  <2>4. CASE ReadUnavailable(i) \/ CasWritten(i) \/ CasConflict(i) \/ PlainSet(i) \/ PlainSetFails(i)
    BY <2>4, RestingWriter
  <2> QED
    BY <2>1, <2>2, <2>3, <2>4 DEF WriterStep
<1>2. writer' \in [Instances -> Writers]
  BY <1>1 DEF TypeOK, Writers
<1>3. writer[i] \in Writers
  BY DEF TypeOK, Writers
<1>4. kv' \in Envelope /\ published' \in SUBSET Facts
  <2>1. CASE Store(i)
    <3>1. writer[i].rev \in Nat /\ writer[i].facts \subseteq Facts
      BY <1>3 DEF Writers
    <3> QED
      BY <2>1, <3>1 DEF Store, TypeOK, Envelope
  <2>2. CASE UNCHANGED <<kv, published>>
    BY <2>2 DEF TypeOK
  <2> QED
    BY <2>1, <2>2 DEF WriterStep, Mutate, Flush, ReadAndMerge, ReadUnavailable, CasWritten, CasConflict, CasError,
       CasRejected, PlainSet, PlainSetFails, history
<1>5. mem' \in [Instances -> SUBSET Facts]
  BY SMTT(40) DEF TypeOK, Envelope, WriterStep, Mutate, Flush, ReadAndMerge, Merge, ReadUnavailable, CasWritten, CasConflict,
     CasError, CasRejected, PlainSet, PlainSetFails, FallBackToSet
<1>6. dirty' \in [Instances -> BOOLEAN] /\ casUnsupported' \in [Instances -> BOOLEAN]
  <2>1. CASE (\E f \in Facts : Mutate(i, f)) \/ Flush(i)
    BY <2>1 DEF TypeOK, Mutate, Flush, StartPersist
  <2>2. CASE WriterStep(i)
    BY <2>2 DEF TypeOK, WriterStep, ReadAndMerge, ReadUnavailable, CasWritten, CasConflict, CasError, CasRejected,
       PlainSet, PlainSetFails, FallBackToSet, GiveUp, EndCycle
  <2> QED
    BY <2>1, <2>2
<1>7. UNCHANGED reading /\ forgone' = forgone /\ accepted' \in [Instances -> SUBSET Facts]
  <2>1. CASE \E f \in Facts : Mutate(i, f)
    BY <2>1 DEF TypeOK, Mutate
  <2>2. CASE Flush(i) \/ WriterStep(i)
    BY <2>2 DEF TypeOK, Flush, WriterStep, ReadAndMerge, ReadUnavailable, CasWritten, CasConflict, CasError, CasRejected,
       PlainSet, PlainSetFails, FallBackToSet, history
  <2> QED
    BY <2>1, <2>2
<1> QED
  BY <1>2, <1>4, <1>5, <1>6, <1>7 DEF TypeOK, reading, Writers

LEMMA RestartKeepsTypes ==
    ASSUME TypeOK, NEW i \in Instances, Restart(i)
    PROVE  TypeOK'
<1>1. writer' = [writer EXCEPT ![i] = Idle] /\ Idle \in Writers
  BY WriterValues DEF Restart
<1>2. writer' \in [Instances -> Writers]
  BY <1>1 DEF TypeOK, Writers
<1> QED
  BY <1>2 DEF TypeOK, Restart, Writers

LEMMA StepKeepsTypes == TypeOK /\ [Next]_vars => TypeOK'
<1> SUFFICES ASSUME TypeOK, [Next]_vars PROVE TypeOK'
  OBVIOUS
<1>1. CASE UNCHANGED vars
  BY <1>1 DEF vars, TypeOK
<1>2. CASE Next
  BY <1>2, NextIsOneInstance, ReadingKeepsTypes, WritingKeepsTypes, RestartKeepsTypes DEF InstanceStep
<1> QED
  BY <1>1, <1>2

\* Every variable keeps its type and a running writer has attempts left, whatever fails and
\* however requests overlap.
THEOREM PersistenceTypes == Spec => []TypeOK
  BY InitTypes, StepKeepsTypes, PTL DEF Spec
-----------------------------------------------------------------------------
(***************************************************************************)
(* Frames: an instance touches its own memory and the store only           *)
(***************************************************************************)

LEMMA OthersUntouched ==
    ASSUME TypeOK, NEW i \in Instances, InstanceStep(i), NEW j \in Instances, j # i
    PROVE  /\ mem'[j] = mem[j] /\ hydrated'[j] = hydrated[j] /\ hydrating'[j] = hydrating[j]
           /\ dirty'[j] = dirty[j] /\ writer'[j] = writer[j] /\ casUnsupported'[j] = casUnsupported[j]
           /\ warm'[j] = warm[j] /\ accepted'[j] = accepted[j]
<1>1. CASE Hydrate(i) \/ Rehydrate(i) \/ Refresh(i) \/ HydrationStep(i) \/ TtlLapses(i)
  BY <1>1 DEF TypeOK, Hydrate, Rehydrate, Refresh, ForcedRead, SendGet, HydrationStep, HydrateLands, HydrateFails,
     HydrationEnds, TtlLapses, history
<1>2. CASE (\E f \in Facts : Mutate(i, f)) \/ Flush(i)
  BY <1>2 DEF TypeOK, Mutate, Flush, StartPersist, reading, history
<1>3. CASE WriterStep(i)
  <2>1. CASE ReadAndMerge(i)
    BY <2>1 DEF TypeOK, ReadAndMerge, reading, history
  <2>2. CASE CasError(i) \/ CasRejected(i)
    <3>1. FallBackToSet(i)
      BY <2>2 DEF CasError, CasRejected
    <3>2. PICK w \in Writers : writer' = [writer EXCEPT ![i] = w]
      BY <3>1, FallenBackWriter
    <3> QED
      BY <2>2, <3>1, <3>2 DEF TypeOK, CasError, CasRejected, FallBackToSet, reading
  <2>3. CASE CasConflict(i) \/ ReadUnavailable(i)
    BY <2>3 DEF TypeOK, CasConflict, ReadUnavailable, GiveUp, reading, history
  <2>4. CASE CasWritten(i) \/ PlainSet(i) \/ PlainSetFails(i)
    BY <2>4 DEF TypeOK, CasWritten, PlainSet, PlainSetFails, EndCycle, reading, history
  <2> QED
    BY <1>3, <2>1, <2>2, <2>3, <2>4 DEF WriterStep
<1>4. CASE Restart(i)
  BY <1>4 DEF TypeOK, Restart
<1> QED
  BY <1>1, <1>2, <1>3, <1>4 DEF InstanceStep

\* Only a write changes the store.
LEMMA OnlyWritesStore ==
    ASSUME NEW i \in Instances, InstanceStep(i)
    PROVE  \/ UNCHANGED <<kv, published>>
           \/ Store(i) /\ EvalSupported /\ CasWritten(i)
           \/ Store(i) /\ EvalSupported /\ "eval" \in Faults /\ CasError(i)
           \/ Store(i) /\ PlainSet(i)
<1>1. CASE CasWritten(i)
  <2>1. Store(i) /\ EvalSupported
    BY <1>1 DEF CasWritten
  <2> QED
    BY <1>1, <2>1
<1>2. CASE CasError(i)
  <2>1. EvalSupported /\ "eval" \in Faults
    BY <1>2 DEF CasError
  <2>2. Store(i) \/ UNCHANGED <<kv, published>>
    BY <1>2, Zenon DEF CasError
  <2> QED
    BY <1>2, <2>1, <2>2
<1>3. CASE PlainSet(i)
  <2>1. Store(i)
    BY <1>3 DEF PlainSet
  <2> QED
    BY <1>3, <2>1
<1>4. CASE ~CasWritten(i) /\ ~CasError(i) /\ ~PlainSet(i)
  BY <1>4 DEF InstanceStep, Hydrate, Rehydrate, Refresh, ForcedRead, HydrationStep, HydrateLands, HydrateFails,
     HydrationEnds, TtlLapses, Mutate, Flush, WriterStep, ReadAndMerge, ReadUnavailable, CasConflict, CasRejected,
     PlainSetFails, Restart, history
<1> QED
  BY <1>1, <1>2, <1>3, <1>4

\* What each step may make of a writer.
LEMMA WriterAfter ==
    ASSUME TypeOK, NEW i \in Instances, InstanceStep(i)
    PROVE  \/ writer'[i] = writer[i]
           \/ writer'[i].pc \in {"idle", "read"}
           \/ /\ ReadAndMerge(i) /\ writer'[i].pc \in {"cas", "set"} /\ (writer'[i].pc = "set" => casUnsupported[i])
              /\ writer'[i].rev = kv.rev + 1 /\ writer'[i].facts = mem[i] \cup kv.facts
           \/ /\ (CasError(i) \/ CasRejected(i)) /\ writer[i].pc = "cas" /\ writer'[i].pc = "set"
              /\ writer'[i].rev = writer[i].rev /\ writer'[i].facts = writer[i].facts
<1>1. CASE Hydrate(i) \/ Rehydrate(i) \/ Refresh(i) \/ HydrationStep(i) \/ TtlLapses(i)
  BY <1>1 DEF Hydrate, Rehydrate, Refresh, ForcedRead, HydrationStep, HydrateLands, HydrateFails, HydrationEnds, TtlLapses
<1>2. CASE ReadAndMerge(i)
  BY <1>2, MergedWriter DEF TypeOK
<1>3. CASE CasError(i) \/ CasRejected(i)
  BY <1>3, FallenBackWriter DEF CasError, CasRejected, FallBackToSet, TypeOK
<1>4. CASE \/ (\E f \in Facts : Mutate(i, f)) \/ Flush(i) \/ Restart(i) \/ ReadUnavailable(i)
           \/ CasWritten(i) \/ CasConflict(i) \/ PlainSet(i) \/ PlainSetFails(i)
  <2>1. PICK w \in Writers : writer' = [writer EXCEPT ![i] = w] /\ (w = writer[i] \/ w.pc \in {"idle", "read"})
    BY <1>4, RestingWriter DEF Mutate, Flush
  <2> QED
    BY <2>1 DEF TypeOK
<1> QED
  BY <1>1, <1>2, <1>3, <1>4 DEF InstanceStep, WriterStep
-----------------------------------------------------------------------------
(***************************************************************************)
(* The compare-and-set loses neither writer's work                         *)
(***************************************************************************)

\* EVAL works and always answers; GETs and SETs may fail, requests may overlap, instances die.
CasOnly == EvalSupported /\ "eval" \notin Faults /\ "status" \notin Faults

\* A writer whose revision still fits the store carries all the store holds.
CasInv ==
    /\ published \subseteq kv.facts
    /\ \A i \in Instances :
          /\ ~casUnsupported[i] /\ writer[i].pc # "set"
          /\ hydrating[i].facts \subseteq kv.facts
          /\ mem[i] \subseteq kv.facts \cup accepted[i]
          /\ writer[i].pc = "cas" => /\ writer[i].rev <= kv.rev + 1
                                     /\ writer[i].rev = kv.rev + 1 => kv.facts \subseteq writer[i].facts

LEMMA CasInit == Init => CasInv
<1> SUFFICES ASSUME Init PROVE CasInv
  OBVIOUS
<1>1. \A i \in Instances : writer[i].pc = "idle" /\ hydrating[i].facts = {}
  BY WriterValues DEF Init, NoFetch
<1> QED
  BY <1>1 DEF Init, CasInv

\* The store only grows, and its revision moves with it.
LEMMA CasStoreGrows ==
    ASSUME CasOnly, TypeOK, CasInv, NEW i \in Instances, InstanceStep(i)
    PROVE  /\ kv.facts \subseteq kv'.facts /\ published' \subseteq kv'.facts
           /\ kv' = kv \/ kv'.rev = kv.rev + 1
           /\ kv.rev \in Nat
<1>1. kv \in Envelope /\ writer[i] \in Writers /\ kv.rev \in Nat
  BY DEF TypeOK, Envelope, Writers
<1>2. CASE UNCHANGED <<kv, published>>
  BY <1>1, <1>2 DEF CasInv
<1>3. CASE Store(i) /\ CasWritten(i)
  <2>1. writer[i].rev = kv.rev + 1 /\ writer[i].pc = "cas"
    BY <1>1, <1>3 DEF CasWritten, RevMatches, Writers
  <2>2. kv'.facts = writer[i].facts /\ kv'.rev = kv.rev + 1 /\ published' = published \cup writer[i].facts
    BY <1>3, <2>1 DEF Store
  <2> QED
    BY <1>1, <2>1, <2>2 DEF CasInv
<1> QED
  BY <1>2, <1>3, OnlyWritesStore DEF CasOnly, PlainSet, CasInv

LEMMA CasStep ==
    ASSUME CasOnly, TypeOK, CasInv, NEW i \in Instances, InstanceStep(i)
    PROVE  CasInv'
<1> DEFINE Good(j) ==
          /\ ~casUnsupported'[j] /\ writer'[j].pc # "set"
          /\ hydrating'[j].facts \subseteq kv'.facts
          /\ mem'[j] \subseteq kv'.facts \cup accepted'[j]
          /\ writer'[j].pc = "cas" => /\ writer'[j].rev <= kv'.rev + 1
                                      /\ writer'[j].rev = kv'.rev + 1 => kv'.facts \subseteq writer'[j].facts
<1>1. /\ kv.facts \subseteq kv'.facts /\ published' \subseteq kv'.facts
      /\ kv' = kv \/ kv'.rev = kv.rev + 1
      /\ kv.rev \in Nat
  BY CasStoreGrows
<1>2. \A j \in Instances : writer[j].rev \in Nat
  BY DEF TypeOK
<1>3. ASSUME NEW j \in Instances, j # i PROVE Good(j)
  <2>1. /\ mem'[j] = mem[j] /\ hydrating'[j] = hydrating[j] /\ writer'[j] = writer[j]
        /\ casUnsupported'[j] = casUnsupported[j] /\ accepted'[j] = accepted[j]
    BY <1>3, OthersUntouched
  <2> QED
    BY <1>1, <1>2, <2>1 DEF CasInv
<1>4. ~casUnsupported'[i]
  <2>1. casUnsupported' = casUnsupported \/ casUnsupported' = [casUnsupported EXCEPT ![i] = FALSE]
    BY DEF CasOnly, InstanceStep, Hydrate, Rehydrate, Refresh, ForcedRead, HydrationStep, HydrateLands, HydrateFails,
       HydrationEnds, TtlLapses, Mutate, Flush, WriterStep, ReadAndMerge, ReadUnavailable, CasWritten, CasConflict, CasError,
       CasRejected, PlainSet, PlainSetFails, Restart
  <2> QED
    BY <2>1 DEF CasInv, TypeOK
<1>5. hydrating'[i].facts \subseteq kv'.facts
  <2>1. hydrating' = hydrating \/ hydrating' = [hydrating EXCEPT ![i] = kv] \/ hydrating' = [hydrating EXCEPT ![i] = NoFetch]
    BY DEF InstanceStep, Hydrate, Rehydrate, Refresh, ForcedRead, SendGet, HydrationStep, HydrateLands, HydrateFails,
       HydrationEnds, TtlLapses, Mutate, Flush, WriterStep, ReadAndMerge, ReadUnavailable, CasWritten, CasConflict, CasError,
       CasRejected, PlainSet, PlainSetFails, Restart, FallBackToSet, reading
  <2>2. NoFetch.facts = {}
    BY DEF NoFetch
  <2> QED
    BY <1>1, <2>1, <2>2 DEF CasInv, TypeOK
<1>6. mem'[i] \subseteq kv'.facts \cup accepted'[i]
  <2>1. CASE HydrateLands(i)
    BY <1>1, <2>1 DEF HydrateLands, HydrationEnds, history, CasInv, TypeOK
  <2>2. CASE \E f \in Facts : Mutate(i, f)
    BY <1>1, <2>2 DEF Mutate, CasInv, TypeOK
  <2>3. CASE ReadAndMerge(i)
    BY <1>1, <2>3 DEF ReadAndMerge, Merge, history, CasInv, TypeOK
  <2>4. CASE Restart(i)
    BY <2>4 DEF Restart, TypeOK
  <2>5. CASE UNCHANGED <<mem, accepted>>
    BY <1>1, <2>5 DEF CasInv
  <2> QED
    BY <2>1, <2>2, <2>3, <2>4, <2>5 DEF InstanceStep, Hydrate, Rehydrate, Refresh, ForcedRead, HydrationStep, HydrateFails,
       HydrationEnds, TtlLapses, Flush, WriterStep, ReadUnavailable, CasWritten, CasConflict, CasError, CasRejected,
       PlainSet, PlainSetFails, FallBackToSet, history
<1>7. /\ writer'[i].pc # "set"
      /\ writer'[i].pc = "cas" => /\ writer'[i].rev <= kv'.rev + 1
                                  /\ writer'[i].rev = kv'.rev + 1 => kv'.facts \subseteq writer'[i].facts
  <2>1. CASE writer'[i] = writer[i]
    BY <1>1, <1>2, <2>1 DEF CasInv
  <2>2. CASE ReadAndMerge(i) /\ (writer'[i].pc = "set" => casUnsupported[i])
             /\ writer'[i].rev = kv.rev + 1 /\ writer'[i].facts = mem[i] \cup kv.facts
    BY <1>1, <2>2 DEF ReadAndMerge, history, CasInv
  <2>3. ~CasError(i) /\ ~CasRejected(i)
    BY DEF CasOnly, CasError, CasRejected
  <2> QED
    BY <2>1, <2>2, <2>3, WriterAfter
<1>8. Good(i)
  BY <1>4, <1>5, <1>6, <1>7
<1> HIDE DEF Good
<1>9. \A j \in Instances : Good(j)
  BY <1>3, <1>8
<1> USE DEF Good
<1> QED
  BY <1>1, <1>9 DEF CasInv

LEMMA CasNext == CasOnly /\ TypeOK /\ CasInv /\ [Next]_vars => CasInv'
<1> SUFFICES ASSUME CasOnly, TypeOK, CasInv, [Next]_vars PROVE CasInv'
  OBVIOUS
<1>1. CASE UNCHANGED vars
  BY <1>1 DEF vars, CasInv
<1>2. CASE Next
  BY <1>2, NextIsOneInstance, CasStep
<1> QED
  BY <1>1, <1>2

LEMMA CasInvariance == ASSUME CasOnly PROVE Spec => []CasInv
  BY CasInit, CasNext, PersistenceTypes, PTL DEF Spec

\* "The CAS path loses neither writer's work": whatever a write has put in the store stays
\* there, for any number of instances that die, overlap and fail to read.
THEOREM CasLosesNothing == ASSUME CasOnly PROVE Spec => []PublishedStaysPublished
<1>1. CasInv => PublishedStaysPublished
  BY DEF CasInv, PublishedStaysPublished
<1> QED
  BY <1>1, CasInvariance, PTL

\* No instance shows a fact that is neither in the store nor its own on the way there.
THEOREM CasMemoryIsBacked == ASSUME CasOnly PROVE Spec => []MemoryIsBacked
<1>1. CasInv => MemoryIsBacked
  BY DEF CasInv, MemoryIsBacked
<1> QED
  BY <1>1, CasInvariance, PTL
-----------------------------------------------------------------------------
(***************************************************************************)
(* One request at a time, no tick, and a SET that succeeds: nothing        *)
(* accepted is forgotten before it is published                            *)
(***************************************************************************)

Orderly == SerialRequests /\ TickInstances = {} /\ "set" \notin Faults

\* While a re-read is in flight the instance owes nothing, and a writer carries what it owes
\* unless a mutation since has marked the instance dirty.
OwingInv ==
    \A i \in Instances :
        /\ accepted[i] \ published \subseteq mem[i]
        /\ accepted[i] \ published # {} => WritePending(i)
        /\ hydrating[i] # NoFetch => accepted[i] \subseteq published
        /\ hydrating[i] = NoFetch /\ ~hydrated[i] => ~warm[i]
        /\ ~warm[i] => accepted[i] = {}
        /\ writer[i].pc \in {"cas", "set"} /\ ~dirty[i] => accepted[i] \ published \subseteq writer[i].facts

LEMMA OwingInit == Init => OwingInv
<1> SUFFICES ASSUME Init, NEW i \in Instances
             PROVE  accepted[i] = {} /\ writer[i].pc = "idle" /\ hydrating[i] = NoFetch /\ ~warm[i]
  BY DEF OwingInv
<1> QED
  BY WriterValues DEF Init

LEMMA PublishedGrows == ASSUME NEW i \in Instances, InstanceStep(i) PROVE published \subseteq published'
  BY OnlyWritesStore DEF Store

LEMMA OthersStillOwe ==
    ASSUME TypeOK, OwingInv, NEW i \in Instances, InstanceStep(i), NEW j \in Instances, j # i
    PROVE  /\ accepted'[j] \ published' \subseteq mem'[j]
           /\ accepted'[j] \ published' # {} => WritePending(j)'
           /\ hydrating'[j] # NoFetch => accepted'[j] \subseteq published'
           /\ hydrating'[j] = NoFetch /\ ~hydrated'[j] => ~warm'[j]
           /\ ~warm'[j] => accepted'[j] = {}
           /\ writer'[j].pc \in {"cas", "set"} /\ ~dirty'[j] => accepted'[j] \ published' \subseteq writer'[j].facts
  BY OthersUntouched, PublishedGrows DEF OwingInv, WritePending

\* The instance's own reads: none is sent while it owes, so none lands on what it owes.
LEMMA ReadingOwes ==
    ASSUME Orderly, TypeOK, OwingInv, NEW i \in Instances,
           Hydrate(i) \/ Rehydrate(i) \/ Refresh(i) \/ HydrationStep(i) \/ TtlLapses(i)
    PROVE  OwingInv'
<1>1. kv # NoFetch /\ published' = published /\ accepted' = accepted /\ dirty' = dirty /\ writer' = writer
  <2>1. kv # NoFetch
    BY DEF TypeOK, Envelope, NoFetch
  <2> QED
    BY <2>1 DEF Hydrate, Rehydrate, Refresh, ForcedRead, HydrationStep, HydrateLands, HydrateFails, HydrationEnds,
       TtlLapses, history
<1>2. InstanceStep(i)
  BY DEF InstanceStep
<1>3. ~Rehydrate(i)
  BY DEF Orderly, Rehydrate
<1>4. /\ accepted'[i] \ published' \subseteq mem'[i]
      /\ accepted'[i] \ published' # {} => WritePending(i)'
      /\ hydrating'[i] # NoFetch => accepted'[i] \subseteq published'
      /\ hydrating'[i] = NoFetch /\ ~hydrated'[i] => ~warm'[i]
      /\ ~warm'[i] => accepted'[i] = {}
      /\ writer'[i].pc \in {"cas", "set"} /\ ~dirty'[i] => accepted'[i] \ published' \subseteq writer'[i].facts
  <2>1. CASE Hydrate(i)
    <3>1. accepted[i] \subseteq published
      BY <2>1 DEF Hydrate, MayReread, OwingInv
    <3> QED
      BY <1>1, <2>1, <3>1 DEF Hydrate, SendGet, OwingInv, WritePending, TypeOK
  <2>2. CASE Refresh(i)
    <3>1. accepted[i] \subseteq published
      BY <2>2 DEF Refresh, OwingInv
    <3> QED
      BY <1>1, <2>2, <3>1 DEF Refresh, ForcedRead, SendGet, OwingInv, WritePending, TypeOK
  <2>3. CASE HydrationStep(i)
    <3>1. accepted[i] \subseteq published /\ HydrationEnds(i)
      BY <2>3 DEF HydrationStep, HydrateLands, HydrateFails, OwingInv
    <3> QED
      BY <1>1, <3>1 DEF HydrationEnds, OwingInv, WritePending, TypeOK
  <2>4. CASE TtlLapses(i)
    BY <1>1, <2>4 DEF TtlLapses, OwingInv, WritePending, TypeOK
  <2> QED
    BY <1>3, <2>1, <2>2, <2>3, <2>4
<1> QED
  BY <1>2, <1>4, OthersStillOwe DEF OwingInv

\* A mutation waits for the re-read in flight, and always leaves a writer or the mark.
LEMMA MutatingOwes ==
    ASSUME Orderly, TypeOK, OwingInv, NEW i \in Instances, (\E f \in Facts : Mutate(i, f)) \/ Flush(i)
    PROVE  OwingInv'
<1>1. StartPersist(i) /\ UNCHANGED reading /\ published' = published /\ warm[i]
  BY DEF Mutate, Flush, history
<1>2. /\ writer[i] # Idle => dirty'[i]
      /\ writer[i] = Idle => writer'[i] = Reading(0)
  BY <1>1 DEF StartPersist, TypeOK
<1>3. WritePending(i)' /\ (writer'[i].pc \in {"cas", "set"} => dirty'[i])
  <2>1. CASE writer[i] = Idle
    <3>1. writer'[i].pc = "read" /\ writer'[i] # Idle
      BY <1>2, <2>1, WriterValues, PersistenceAssumption
    <3> QED
      BY <3>1 DEF WritePending
  <2>2. CASE writer[i] # Idle
    BY <1>2, <2>2 DEF WritePending
  <2> QED
    BY <2>1, <2>2
<1>4. /\ accepted'[i] \ published' \subseteq mem'[i]
      /\ hydrating'[i] # NoFetch => accepted'[i] \subseteq published'
      /\ hydrating'[i] = NoFetch /\ ~hydrated'[i] => ~warm'[i]
      /\ ~warm'[i] => accepted'[i] = {}
  <2>1. CASE \E f \in Facts : Mutate(i, f)
    <3>1. hydrating[i] = NoFetch
      BY <2>1 DEF Mutate, Orderly
    <3> QED
      BY <1>1, <2>1, <3>1 DEF Mutate, reading, OwingInv, TypeOK
  <2>2. CASE Flush(i)
    BY <1>1, <2>2 DEF Flush, reading, history, OwingInv
  <2> QED
    BY <2>1, <2>2
<1>5. InstanceStep(i)
  BY DEF InstanceStep
<1> QED
  BY <1>3, <1>4, <1>5, OthersStillOwe DEF OwingInv

\* A write publishes what the writer carries; a cycle that writes nothing leaves the mark.
LEMMA WritingOwes ==
    ASSUME Orderly, TypeOK, OwingInv, NEW i \in Instances, WriterStep(i)
    PROVE  OwingInv'
<1>1. UNCHANGED reading /\ accepted' = accepted
  BY DEF WriterStep, ReadAndMerge, ReadUnavailable, CasWritten, CasConflict, CasError, CasRejected, PlainSet,
     PlainSetFails, FallBackToSet, history
<1>2. InstanceStep(i)
  BY DEF InstanceStep
<1>3. published \subseteq published'
  BY <1>2, PublishedGrows
<1>4. accepted'[i] \ published' \subseteq mem'[i]
  BY <1>1, <1>3 DEF OwingInv, TypeOK, WriterStep, ReadAndMerge, Merge, ReadUnavailable, CasWritten, CasConflict,
     CasError, CasRejected, PlainSet, PlainSetFails, FallBackToSet
<1>5. /\ accepted'[i] \ published' # {} => WritePending(i)'
      /\ writer'[i].pc \in {"cas", "set"} /\ ~dirty'[i] => accepted'[i] \ published' \subseteq writer'[i].facts
  <2>1. CASE ReadAndMerge(i)
    <3>1. writer'[i].pc \in {"cas", "set"} /\ mem[i] \subseteq writer'[i].facts /\ published' = published
      <4>1. PICK w \in Writers : /\ writer' = [writer EXCEPT ![i] = w] /\ w.pc \in {"cas", "set"}
                                  /\ w.facts = mem[i] \cup kv.facts
        BY <2>1, MergedWriter
      <4>2. writer'[i] = w
        BY <4>1 DEF TypeOK
      <4>3. published' = published
        BY <2>1 DEF ReadAndMerge, history
      <4> QED
        BY <4>1, <4>2, <4>3
    <3>2. writer'[i] # Idle
      BY <3>1, WriterValues
    <3> QED
      BY <1>1, <3>1, <3>2 DEF OwingInv, WritePending
  <2>2. CASE CasError(i) \/ CasRejected(i)
    <3>1. writer'[i].pc = "set" /\ writer'[i].facts = writer[i].facts /\ dirty' = dirty /\ writer[i].pc = "cas"
      BY <2>2, FallenBackWriter DEF CasError, CasRejected, FallBackToSet, TypeOK
    <3>2. writer'[i] # Idle
      BY <3>1, WriterValues
    <3> QED
      BY <1>1, <1>3, <3>1, <3>2 DEF OwingInv, WritePending
  <2>3. CASE GiveUp(i)
    BY <1>1, <2>3 DEF GiveUp, WritePending, TypeOK
  <2>4. CASE (CasWritten(i) \/ PlainSet(i)) /\ EndCycle(i) /\ Store(i)
    <3>1. writer[i].pc \in {"cas", "set"}
      BY <2>4 DEF CasWritten, PlainSet
    <3>2. CASE dirty[i]
      <4>1. writer'[i] = Reading(0)
        BY <2>4, <3>2 DEF EndCycle, TypeOK
      <4>2. writer'[i].pc = "read" /\ writer'[i] # Idle
        BY <4>1, WriterValues, PersistenceAssumption
      <4> QED
        BY <4>2 DEF WritePending
    <3>3. CASE ~dirty[i]
      <4>1. accepted'[i] \subseteq published'
        BY <1>1, <2>4, <3>1, <3>3 DEF OwingInv, Store
      <4> QED
        BY <4>1
    <3> QED
      BY <3>2, <3>3
  <2>5. CASE CasConflict(i) /\ AttemptsLeft(i)
    <3>1. writer[i].attempt + 1 \in 0..(CAS_MAX_ATTEMPTS - 1)
      BY <2>5, PersistenceAssumption DEF AttemptsLeft, TypeOK
    <3>2. writer'[i] = Reading(writer[i].attempt + 1)
      BY <2>5 DEF CasConflict, TypeOK
    <3>3. writer'[i].pc = "read" /\ writer'[i] # Idle
      BY <3>1, <3>2, WriterValues
    <3> QED
      BY <3>3 DEF WritePending
  <2> QED
    BY <2>1, <2>2, <2>3, <2>4, <2>5 DEF Orderly, WriterStep, ReadUnavailable, CasWritten, CasConflict, PlainSet, PlainSetFails
<1> QED
  BY <1>1, <1>2, <1>3, <1>4, <1>5, OthersStillOwe DEF OwingInv, reading

LEMMA RestartOwes ==
    ASSUME Orderly, TypeOK, OwingInv, NEW i \in Instances, Restart(i)
    PROVE  OwingInv'
<1>1. accepted'[i] = {} /\ ~warm'[i] /\ hydrating'[i] = NoFetch /\ writer'[i].pc = "idle"
  BY WriterValues DEF Restart, TypeOK
<1>2. InstanceStep(i)
  BY DEF InstanceStep
<1> QED
  BY <1>1, <1>2, OthersStillOwe DEF OwingInv

LEMMA OwingNext == Orderly /\ TypeOK /\ OwingInv /\ [Next]_vars => OwingInv'
<1> SUFFICES ASSUME Orderly, TypeOK, OwingInv, [Next]_vars PROVE OwingInv'
  OBVIOUS
<1>1. CASE UNCHANGED vars
  BY <1>1 DEF vars, OwingInv, WritePending
<1>2. CASE Next
  BY <1>2, NextIsOneInstance, ReadingOwes, MutatingOwes, WritingOwes, RestartOwes DEF InstanceStep
<1> QED
  BY <1>1, <1>2

LEMMA OwingInvariance == ASSUME Orderly PROVE Spec => []OwingInv
  BY OwingInit, OwingNext, PersistenceTypes, PTL DEF Spec

\* "It must never land on top of an unflushed mutation": with one request at a time and SETs
\* that succeed, whatever else fails, an accepted fact stays in memory until it is published.
THEOREM UnflushedStays == ASSUME Orderly PROVE Spec => []UnflushedSurvives
<1>1. OwingInv => UnflushedSurvives
  BY DEF OwingInv, UnflushedSurvives
<1> QED
  BY <1>1, OwingInvariance, PTL

\* Whatever an instance still owes the store, a writer is at work on it or the mark is set.
THEOREM OwedFlushStaysOwed == ASSUME Orderly PROVE Spec => []OwedFlushIsRemembered
<1>1. OwingInv => OwedFlushIsRemembered
  BY DEF OwingInv, OwedFlushIsRemembered
<1> QED
  BY <1>1, OwingInvariance, PTL
-----------------------------------------------------------------------------
(***************************************************************************)
(* A sole instance, under every fault and overlap                          *)
(***************************************************************************)

Sole == \E i \in Instances : Instances = {i}

\* The store holds nothing its only writer does not carry.
SoleInv ==
    /\ published \subseteq kv.facts
    /\ \A i \in Instances : writer[i].pc \in {"cas", "set"} => kv.facts \subseteq writer[i].facts

LEMMA SoleStep ==
    ASSUME Sole, TypeOK, SoleInv, NEW i \in Instances, InstanceStep(i)
    PROVE  SoleInv'
<1>1. CASE Store(i)
  <2>1. writer[i].pc \in {"cas", "set"} \/ UNCHANGED <<kv, published>>
    BY OnlyWritesStore DEF CasWritten, CasError, FallBackToSet, PlainSet
  <2>2. CASE UNCHANGED <<kv, published>> /\ writer[i].pc \notin {"cas", "set"}
    <3>1. kv'.facts = writer[i].facts /\ kv' = kv
      BY <1>1, <2>2 DEF Store
    <3>2. writer'[i].pc \in {"cas", "set"} => kv'.facts \subseteq writer'[i].facts
      BY <2>2, <3>1, WriterAfter
    <3> QED
      BY <2>2, <3>2 DEF Sole, SoleInv
  <2>3. CASE writer[i].pc \in {"cas", "set"}
    <3>1. kv'.facts = writer[i].facts /\ published' = published \cup writer[i].facts
      BY <1>1 DEF Store
    <3>2. writer'[i].pc \in {"cas", "set"} => writer'[i].facts = writer[i].facts
      BY <2>3, WriterAfter DEF ReadAndMerge
    <3> QED
      BY <2>3, <3>1, <3>2 DEF Sole, SoleInv
  <2> QED
    BY <2>1, <2>2, <2>3
<1>2. CASE UNCHANGED <<kv, published>>
  <2>1. writer'[i].pc \in {"cas", "set"} => kv'.facts \subseteq writer'[i].facts
    BY <1>2, WriterAfter DEF SoleInv
  <2> QED
    BY <1>2, <2>1 DEF Sole, SoleInv
<1> QED
  BY <1>1, <1>2, OnlyWritesStore

LEMMA SoleInvariance == ASSUME Sole PROVE Spec => []SoleInv
<1>1. Init => SoleInv
  BY WriterValues DEF Init, SoleInv
<1>2. TypeOK /\ SoleInv /\ [Next]_vars => SoleInv'
  BY NextIsOneInstance, SoleStep DEF vars, SoleInv
<1> QED
  BY <1>1, <1>2, PersistenceTypes, PTL DEF Spec

\* One instance never unpublishes a fact, with overlapping requests, the tick and any fault.
THEOREM SoleLosesNothing == ASSUME Sole PROVE Spec => []PublishedStaysPublished
<1>1. SoleInv => PublishedStaysPublished
  BY DEF SoleInv, PublishedStaysPublished
<1> QED
  BY <1>1, SoleInvariance, PTL

-----------------------------------------------------------------------------
(***************************************************************************)
(* How a market settles                                                    *)
(***************************************************************************)

Doing(at) == [at : at, on : Markets, ans : Answers]

SettlementTypeOK ==
    /\ answer \in [Markets -> Answers \cup {"unknown"}]
    /\ onChain \in [Markets -> Outcomes \cup {"absent", "open"}]
    /\ mirror \in [Markets -> Answers \cup {"absent", "unsettled"}]
    /\ stored \in [Markets -> Answers \cup {"absent", "unsettled"}]
    /\ hook \in [Markets -> Outcomes \cup {"none"}]
    /\ late \subseteq Markets \X Outcomes
    /\ worker \in [Workers -> {idle} \cup Doing({"decided", "resolved", "settled"})]
    /\ round \in Rounds
    /\ sweep \in [on : {"off", "sweep", "rollover"}, at : Nat, tried : Nat]
    /\ asked \in [Markets -> SUBSET Answers]

\* Whatever holds an answer to a market holds one that was taken for it.
AnswersWereTaken ==
    /\ \A m \in Markets :
          /\ onChain[m] \in Outcomes => onChain[m] \in asked[m]
          /\ mirror[m] \in Answers => mirror[m] \in asked[m]
          /\ stored[m] \in Answers => stored[m] \in asked[m]
          /\ hook[m] \in Outcomes => hook[m] \in asked[m]
    /\ \A l \in late : l[2] \in asked[l[1]]
    /\ \A w \in Workers : worker[w].at # "idle" => worker[w].ans \in asked[worker[w].on]

\* An outcome settles a mirror only after the vault has resolved the market.
VaultCameFirst ==
    /\ \A m \in Markets : mirror[m] \in Outcomes \/ stored[m] \in Outcomes => onChain[m] \in Outcomes
    /\ \A w \in Workers :
          worker[w].at \in {"resolved", "settled"} /\ worker[w].ans \in Outcomes => onChain[worker[w].on] \in Outcomes

SettlementInv == SettlementTypeOK /\ AnswersWereTaken /\ VaultCameFirst

\* An outcome is no state of a market.
LEMMA OutcomesAreNoStates ==
    /\ \A v \in Outcomes : v \notin {"absent", "open", "unsettled", "none", "void", "unknown"}
    /\ {"absent", "unsettled"} \cap Answers = {}
    /\ Outcomes \subseteq Answers
BY OutcomesAreNames DEF Answers

\* The sweep's list names markets.
LEMMA ListNamesMarkets ==
    ASSUME NEW i \in 1 .. Len(storeList)
    PROVE  storeList[i] \in Markets
<1> DEFINE rest == [j \in 1 .. MaxRound + 1 |-> j - 1]
<1>1. rest \in Seq(Rounds)
    BY ArbiterAssumption DEF Rounds
<1>2. Catalogue \in Seq(Markets) /\ rest \in Seq(Markets)
    BY <1>1, CatalogueIsAList DEF Markets
<1>3. storeList \in Seq(Markets)
    BY <1>2 DEF storeList
<1> QED
    BY <1>3

\* Nothing is settled, told or taken when the system starts.
LEMMA SettlementInit0 == ArbiterInit => SettlementInv
<1> SUFFICES ASSUME ArbiterInit PROVE SettlementInv
    OBVIOUS
<1> USE OutcomesAreNoStates DEF ArbiterInit
<1>1. SettlementTypeOK
    BY ArbiterAssumption DEF SettlementTypeOK, Rounds, idle
<1>2. AnswersWereTaken
    BY DEF AnswersWereTaken, idle
<1>3. VaultCameFirst
    BY DEF VaultCameFirst, idle
<1> QED
    BY <1>1, <1>2, <1>3 DEF SettlementInv

\* A worker that is at something is at a market, with an answer.
LEMMA AtWork ==
    ASSUME SettlementTypeOK, NEW w \in Workers, worker[w].at # "idle"
    PROVE  /\ worker[w] \in Doing({"decided", "resolved", "settled"})
           /\ worker[w].on \in Markets /\ worker[w].ans \in Answers
BY DEF SettlementTypeOK, Doing, idle

\* The sweep moves on, the operator answers, time and answers move: each takes an answer at most.
LEMMA TakingKeepsInv ==
    ASSUME SettlementInv, NEW m \in Markets, NEW w \in Workers, NEW v \in Answers,
           worker' = [worker EXCEPT ![w] = [at |-> "decided", on |-> m, ans |-> v]],
           asked' = [asked EXCEPT ![m] = @ \cup {v}],
           sweep' \in [on : {"off", "sweep", "rollover"}, at : Nat, tried : Nat],
           UNCHANGED <<answer, onChain, mirror, stored, hook, late, round>>
    PROVE  SettlementInv'
<1> USE DEF SettlementInv
<1>1. SettlementTypeOK'
    BY DEF SettlementTypeOK, Doing
<1>2. \A n \in Markets : asked[n] \subseteq asked'[n]
    BY DEF SettlementTypeOK
<1>3. v \in asked'[m]
    BY DEF SettlementTypeOK
<1>4. AnswersWereTaken'
    <2>1. ASSUME NEW u \in Workers, worker'[u].at # "idle" PROVE worker'[u].ans \in asked'[worker'[u].on]
        <3>1. CASE u = w
            BY <1>3, <3>1 DEF SettlementTypeOK
        <3>2. CASE u # w
            <4>1. worker'[u] = worker[u]
                BY <3>2 DEF SettlementTypeOK
            <4>2. worker[u].on \in Markets
                BY <2>1, <4>1, AtWork
            <4> QED
                BY <1>2, <2>1, <4>1, <4>2 DEF AnswersWereTaken
        <3> QED
            BY <3>1, <3>2
    <2>2. \A l \in late' : l[2] \in asked'[l[1]]
        BY <1>2 DEF AnswersWereTaken, SettlementTypeOK
    <2> QED
        BY <1>2, <2>1, <2>2 DEF AnswersWereTaken
<1>5. VaultCameFirst'
    <2>1. ASSUME NEW u \in Workers, worker'[u].at \in {"resolved", "settled"}
          PROVE  worker'[u] = worker[u]
        BY <2>1 DEF SettlementTypeOK
    <2> QED
        BY <2>1 DEF VaultCameFirst
<1> QED
    BY <1>1, <1>4, <1>5

\* A step that only moves the sweep, the clock or the answers there would be.
LEMMA MovingOnKeepsInv ==
    ASSUME SettlementInv, SettlementTypeOK',
           UNCHANGED <<onChain, mirror, stored, hook, late, worker, asked>>
    PROVE  SettlementInv'
BY DEF SettlementInv, AnswersWereTaken, VaultCameFirst

LEMMA DecideKeepsInv ==
    ASSUME SettlementInv, NEW i \in 1 .. Len(storeList), decide(i)
    PROVE  SettlementInv'
<1> DEFINE m == storeList[i]
<1>0. m \in Markets
    BY ListNamesMarkets
<1>1. i + 1 \in Nat /\ sweep.tried + 1 \in Nat
    BY DEF SettlementInv, SettlementTypeOK
<1>2. CASE answer[m] = "unknown"
    <2>1. SettlementTypeOK'
        BY <1>1, <1>2 DEF decide, SettlementInv, SettlementTypeOK
    <2> QED
        BY <1>2, <2>1, MovingOnKeepsInv DEF decide
<1>3. CASE answer[m] # "unknown"
    <2>1. answer[m] \in Answers
        BY <1>0, <1>3 DEF SettlementInv, SettlementTypeOK
    <2>2. sweep' \in [on : {"off", "sweep", "rollover"}, at : Nat, tried : Nat]
        <3>1. sweep' = [sweep EXCEPT !.at = i + 1, !.tried = @ + 1]
            BY <1>3 DEF decide
        <3> QED
            BY <1>1, <3>1 DEF SettlementInv, SettlementTypeOK
    <2>3. "cron" \in Workers
        BY DEF Workers
    <2> HIDE DEF m
    <2>4. /\ worker' = [worker EXCEPT !["cron"] = [at |-> "decided", on |-> m, ans |-> answer[m]]]
          /\ asked' = [asked EXCEPT ![m] = @ \cup {answer[m]}]
          /\ UNCHANGED <<answer, onChain, mirror, stored, hook, late, round>>
        BY <1>3 DEF decide, m
    <2> QED
        BY <1>0, <2>1, <2>2, <2>3, <2>4, TakingKeepsInv
<1> QED
    BY <1>2, <1>3

LEMMA OperatorKeepsInv ==
    ASSUME SettlementInv, NEW m \in Markets, NEW v \in Answers, OperatorDecides(m, v)
    PROVE  SettlementInv'
<1>1. "operator" \in Workers
    BY DEF Workers
<1>2. sweep' \in [on : {"off", "sweep", "rollover"}, at : Nat, tried : Nat]
    BY DEF OperatorDecides, SettlementInv, SettlementTypeOK
<1> QED
    BY <1>1, <1>2, TakingKeepsInv DEF OperatorDecides

\* A resolve reaches the vault: through its worker, or long after it was given up on.
LEMMA LandingKeepsInv ==
    ASSUME SettlementInv, NEW w \in Workers, ResolveLands(w)
    PROVE  SettlementInv'
<1> DEFINE m == worker[w].on  v == worker[w].ans
<1> USE OutcomesAreNoStates DEF SettlementInv
<1>1. m \in Markets /\ v \in Answers /\ v \in asked[m]
    BY AtWork DEF ResolveLands, At, AnswersWereTaken
<1>2. worker[w] \in Doing({"decided", "resolved", "settled"})
    BY AtWork DEF ResolveLands, At
<1>3. worker' = [worker EXCEPT ![w] = [at |-> "resolved", on |-> m, ans |-> v]]
    <2>1. [worker[w] EXCEPT !.at = "resolved"] = [at |-> "resolved", on |-> m, ans |-> v]
        BY <1>2 DEF Doing
    <2>2. worker' = [worker EXCEPT ![w] = [worker[w] EXCEPT !.at = "resolved"]]
        BY DEF ResolveLands, SettlementTypeOK
    <2> QED
        BY <2>1, <2>2
<1>4. v # "void" => v \in Outcomes
    BY <1>1 DEF Answers
<1>5. /\ onChain' \in [Markets -> Outcomes \cup {"absent", "open"}]
      /\ \A n \in Markets : onChain[n] \in Outcomes => onChain'[n] \in Outcomes
      /\ v \in Outcomes => onChain'[m] = v
      /\ \A n \in Markets : onChain'[n] \in Outcomes => onChain'[n] \in asked[n]
    BY <1>1, <1>4 DEF ResolveLands, SettlementTypeOK, AnswersWereTaken
<1> HIDE DEF m, v
<1>6. SettlementTypeOK'
    <2>1. [at |-> "resolved", on |-> m, ans |-> v] \in Doing({"decided", "resolved", "settled"})
        BY <1>1 DEF Doing
    <2>2. worker' \in [Workers -> {idle} \cup Doing({"decided", "resolved", "settled"})]
        BY <1>3, <2>1 DEF SettlementTypeOK
    <2> QED
        BY <1>5, <2>2 DEF ResolveLands, SettlementTypeOK
<1>7. \A u \in Workers : worker'[u].at # "idle" =>
          worker'[u].ans \in asked[worker'[u].on]
    BY <1>1, <1>3 DEF SettlementTypeOK, AnswersWereTaken
<1>8. AnswersWereTaken'
    BY <1>5, <1>7 DEF ResolveLands, AnswersWereTaken
<1>9. VaultCameFirst'
    <2>1. ASSUME NEW u \in Workers, worker'[u].at \in {"resolved", "settled"}, worker'[u].ans \in Outcomes
          PROVE  onChain'[worker'[u].on] \in Outcomes
        <3>1. CASE u = w
            BY <1>3, <1>5, <2>1, <3>1 DEF SettlementTypeOK
        <3>2. CASE u # w
            <4>1. worker'[u] = worker[u]
                BY <1>3, <3>2 DEF SettlementTypeOK
            <4> QED
                BY <1>5, <2>1, <4>1, AtWork DEF VaultCameFirst
        <3> QED
            BY <3>1, <3>2
    <2> QED
        BY <1>5, <2>1 DEF ResolveLands, VaultCameFirst
<1> QED
    BY <1>6, <1>8, <1>9

LEMMA LateKeepsInv ==
    ASSUME SettlementInv, NEW m \in Markets, NEW v \in Answers, LateExecutes(m, v)
    PROVE  SettlementInv'
<1> USE OutcomesAreNoStates DEF SettlementInv
<1>1. v \in Outcomes /\ v \in asked[m]
    BY DEF LateExecutes, SettlementTypeOK, AnswersWereTaken
<1>2. /\ onChain' \in [Markets -> Outcomes \cup {"absent", "open"}]
      /\ \A n \in Markets : onChain[n] \in Outcomes => onChain'[n] \in Outcomes
      /\ \A n \in Markets : onChain'[n] \in Outcomes => onChain'[n] \in asked[n]
    BY <1>1 DEF LateExecutes, SettlementTypeOK, AnswersWereTaken
<1>3. SettlementTypeOK'
    BY <1>2 DEF LateExecutes, SettlementTypeOK
<1>4. AnswersWereTaken'
    BY <1>2 DEF LateExecutes, AnswersWereTaken
<1>5. VaultCameFirst'
    BY <1>2, AtWork DEF LateExecutes, VaultCameFirst
<1> QED
    BY <1>3, <1>4, <1>5

\* A worker that goes on, or stops, changes nobody's record: it keeps its market and its
\* answer, and says "resolved" only of a market the vault has resolved.
LEMMA WorkerKeepsInv ==
    ASSUME SettlementInv, NEW w \in Workers,
           NEW x, x = idle \/ (/\ worker[w].at # "idle"
                               /\ x \in Doing({"decided", "resolved", "settled"})
                               /\ x.on = worker[w].on /\ x.ans = worker[w].ans
                               /\ x.ans \in Outcomes => onChain[x.on] \in Outcomes),
           worker' = [worker EXCEPT ![w] = x],
           late' = late \/ (worker[w].at # "idle" /\ worker[w].ans \in Outcomes
                             /\ late' = late \cup {<<worker[w].on, worker[w].ans>>}),
           UNCHANGED <<answer, onChain, mirror, stored, hook, round, sweep, asked>>
    PROVE  SettlementInv'
<1> USE DEF SettlementInv
<1>1. SettlementTypeOK'
    BY AtWork DEF SettlementTypeOK
<1>2. ASSUME NEW u \in Workers, worker'[u].at # "idle" PROVE worker'[u].ans \in asked[worker'[u].on]
    BY <1>2 DEF SettlementTypeOK, AnswersWereTaken, idle
<1>3. \A l \in late' : l[2] \in asked[l[1]]
    BY DEF AnswersWereTaken
<1>4. AnswersWereTaken'
    BY <1>2, <1>3 DEF AnswersWereTaken
<1>5. VaultCameFirst'
    BY DEF SettlementTypeOK, VaultCameFirst, idle
<1> QED
    BY <1>1, <1>4, <1>5

LEMMA AlreadySettledKeepsInv ==
    ASSUME SettlementInv, NEW w \in Workers, chainAlreadySettled(w)
    PROVE  SettlementInv'
<1> DEFINE x == AfterAlreadySettled(w)
<1>1. worker[w].at # "idle" /\ worker[w] \in Doing({"decided", "resolved", "settled"})
    BY AtWork DEF SettlementInv, chainAlreadySettled, At
<1>2. CASE w = "cron"
    <2>1. x = [worker[w] EXCEPT !.at = "resolved"]
        BY <1>2 DEF AfterAlreadySettled
    <2>2. /\ x \in Doing({"decided", "resolved", "settled"})
          /\ x.on = worker[w].on /\ x.ans = worker[w].ans
        BY <1>1, <2>1 DEF Doing
    <2> HIDE DEF x
    <2> QED
        BY <1>1, <2>2, WorkerKeepsInv DEF chainAlreadySettled, x
<1>3. CASE w # "cron"
    <2>1. x = idle
        BY <1>3 DEF AfterAlreadySettled
    <2> QED
        BY <2>1, WorkerKeepsInv DEF chainAlreadySettled
<1> QED
    BY <1>2, <1>3

LEMMA FailureKeepsInv ==
    ASSUME SettlementInv, NEW w \in Workers, ResolveFails(w)
    PROVE  SettlementInv'
<1>1. worker[w].at # "idle" /\ worker[w].ans \in Answers /\ worker[w].ans # "void"
    BY AtWork DEF SettlementInv, ResolveFails, At
<1>2. worker[w].ans \in Outcomes
    BY <1>1 DEF Answers
<1>3. late' = late \/ late' = late \cup {<<worker[w].on, worker[w].ans>>}
    BY DEF ResolveFails
<1>4. /\ worker' = [worker EXCEPT ![w] = idle]
      /\ UNCHANGED <<answer, onChain, mirror, stored, hook, round, sweep, asked>>
    BY DEF ResolveFails, AfterFailure
<1> QED
    BY <1>1, <1>2, <1>3, <1>4, WorkerKeepsInv

\* The mirror takes the answer of a worker whose resolve the vault has taken.
LEMMA SettleKeepsInv ==
    ASSUME SettlementInv, NEW w \in Workers, settle(w)
    PROVE  SettlementInv'
<1> DEFINE m == worker[w].on  v == worker[w].ans
<1> USE OutcomesAreNoStates DEF SettlementInv
<1>1. /\ worker[w].at = "resolved" /\ m \in Markets /\ v \in Answers /\ v \in asked[m]
      /\ worker[w] \in Doing({"decided", "resolved", "settled"})
    BY AtWork DEF settle, At, AnswersWereTaken
<1>2. v \in Outcomes => onChain[m] \in Outcomes
    BY <1>1 DEF VaultCameFirst
<1>3. worker' = [worker EXCEPT ![w] = [at |-> "settled", on |-> m, ans |-> v]]
    <2>1. [worker[w] EXCEPT !.at = "settled"] = [at |-> "settled", on |-> m, ans |-> v]
        BY <1>1 DEF Doing
    <2>2. worker' = [worker EXCEPT ![w] = [worker[w] EXCEPT !.at = "settled"]]
        BY DEF settle, SettlementTypeOK
    <2> QED
        BY <2>1, <2>2
<1>4. mirror' \in {mirror, [mirror EXCEPT ![m] = v]}
    BY DEF settle
<1> HIDE DEF m, v
<1>5. SettlementTypeOK'
    <2>1. [at |-> "settled", on |-> m, ans |-> v] \in Doing({"decided", "resolved", "settled"})
        BY <1>1 DEF Doing
    <2>2. worker' \in [Workers -> {idle} \cup Doing({"decided", "resolved", "settled"})]
        BY <1>3, <2>1 DEF SettlementTypeOK
    <2>3. mirror' \in [Markets -> Answers \cup {"absent", "unsettled"}]
        BY <1>1, <1>4 DEF SettlementTypeOK
    <2> QED
        BY <2>2, <2>3 DEF settle, SettlementTypeOK
<1>6. \A n \in Markets : mirror'[n] = mirror[n] \/ (n = m /\ mirror'[n] = v)
    BY <1>1, <1>4 DEF SettlementTypeOK
<1>7. AnswersWereTaken'
    <2>1. \A u \in Workers : worker'[u].at # "idle" => worker'[u].ans \in asked[worker'[u].on]
        BY <1>1, <1>3 DEF SettlementTypeOK, AnswersWereTaken
    <2>2. \A n \in Markets : mirror'[n] \in Answers => mirror'[n] \in asked[n]
        BY <1>1, <1>6 DEF AnswersWereTaken
    <2> QED
        BY <2>1, <2>2 DEF settle, AnswersWereTaken
<1>8. VaultCameFirst'
    <2>1. \A u \in Workers : worker'[u].at \in {"resolved", "settled"} /\ worker'[u].ans \in Outcomes
              => onChain[worker'[u].on] \in Outcomes
        BY <1>2, <1>3 DEF SettlementTypeOK, VaultCameFirst
    <2>2. \A n \in Markets : mirror'[n] \in Outcomes => onChain[n] \in Outcomes
        BY <1>2, <1>6 DEF VaultCameFirst
    <2> QED
        BY <2>1, <2>2 DEF settle, VaultCameFirst
<1> QED
    BY <1>5, <1>7, <1>8

\* What is told and what is stored were taken before.
LEMMA FinishKeepsInv ==
    ASSUME SettlementInv, NEW w \in Workers, FinishResolution(w)
    PROVE  SettlementInv'
<1> DEFINE m == worker[w].on  v == worker[w].ans
<1> USE OutcomesAreNoStates DEF SettlementInv
<1>1. m \in Markets /\ v \in Answers /\ v \in asked[m]
    BY AtWork DEF FinishResolution, At, AnswersWereTaken
<1>2. hook' = hook \/ (v \in Outcomes /\ hook' = [hook EXCEPT ![m] = v])
    BY <1>1 DEF FinishResolution, Answers
<1>3. worker' = [worker EXCEPT ![w] = idle] /\ stored' \in {stored, mirror}
    BY DEF FinishResolution
<1>4. \A u \in Workers : worker'[u] \in {worker[u], idle}
    BY <1>3 DEF SettlementTypeOK
<1> HIDE DEF m, v
<1>5. SettlementTypeOK'
    BY <1>1, <1>2, <1>3 DEF FinishResolution, SettlementTypeOK
<1>6. AnswersWereTaken'
    <2>1. \A n \in Markets : hook'[n] \in Outcomes => hook'[n] \in asked[n]
        BY <1>1, <1>2 DEF SettlementTypeOK, AnswersWereTaken
    <2>2. \A u \in Workers : worker'[u].at # "idle" => worker'[u].ans \in asked[worker'[u].on]
        BY <1>4 DEF AnswersWereTaken, idle
    <2> QED
        BY <1>3, <2>1, <2>2 DEF FinishResolution, AnswersWereTaken
<1>7. VaultCameFirst'
    BY <1>3, <1>4 DEF FinishResolution, VaultCameFirst, idle
<1> QED
    BY <1>5, <1>6, <1>7

\* A killed instance comes back with what was stored.
LEMMA KilledKeepsInv ==
    ASSUME SettlementInv, Killed
    PROVE  SettlementInv'
<1> USE DEF SettlementInv, Killed
<1>1. \A u \in Workers : worker'[u] = idle
    OBVIOUS
<1>2. SettlementTypeOK'
    BY DEF SettlementTypeOK
<1>3. AnswersWereTaken' /\ VaultCameFirst'
    BY <1>1 DEF AnswersWereTaken, VaultCameFirst, idle
<1> QED
    BY <1>2, <1>3

\* The rollover opens rounds that were absent, in the vault and on the boards.
LEMMA RolloverKeepsInv ==
    ASSUME SettlementInv, NEW create \in Creates, rollMaturedRounds(create)
    PROVE  SettlementInv'
<1> USE OutcomesAreNoStates DEF SettlementInv
<1>1. /\ onChain' \in [Markets -> Outcomes \cup {"absent", "open"}]
      /\ \A n \in Markets : onChain'[n] = onChain[n] \/ (onChain[n] = "absent" /\ onChain'[n] = "open")
    BY DEF rollMaturedRounds, SettlementTypeOK, Markets
<1>2. /\ mirror' \in [Markets -> Answers \cup {"absent", "unsettled"}]
      /\ \A n \in Markets : mirror'[n] = mirror[n] \/ mirror'[n] = "unsettled"
      /\ stored' = mirror'
    BY DEF rollMaturedRounds, SettlementTypeOK
<1>3. SettlementTypeOK'
    BY <1>1, <1>2 DEF rollMaturedRounds, SettlementTypeOK
<1>4. AnswersWereTaken'
    BY <1>1, <1>2 DEF rollMaturedRounds, AnswersWereTaken
<1>5. VaultCameFirst'
    BY <1>1, <1>2, AtWork DEF rollMaturedRounds, VaultCameFirst
<1> QED
    BY <1>3, <1>4, <1>5

\* Starting and ending a sweep, the clock, and an answer that moves.
LEMMA RestKeepsInv ==
    ASSUME SettlementInv,
           StartSweep \/ SweepEnds \/ currentRound \/ \E m \in Markets, v \in Answers : AnswerMoves(m, v)
    PROVE  SettlementInv'
<1> USE DEF SettlementInv, SettlementTypeOK
<1>1. CASE StartSweep
    <2>1. SettlementTypeOK'
        BY <1>1 DEF StartSweep
    <2> QED
        BY <1>1, <2>1, MovingOnKeepsInv DEF StartSweep
<1>2. CASE SweepEnds
    <2>1. SettlementTypeOK'
        BY <1>2 DEF SweepEnds
    <2> QED
        BY <1>2, <2>1, MovingOnKeepsInv DEF SweepEnds
<1>3. CASE currentRound
    <2>1. round' \in Rounds
        BY <1>3, ArbiterAssumption DEF currentRound, Rounds
    <2>2. SettlementTypeOK'
        BY <1>3, <2>1 DEF currentRound
    <2> QED
        BY <1>3, <2>2, MovingOnKeepsInv DEF currentRound
<1>4. ASSUME NEW m \in Markets, NEW v \in Answers, AnswerMoves(m, v) PROVE SettlementInv'
    <2>1. SettlementTypeOK'
        BY <1>4 DEF AnswerMoves
    <2> QED
        BY <1>4, <2>1, MovingOnKeepsInv DEF AnswerMoves
<1> QED
    BY <1>1, <1>2, <1>3, <1>4

LEMMA TickKeepsInv == SettlementInv /\ [TickNext]_arbiterVars => SettlementInv'
<1> SUFFICES ASSUME SettlementInv, [TickNext]_arbiterVars PROVE SettlementInv'
    OBVIOUS
<1>1. CASE UNCHANGED arbiterVars
    BY <1>1 DEF arbiterVars, SettlementInv, SettlementTypeOK, AnswersWereTaken, VaultCameFirst
<1>2. CASE TickNext
    BY <1>2, RestKeepsInv, KilledKeepsInv, DecideKeepsInv, LandingKeepsInv, AlreadySettledKeepsInv,
       FailureKeepsInv, SettleKeepsInv, FinishKeepsInv, LateKeepsInv, OperatorKeepsInv, RolloverKeepsInv DEF TickNext
<1> QED
    BY <1>1, <1>2

\* An answer is one settlement, everywhere: an outcome settles the mirror only after the vault,
\* and a market for which one answer was ever taken holds no other in the vault, the mirror or
\* the contracts told, through retries, kills, late resolves and operators.
THEOREM OneAnswerEverywhere == TickSpec => []OneAnswerOneSettlement
<1>1. SettlementInv => OneAnswerOneSettlement
    <2> SUFFICES ASSUME SettlementInv, NEW m \in Markets
                 PROVE  /\ mirror[m] \in Outcomes => onChain[m] \in Outcomes
                        /\ \A v \in Answers : asked[m] = {v} =>
                              /\ onChain[m] \in {"absent", "open", v}
                              /\ mirror[m] \in {"absent", "unsettled", v}
                              /\ hook[m] \in {"none", v}
        BY DEF OneAnswerOneSettlement
    <2>1. mirror[m] \in Outcomes => onChain[m] \in Outcomes
        BY DEF SettlementInv, VaultCameFirst
    <2>2. /\ onChain[m] \in {"absent", "open"} \/ onChain[m] \in asked[m]
          /\ mirror[m] \in {"absent", "unsettled"} \/ mirror[m] \in asked[m]
          /\ hook[m] = "none" \/ hook[m] \in asked[m]
        BY DEF SettlementInv, SettlementTypeOK, AnswersWereTaken
    <2> QED
        BY <2>1, <2>2
<1> QED
    BY <1>1, SettlementInit0, TickKeepsInv, PTL DEF TickSpec

=============================================================================
