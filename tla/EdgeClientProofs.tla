-------------------------- MODULE EdgeClientProofs ---------------------------
(* Theorems about EdgeClient, for any collectors, events and bounds. *)
EXTENDS EdgeClient, TLAPS

USE DEF Goroutines

\* Every step of the client keeps the types of its state.
LEMMA TypeStep == ASSUME TypeOK, [Next]_vars PROVE TypeOK'
<1> USE EdgeAssumption DEF TypeOK, Labels, History, GoTo, Take, Return, Inc, Ingested
<1>1. ASSUME NEW g \in Collectors, NEW e \in Events, WriteEvent(g, e) PROVE TypeOK'
  BY <1>1 DEF WriteEvent, Enqueue
<1>2. ASSUME NEW g \in Collectors, NEW S \in SUBSET Events, WriteBatch(g, S) PROVE TypeOK'
  BY <1>2 DEF WriteBatch, Enqueue
<1>3. ASSUME NEW g \in Goroutines, Flush(g) PROVE TypeOK'
  <2>1. CASE TakeBatch(g) BY <2>1 DEF TakeBatch, FreshBatch
  <2>2. CASE MarshalFails(g) BY <2>2 DEF MarshalFails
  <2>3. CASE PostAccepted(g) BY <2>3 DEF PostAccepted
  <2>4. CASE PostFails(g)
    <3>1. Ingested(g) \in History OBVIOUS
    <3>2. [Ingested(g) EXCEPT !.ambiguous = @ \cup taken[g]] \in History
      BY <3>1
    <3>3. hist' \in History BY <2>4, <3>2 DEF PostFails
    <3> QED BY <2>4, <3>3 DEF PostFails
  <2>5. CASE RetryLoad(g) BY <2>5 DEF RetryLoad
  <2>6. CASE RetryStore(g) BY <2>6 DEF RetryStore
  <2>7. CASE RetryCheck(g) BY <2>7 DEF RetryCheck
  <2>8. CASE RetryAppend(g) BY <2>8 DEF RetryAppend, BatchWithRetried
  <2>9. CASE ResetRetryCount(g) BY <2>9 DEF ResetRetryCount, ResetValue
  <2> QED BY <1>3, <2>1, <2>2, <2>3, <2>4, <2>5, <2>6, <2>7, <2>8, <2>9 DEF Flush
<1>4. CASE Tick BY <1>4 DEF Tick
<1>5. CASE FlushLoopTick BY <1>5 DEF FlushLoopTick
<1>6. CASE FlushLoopStops BY <1>6 DEF FlushLoopStops
<1>7. CASE StopBegin BY <1>7 DEF StopBegin
<1>8. CASE StopTimer BY <1>8 DEF StopTimer
<1>9. CASE Exit BY <1>9 DEF Exit
<1>10. CASE UNCHANGED vars BY <1>10 DEF vars
<1> QED BY <1>1, <1>2, <1>3, <1>4, <1>5, <1>6, <1>7, <1>8, <1>9, <1>10
        DEF Next, Step, Terminated

\* A new client has the types of its state.
LEMMA InitTypeOK == Init => TypeOK
<1> SUFFICES ASSUME Init PROVE TypeOK OBVIOUS
<1> USE EdgeAssumption DEF Init
<1>1. hist \in History BY DEF History
<1>2. pc \in [Goroutines -> Labels] BY DEF Labels
<1>3. taken \in [Goroutines -> SUBSET Events] OBVIOUS
<1>4. count \in [Goroutines -> 0..MaxRetries + 1] OBVIOUS
<1> QED BY <1>1, <1>2, <1>3, <1>4 DEF TypeOK

\* The type invariant of EdgeClient holds in every reachable state.
THEOREM TypeCorrect == Spec => []TypeOK
<1>1. Init => TypeOK
  BY InitTypeOK
<1>2. TypeOK /\ [Next]_vars => TypeOK'
  BY TypeStep
<1> QED BY <1>1, <1>2, PTL DEF Spec

-------------------------------------------------------------------------------
(* Conservation *)

\* A goroutine holds events only between taking the batch and giving them back
\* or settling them, so that the next batch it takes overwrites none.
HeldInFlush == \A g \in Goroutines :
  taken[g] # {} => pc[g] \in {"post", "load", "store", "check", "sleep"}

Conserved == TypeOK /\ NoEventLost /\ OnePlace /\ HeldInFlush

\* Every step of the client, races and retries included, keeps each event in
\* exactly one place.
LEMMA ConservedStep == ASSUME Conserved, [Next]_vars PROVE Conserved'
<1>0. TypeOK /\ TypeOK' BY TypeStep DEF Conserved
<1> USE DEF Conserved, NoEventLost, OnePlace, HeldInFlush, Held, Settled
<1> USE <1>0, EdgeAssumption DEF TypeOK, History, GoTo, Take, Return, Inc, Ingested
<1>1. ASSUME NEW g \in Collectors, NEW e \in Events, WriteEvent(g, e) PROVE Conserved'
  BY <1>1 DEF WriteEvent, Enqueue
<1>2. ASSUME NEW g \in Collectors, NEW S \in SUBSET Events, WriteBatch(g, S) PROVE Conserved'
  BY <1>2 DEF WriteBatch, Enqueue
<1>3. ASSUME NEW g \in Goroutines, Flush(g) PROVE Conserved'
  <2>1. CASE TakeBatch(g)
    <3>1. CASE batch = {} BY <2>1, <3>1 DEF TakeBatch
    <3>2. CASE batch # {}
      <4>1. taken[g] = {} BY <2>1 DEF TakeBatch
      <4> QED BY <2>1, <3>2, <4>1 DEF TakeBatch, FreshBatch
    <3> QED BY <3>1, <3>2
  <2>2. CASE MarshalFails(g) BY <2>2 DEF MarshalFails
  <2>3. CASE PostAccepted(g) BY <2>3 DEF PostAccepted
  <2>4. CASE PostFails(g)
    <3>1. CASE hist' = hist BY <2>4, <3>1 DEF PostFails
    <3>2. CASE hist' = [Ingested(g) EXCEPT !.ambiguous = @ \cup taken[g]]
      BY <2>4, <3>2 DEF PostFails
    <3> QED BY <2>4, <3>1, <3>2 DEF PostFails
  <2>5. CASE RetryLoad(g) BY <2>5 DEF RetryLoad
  <2>6. CASE RetryStore(g) BY <2>6 DEF RetryStore
  <2>7. CASE RetryCheck(g)
    <3>1. CASE /\ hist' = [hist EXCEPT !.dropped = @ \cup taken[g]]
               /\ taken' = [taken EXCEPT ![g] = {}]
      BY <2>7, <3>1 DEF RetryCheck
    <3>2. CASE UNCHANGED <<hist, taken>> BY <2>7, <3>2 DEF RetryCheck
    <3> QED BY <2>7, <3>1, <3>2 DEF RetryCheck
  <2>8. CASE RetryAppend(g) BY <2>8 DEF RetryAppend, BatchWithRetried
  <2>9. CASE ResetRetryCount(g) BY <2>9 DEF ResetRetryCount, ResetValue
  <2> QED BY <1>3, <2>1, <2>2, <2>3, <2>4, <2>5, <2>6, <2>7, <2>8, <2>9 DEF Flush
<1>4. CASE Tick BY <1>4 DEF Tick
<1>5. CASE FlushLoopTick BY <1>5 DEF FlushLoopTick
<1>6. CASE FlushLoopStops BY <1>6 DEF FlushLoopStops
<1>7. CASE StopBegin BY <1>7 DEF StopBegin
<1>8. CASE StopTimer BY <1>8 DEF StopTimer
<1>9. CASE Exit BY <1>9 DEF Exit
<1>10. CASE UNCHANGED vars BY <1>10 DEF vars
<1> QED BY <1>1, <1>2, <1>3, <1>4, <1>5, <1>6, <1>7, <1>8, <1>9, <1>10
        DEF Next, Step, Terminated

\* A new client holds no events.
LEMMA InitConserved == Init => Conserved
<1> SUFFICES ASSUME Init PROVE Conserved OBVIOUS
<1>1. TypeOK BY InitTypeOK
<1> QED BY <1>1 DEF Init, Conserved, NoEventLost, OnePlace, HeldInFlush, Held, Settled

\* In every reachable state an event handed to the client is in the batch, in
\* one goroutine's Flush, acknowledged, dropped by retry or refused by
\* json.Marshal, and in only one of these.
THEOREM Conservation == Spec => []EachEventOnce
<1>1. Init => Conserved
  BY InitConserved
<1>2. Conserved /\ [Next]_vars => Conserved'
  BY ConservedStep
<1>3. Conserved => EachEventOnce
  BY DEF Conserved, EachEventOnce
<1> QED BY <1>1, <1>2, <1>3, PTL DEF Spec

-------------------------------------------------------------------------------
(* The retry counter and the server *)

\* retryCount, and what a goroutine is about to store into it, is at most the
\* number of calls of retry; what the server has was acknowledged or is ambiguous.
Counted ==
  /\ retryCount <= hist.failures
  /\ \A g \in Goroutines : pc[g] \in {"store", "check"} => count[g] <= hist.failures
  /\ DropNeedsFailures
  /\ hist.ingested \subseteq hist.acked \cup hist.ambiguous
  /\ DuplicateNeedsLostAnswer

\* Every step keeps Counted, in whatever order the unprotected loads and stores
\* of retryCount come.
LEMMA CountedStep == ASSUME Conserved, Counted, [Next]_vars PROVE Counted'
<1>0. TypeOK /\ TypeOK' BY TypeStep DEF Conserved
<1> USE DEF Counted, DropNeedsFailures, DuplicateNeedsLostAnswer
<1> USE <1>0, EdgeAssumption DEF TypeOK, History, GoTo, Take, Return, Inc, Ingested
<1>1. ASSUME NEW g \in Collectors, NEW e \in Events, WriteEvent(g, e) PROVE Counted'
  BY <1>1 DEF WriteEvent, Enqueue
<1>2. ASSUME NEW g \in Collectors, NEW S \in SUBSET Events, WriteBatch(g, S) PROVE Counted'
  BY <1>2 DEF WriteBatch, Enqueue
<1>3. ASSUME NEW g \in Goroutines, Flush(g) PROVE Counted'
  <2>0. taken[g] \cap hist.acked = {} BY DEF Conserved, OnePlace, Held, Settled
  <2>1. CASE TakeBatch(g) BY <2>1 DEF TakeBatch
  <2>2. CASE MarshalFails(g) BY <2>2 DEF MarshalFails
  <2>3. CASE PostAccepted(g) BY <2>0, <2>3 DEF PostAccepted
  <2>4. CASE PostFails(g)
    <3>1. CASE hist' = hist BY <2>4, <3>1 DEF PostFails
    <3>2. CASE hist' = [Ingested(g) EXCEPT !.ambiguous = @ \cup taken[g]]
      BY <2>0, <2>4, <3>2 DEF PostFails
    <3> QED BY <2>4, <3>1, <3>2 DEF PostFails
  <2>5. CASE RetryLoad(g) BY <2>5 DEF RetryLoad
  <2>6. CASE RetryStore(g) BY <2>6 DEF RetryStore
  <2>7. CASE RetryCheck(g) BY <2>7 DEF RetryCheck, TooMany
  <2>8. CASE RetryAppend(g) BY <2>8 DEF RetryAppend
  <2>9. CASE ResetRetryCount(g) BY <2>9 DEF ResetRetryCount, ResetValue
  <2> QED BY <1>3, <2>1, <2>2, <2>3, <2>4, <2>5, <2>6, <2>7, <2>8, <2>9 DEF Flush
<1>4. CASE Tick BY <1>4 DEF Tick
<1>5. CASE FlushLoopTick BY <1>5 DEF FlushLoopTick
<1>6. CASE FlushLoopStops BY <1>6 DEF FlushLoopStops
<1>7. CASE StopBegin BY <1>7 DEF StopBegin
<1>8. CASE StopTimer BY <1>8 DEF StopTimer
<1>9. CASE Exit BY <1>9 DEF Exit
<1>10. CASE UNCHANGED vars BY <1>10 DEF vars
<1> QED BY <1>1, <1>2, <1>3, <1>4, <1>5, <1>6, <1>7, <1>8, <1>9, <1>10
        DEF Next, Step, Terminated

\* Conserved and Counted together are inductive.
LEMMA Inductive == Spec => [](Conserved /\ Counted)
<1>1. Init => Conserved /\ Counted
  BY InitConserved, EdgeAssumption
     DEF Init, Counted, DropNeedsFailures, DuplicateNeedsLostAnswer
<1>2. Conserved /\ Counted /\ [Next]_vars => Conserved' /\ Counted'
  BY ConservedStep, CountedStep
<1> QED BY <1>1, <1>2, PTL DEF Spec

\* retry drops events only after more than MaxRetries failed Posts, in spite of
\* the races on retryCount: DropNeedsFailures.
THEOREM DropsAreEarned == Spec => []DropNeedsFailures
<1>1. Counted => DropNeedsFailures BY DEF Counted
<1> QED BY <1>1, Inductive, PTL

\* The edge server takes an event in twice only after a Post of it whose answer
\* was lost: DuplicateNeedsLostAnswer.
THEOREM DuplicatesAreRetries == Spec => []DuplicateNeedsLostAnswer
<1>1. Counted => DuplicateNeedsLostAnswer BY DEF Counted
<1> QED BY <1>1, Inductive, PTL

-------------------------------------------------------------------------------
(* Refinement *)

\* Every step of the client is a step of EventSink or leaves the sink alone.
LEMMA SinkStep == ASSUME Conserved, Conserved', [Next]_vars PROVE [Sink!Next]_(Sink!vars)
<1>c. ASSUME NEW D \in SUBSET Events, NEW L \in SUBSET Events, Sink!Settle(D, L)
      PROVE Sink!Next
  BY <1>c DEF Sink!Next
<1> USE DEF Conserved, NoEventLost, OnePlace, HeldInFlush, Held, Settled
<1> USE EdgeAssumption DEF TypeOK, History, GoTo, Take, Return, Ingested
<1> DEFINE Pending == batch \cup Held
           Lost == hist.dropped \cup hist.malformed
<1>a. ASSUME NEW S \in SUBSET Events, Enqueue(S) PROVE Sink!Accept(S)
  BY <1>a DEF Enqueue, Sink!Accept
<1>b. ASSUME Pending' = Pending, hist'.acked = hist.acked, Lost' = Lost
      PROVE UNCHANGED Sink!vars
  BY <1>b DEF Sink!vars
<1>1. ASSUME NEW g \in Collectors, NEW e \in Events, WriteEvent(g, e)
      PROVE Sink!Next
  BY <1>1, <1>a DEF WriteEvent, Sink!Next
<1>2. ASSUME NEW g \in Collectors, NEW S \in SUBSET Events, WriteBatch(g, S)
      PROVE Sink!Next
  BY <1>2, <1>a DEF WriteBatch, Sink!Next
<1>3. ASSUME NEW g \in Goroutines, Flush(g) PROVE Sink!Next \/ UNCHANGED Sink!vars
  <2>0. PICK S \in SUBSET Events : S = taken[g] OBVIOUS
  <2>1. CASE TakeBatch(g)
    BY <1>b, <2>1 DEF TakeBatch, FreshBatch
  <2>2. CASE MarshalFails(g)
    <3>1. Sink!Settle({}, S) BY <2>0, <2>2 DEF MarshalFails, Sink!Settle
    <3> QED BY <1>c, <3>1
  <2>3. CASE PostAccepted(g)
    <3>1. Sink!Settle(S, {}) BY <2>0, <2>3 DEF PostAccepted, Sink!Settle
    <3> QED BY <1>c, <3>1
  <2>4. CASE PostFails(g)
    <3>1. CASE hist' = hist BY <1>b, <2>4, <3>1 DEF PostFails
    <3>2. CASE hist' = [Ingested(g) EXCEPT !.ambiguous = @ \cup taken[g]]
      BY <1>b, <2>4, <3>2 DEF PostFails
    <3> QED BY <2>4, <3>1, <3>2 DEF PostFails
  <2>5. CASE RetryLoad(g) BY <1>b, <2>5 DEF RetryLoad
  <2>6. CASE RetryStore(g) BY <1>b, <2>6 DEF RetryStore
  <2>7. CASE RetryCheck(g)
    <3>1. CASE /\ hist' = [hist EXCEPT !.dropped = @ \cup taken[g]]
               /\ taken' = [taken EXCEPT ![g] = {}]
      <4>1. Sink!Settle({}, S) BY <2>0, <2>7, <3>1 DEF RetryCheck, Sink!Settle
      <4> QED BY <1>c, <4>1
    <3>2. CASE UNCHANGED <<hist, taken>> BY <1>b, <2>7, <3>2 DEF RetryCheck
    <3> QED BY <2>7, <3>1, <3>2 DEF RetryCheck
  <2>8. CASE RetryAppend(g) BY <1>b, <2>8 DEF RetryAppend, BatchWithRetried
  <2>9. CASE ResetRetryCount(g) BY <1>b, <2>9 DEF ResetRetryCount
  <2> QED BY <1>3, <2>1, <2>2, <2>3, <2>4, <2>5, <2>6, <2>7, <2>8, <2>9 DEF Flush
<1>4. CASE UNCHANGED <<batch, taken, hist>> BY <1>4, <1>b
<1>5. Tick \/ FlushLoopTick \/ FlushLoopStops \/ StopBegin \/ StopTimer \/ Exit
      \/ UNCHANGED vars => UNCHANGED <<batch, taken, hist>>
  BY DEF Tick, FlushLoopTick, FlushLoopStops, StopBegin, StopTimer, Exit, vars
<1> QED BY <1>1, <1>2, <1>3, <1>4, <1>5 DEF Next, Step, Terminated

\* EdgeClient implements EventSink: ImplementsSink.
THEOREM Refinement == Spec => ImplementsSink
<1>1. Init => Sink!Init
  BY DEF Init, Held, Sink!Init
<1>2. Conserved /\ Conserved' /\ [Next]_vars => [Sink!Next]_(Sink!vars)
  BY SinkStep
<1>3. Spec => []Conserved
  BY Inductive, PTL
<1> QED BY <1>1, <1>2, <1>3, PTL DEF Spec, ImplementsSink, Sink!Spec
===============================================================================
