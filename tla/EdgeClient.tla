------------------------------ MODULE EdgeClient ------------------------------
(***************************************************************************)
(* The Edge reporting client, internal/output/edge.go.  The collectors     *)
(* call WriteEvent and WriteBatch, flushLoop calls Flush on every tick, and *)
(* main calls Close once.  The mutex mu protects batch only; retryCount is *)
(* read and written without it, so each access is a step of its own.       *)
(* A batch is the set of its events: no code here looks at their order.    *)
(* A goroutine sleeping in retry is at "sleep" (its length: EdgeBackoff).  *)
(***************************************************************************)
EXTENDS Naturals, FiniteSets

CONSTANTS Collectors,  \* goroutines that call the Write methods
          FlushLoop,   \* the goroutine of flushLoop
          Closer,      \* the main goroutine, which calls Close
          Events,      \* the events handed to the client
          BadEvents,   \* those json.Marshal refuses (a NaN or Inf LatencyMs)
          BatchSize,   \* 2000 in NewEdgeClient
          MaxRetries   \* 100 in retry

ASSUME EdgeAssumption ==
  /\ FlushLoop # Closer /\ {FlushLoop, Closer} \cap Collectors = {}
  /\ BadEvents \subseteq Events
  /\ BatchSize \in Nat \ {0} /\ MaxRetries \in Nat \ {0}

VARIABLES batch,       \* e.batch
          retryCount,  \* e.retryCount, MaxRetries + 1 standing for all above
          stopped,     \* e.stopCh is closed
          tick,        \* e.flushTimer.C holds a tick
          pc,          \* where each goroutine is
          taken,       \* the local events of each goroutine's Flush
          count,       \* the value of retryCount a goroutine has computed
          hist         \* what has happened so far; no code reads it

vars == <<batch, retryCount, stopped, tick, pc, taken, count, hist>>

Goroutines == Collectors \cup {FlushLoop, Closer}

Labels == {"idle", "flush", "post", "load", "store", "check", "sleep", "reset",
           "closing", "closed", "exited"}

\* written: handed to a Write method; acked: in a Post answered 200; dropped:
\* given up by retry; malformed: in a batch json.Marshal refused; failures: the
\* calls of retry, MaxRetries + 1 standing for all above; ingested, duplicated:
\* taken in by the server once, again; ambiguous: taken in by the server in a
\* Post that failed.
History == [written: SUBSET Events, acked: SUBSET Events, dropped: SUBSET Events,
            malformed: SUBSET Events,
            ingested: SUBSET Events, duplicated: SUBSET Events,
            ambiguous: SUBSET Events, failures: 0..MaxRetries + 1]

Init ==
  /\ batch = {} /\ retryCount = 0 /\ stopped = FALSE /\ tick = FALSE
  /\ pc = [g \in Goroutines |-> "idle"]
  /\ taken = [g \in Goroutines |-> {}]
  /\ count = [g \in Goroutines |-> 0]
  /\ hist = [written |-> {}, acked |-> {}, dropped |-> {}, malformed |-> {},
             ingested |-> {}, duplicated |-> {},
             ambiguous |-> {}, failures |-> 0]

-------------------------------------------------------------------------------
GoTo(g, label) == pc' = [pc EXCEPT ![g] = label]

Take(g, S) == taken' = [taken EXCEPT ![g] = S]

\* n + 1, with one value for all the test in retry calls too large.
Inc(n) == IF n > MaxRetries THEN n ELSE n + 1

\* Flush returns to its caller; for main that is the end of Close.
Return(g) == GoTo(g, IF g = Closer THEN "closed" ELSE "idle")

\* hist after the server has taken in the events of g's request.
Ingested(g) == [hist EXCEPT !.ingested = @ \cup taken[g],
                            !.duplicated = @ \cup (hist.ingested \cap taken[g])]

-------------------------------------------------------------------------------
(* The Write methods, called by a collector *)

Enqueue(S) ==
  /\ S \cap hist.written = {}
  /\ batch' = batch \cup S
  /\ hist' = [hist EXCEPT !.written = @ \cup S]
  /\ UNCHANGED <<retryCount, stopped, tick, taken, count>>

WriteEvent(g, e) ==
  /\ pc[g] = "idle"
  /\ Enqueue({e})
  /\ GoTo(g, IF Cardinality(batch') >= BatchSize THEN "flush" ELSE "idle")

WriteBatch(g, S) ==
  /\ pc[g] = "idle"
  /\ Enqueue(S)
  /\ GoTo(g, "flush")

-------------------------------------------------------------------------------
(* Flush and retry, run by the goroutine that called Flush *)

BatchKept == batch  \* mutant: Flush does not replace the batch it copies

FreshBatch == {}

TakeBatch(g) ==
  /\ pc[g] = "flush"
  /\ \/ batch = {} /\ Return(g) /\ UNCHANGED <<batch, taken>>
     \/ batch # {} /\ GoTo(g, "post") /\ Take(g, batch) /\ batch' = FreshBatch
  /\ UNCHANGED <<retryCount, stopped, tick, count, hist>>

MarshalFails(g) ==
  /\ pc[g] = "post" /\ taken[g] \cap BadEvents # {}
  /\ hist' = [hist EXCEPT !.malformed = @ \cup taken[g]]
  /\ Take(g, {}) /\ Return(g)
  /\ UNCHANGED <<batch, retryCount, stopped, tick, count>>

PostAccepted(g) ==
  /\ pc[g] = "post" /\ taken[g] \cap BadEvents = {}
  /\ hist' = [Ingested(g) EXCEPT !.acked = @ \cup taken[g]]
  /\ Take(g, {}) /\ GoTo(g, "reset")
  /\ UNCHANGED <<batch, retryCount, stopped, tick, count>>

\* The Post fails or is answered with another status.  A Post whose answer was
\* lost or late may have been taken in all the same.
PostFails(g) ==
  /\ pc[g] = "post" /\ taken[g] \cap BadEvents = {}
  /\ hist' \in {hist, [Ingested(g) EXCEPT !.ambiguous = @ \cup taken[g]]}
  /\ GoTo(g, "load")
  /\ UNCHANGED <<batch, retryCount, stopped, tick, taken, count>>

\* e.retryCount++ is a load and a store.
RetryLoad(g) ==
  /\ pc[g] = "load"
  /\ count' = [count EXCEPT ![g] = Inc(retryCount)]
  /\ hist' = [hist EXCEPT !.failures = Inc(@)]
  /\ GoTo(g, "store")
  /\ UNCHANGED <<batch, retryCount, stopped, tick, taken>>

RetryStore(g) ==
  /\ pc[g] = "store"
  /\ retryCount' = count[g]
  /\ GoTo(g, "check")
  /\ UNCHANGED <<batch, stopped, tick, taken, count, hist>>

TooManyOneEarly(c) == c >= MaxRetries  \* mutant: >= for >

TooMany(c) == c > MaxRetries

\* The test reads retryCount again, or the value still in a register.
RetryCheck(g) ==
  /\ pc[g] = "check"
  /\ \E c \in {count[g], retryCount} :
       \/ /\ TooMany(c)
          /\ hist' = [hist EXCEPT !.dropped = @ \cup taken[g]]
          /\ Take(g, {}) /\ GoTo(g, "reset")
       \/ ~TooMany(c) /\ GoTo(g, "sleep") /\ UNCHANGED <<hist, taken>>
  /\ count' = [count EXCEPT ![g] = 0]
  /\ UNCHANGED <<batch, retryCount, stopped, tick>>

BatchOverwritten(g) == taken[g]  \* mutant: e.batch = events

BatchWithRetried(g) == batch \cup taken[g]

RetryAppend(g) ==
  /\ pc[g] = "sleep"
  /\ batch' = BatchWithRetried(g)
  /\ Take(g, {}) /\ Return(g)
  /\ UNCHANGED <<retryCount, stopped, tick, count, hist>>

ResetValue == 0

\* e.retryCount = 0, after a success and after a drop.
ResetRetryCount(g) ==
  /\ pc[g] = "reset"
  /\ retryCount' = ResetValue
  /\ Return(g)
  /\ UNCHANGED <<batch, stopped, tick, taken, count, hist>>

Flush(g) ==
  \/ TakeBatch(g) \/ MarshalFails(g) \/ PostAccepted(g) \/ PostFails(g)
  \/ RetryLoad(g) \/ RetryStore(g) \/ RetryCheck(g) \/ RetryAppend(g)
  \/ ResetRetryCount(g)

-------------------------------------------------------------------------------
(* flushLoop, Close and the end of the process *)

\* The ticker runs until Stop has stopped it; its channel holds one tick.
Tick ==
  /\ pc[Closer] \in {"idle", "closing"}
  /\ tick' = TRUE
  /\ UNCHANGED <<batch, retryCount, stopped, pc, taken, count, hist>>

FlushLoopOnce ==  \* mutant: the loop ends with its first tick
  /\ pc[FlushLoop] = "idle" /\ tick
  /\ tick' = FALSE /\ GoTo(FlushLoop, "exited")
  /\ UNCHANGED <<batch, retryCount, stopped, taken, count, hist>>

\* With both channels ready, select takes either.
FlushLoopTick ==
  /\ pc[FlushLoop] = "idle" /\ tick
  /\ tick' = FALSE /\ GoTo(FlushLoop, "flush")
  /\ UNCHANGED <<batch, retryCount, stopped, taken, count, hist>>

FlushLoopStops ==
  /\ pc[FlushLoop] = "idle" /\ stopped
  /\ GoTo(FlushLoop, "exited")
  /\ UNCHANGED <<batch, retryCount, stopped, tick, taken, count, hist>>

StopBegin ==
  /\ pc[Closer] = "idle"
  /\ stopped' = TRUE /\ GoTo(Closer, "closing")
  /\ UNCHANGED <<batch, retryCount, tick, taken, count, hist>>

StopTimerDrains ==  \* mutant: Stop also receives from flushTimer.C
  /\ pc[Closer] = "closing" /\ tick
  /\ tick' = FALSE /\ GoTo(Closer, "flush")
  /\ UNCHANGED <<batch, retryCount, stopped, taken, count, hist>>

\* Ticker.Stop; whether a tick already in the channel survives depends on the
\* version of Go.
StopTimer ==
  /\ pc[Closer] = "closing"
  /\ tick' \in {tick, FALSE} /\ GoTo(Closer, "flush")
  /\ UNCHANGED <<batch, retryCount, stopped, taken, count, hist>>

\* main returns after Close and the process ends, whatever the others do.
Exit ==
  /\ pc[Closer] = "closed"
  /\ GoTo(Closer, "exited")
  /\ UNCHANGED <<batch, retryCount, stopped, tick, taken, count, hist>>

Exited == pc[Closer] = "exited"

Terminated == Exited /\ UNCHANGED vars

Step ==
  \/ \E g \in Collectors, e \in Events : WriteEvent(g, e)
  \/ \E g \in Collectors, S \in SUBSET Events : WriteBatch(g, S)
  \/ \E g \in Goroutines : Flush(g)
  \/ Tick \/ FlushLoopTick \/ FlushLoopStops
  \/ StopBegin \/ StopTimer \/ Exit

Next == (~Exited /\ Step) \/ Terminated

Spec == Init /\ [][Next]_vars

\* Every goroutine keeps running and the ticker ticks; nothing makes main close
\* the client.
FairSpec ==
  /\ Spec
  /\ WF_vars(~Exited /\ Tick)
  /\ WF_vars(~Exited /\ (StopTimer \/ Exit))
  /\ WF_vars(~Exited /\ (FlushLoopTick \/ FlushLoopStops))
  /\ \A g \in Goroutines : WF_vars(~Exited /\ Flush(g))

\* The edge server answers 200 again and again.
ServerAnswers == \A g \in Goroutines : SF_vars(~Exited /\ PostAccepted(g))

-------------------------------------------------------------------------------
(* Properties *)

\* The client's state has its types: every goroutine is at a label of Flush,
\* flushLoop or Close, and retryCount stays in its range whatever the races.
TypeOK ==
  /\ batch \in SUBSET Events
  /\ retryCount \in 0..MaxRetries + 1
  /\ stopped \in BOOLEAN /\ tick \in BOOLEAN
  /\ pc \in [Goroutines -> Labels]
  /\ taken \in [Goroutines -> SUBSET Events]
  /\ count \in [Goroutines -> 0..MaxRetries + 1]
  /\ hist \in History

Held == {e \in Events : \E g \in Goroutines : e \in taken[g]}

Settled == hist.acked \cup hist.dropped \cup hist.malformed

NoEventLost == hist.written = batch \cup Held \cup Settled

OnePlace ==
  /\ batch \cap Held = {}
  /\ \A g, h \in Goroutines : g # h => taken[g] \cap taken[h] = {}
  /\ (batch \cup Held) \cap Settled = {}
  /\ hist.acked \cap (hist.dropped \cup hist.malformed) = {}
  /\ hist.dropped \cap hist.malformed = {}

\* WriteEvent, Flush and retry lose no event and put none in two places: what was
\* handed to the client is in the batch, in one goroutine's Flush, acknowledged, or was
\* given up by the drop in retry or by a failed json.Marshal, and only one of these, so
\* that it is not sent again after a 200.
EachEventOnce == NoEventLost /\ OnePlace

\* Although retryCount is shared and unprotected, lost updates and late stores
\* never make it run ahead: events are given up only after more than MaxRetries
\* Posts have failed and called retry.
DropNeedsFailures == hist.dropped # {} => hist.failures > MaxRetries

\* The server sees an event twice only when an earlier Post of it was taken in
\* and failed all the same (a timeout after the server had read it).
DuplicateNeedsLostAnswer == hist.duplicated \subseteq hist.ambiguous

\* The client is a sink that settles every event it accepts at most once.
Sink == INSTANCE EventSink WITH pending <- batch \cup Held, delivered <- hist.acked,
                                lost <- hist.dropped \cup hist.malformed

\* EdgeClient implements EventSink: Flush, retry and Close never bring a settled
\* event back, and settle only events that were accepted.
ImplementsSink == Sink!Spec

\* While the client is not being closed, flushLoop gets every event settled,
\* provided the edge server answers 200 now and then.
EventuallySettled ==
  ServerAnswers => \A e \in Events : (e \in hist.written) ~> (e \in Settled \/ stopped)

\* Close returns and the process ends even if the server never answers 200:
\* Close makes one last attempt and does not wait for the other goroutines.
CloseReturns == stopped ~> Exited
===============================================================================
