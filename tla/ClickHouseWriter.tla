--------------------------- MODULE ClickHouseWriter ---------------------------
(***************************************************************************)
(* The ClickHouse writer, internal/output/clickhouse.go.  It batches like  *)
(* EdgeClient but has no retry: a batch whose transaction fails is gone,   *)
(* and WriteEvent and WriteBatch still return nil.  The typed Write        *)
(* methods insert one row directly.  database/sql is external: an          *)
(* operation may fail at any time, and a closed DB refuses new work while  *)
(* a transaction already begun may still commit.                           *)
(***************************************************************************)
EXTENDS Naturals, FiniteSets

CONSTANTS Collectors, FlushLoop, Closer,  \* the goroutines, as in EdgeClient
          Events, BatchSize

ASSUME ClickHouseAssumption ==
  /\ FlushLoop # Closer /\ {FlushLoop, Closer} \cap Collectors = {}
  /\ BatchSize \in Nat \ {0}

VARIABLES batch,     \* w.batch
          stopped,   \* w.stopCh is closed
          dbClosed,  \* w.db has been closed
          pc,        \* where each goroutine is
          taken,     \* the local events of each goroutine's Flush
          rows,      \* those of them whose Exec succeeded
          hist       \* what has happened so far; no code reads it

vars == <<batch, stopped, dbClosed, pc, taken, rows, hist>>

Goroutines == Collectors \cup {FlushLoop, Closer}

Labels == {"idle", "flush", "begin", "prepare", "exec", "commit", "row",
           "closing", "closed", "exited"}

\* written, stored, lost: as the names say; atClose: in the batch when Close
\* began.
History == [written: SUBSET Events, stored: SUBSET Events, lost: SUBSET Events,
            atClose: SUBSET Events]

Init ==
  /\ batch = {} /\ stopped = FALSE /\ dbClosed = FALSE
  /\ pc = [g \in Goroutines |-> "idle"]
  /\ taken = [g \in Goroutines |-> {}] /\ rows = [g \in Goroutines |-> {}]
  /\ hist = [written |-> {}, stored |-> {}, lost |-> {}, atClose |-> {}]

-------------------------------------------------------------------------------
GoTo(g, label) == pc' = [pc EXCEPT ![g] = label]

\* Flush returns; main goes on to db.Close.
Return(g) == GoTo(g, IF g = Closer THEN "closing" ELSE "idle")

\* The events S are handed to the writer.
Handed(S) == [hist EXCEPT !.written = @ \cup S]

WriteEvent(g, e) ==
  /\ pc[g] = "idle" /\ e \notin hist.written
  /\ batch' = batch \cup {e}
  /\ hist' = Handed({e})
  /\ GoTo(g, IF Cardinality(batch') >= BatchSize THEN "flush" ELSE "idle")
  /\ UNCHANGED <<stopped, dbClosed, taken, rows>>

WriteBatch(g, S) ==
  /\ pc[g] = "idle" /\ S \cap hist.written = {}
  /\ batch' = batch \cup S
  /\ hist' = Handed(S)
  /\ GoTo(g, "flush")
  /\ UNCHANGED <<stopped, dbClosed, taken, rows>>

\* WriteMetrics, WriteProcessEvent, WriteFileEvent and WriteSyscallEvent.
WriteRow(g, e) ==
  /\ pc[g] = "idle" /\ e \notin hist.written
  /\ hist' = Handed({e})
  /\ taken' = [taken EXCEPT ![g] = {e}]
  /\ GoTo(g, "row")
  /\ UNCHANGED <<batch, stopped, dbClosed, rows>>

-------------------------------------------------------------------------------
(* Flush *)

BatchKept == batch  \* mutant: Flush does not replace the batch it copies

FreshBatch == {}

TakeBatch(g) ==
  /\ pc[g] = "flush"
  /\ \/ batch = {} /\ Return(g) /\ UNCHANGED <<batch, taken>>
     \/ /\ batch # {} /\ batch' = FreshBatch /\ GoTo(g, "begin")
        /\ taken' = [taken EXCEPT ![g] = batch]
  /\ UNCHANGED <<stopped, dbClosed, rows, hist>>

\* Flush ends having stored S; the rest of its batch is lost.
Settle(g, S) ==
  /\ hist' = [hist EXCEPT !.stored = @ \cup S, !.lost = @ \cup (taken[g] \ S)]
  /\ taken' = [taken EXCEPT ![g] = {}] /\ rows' = [rows EXCEPT ![g] = {}]
  /\ Return(g)

GiveUp(g) == Settle(g, {})

Begin(g) ==
  /\ pc[g] = "begin"
  /\ \/ ~dbClosed /\ GoTo(g, "prepare") /\ UNCHANGED <<taken, rows, hist>>
     \/ GiveUp(g)
  /\ UNCHANGED <<batch, stopped, dbClosed>>

\* db.Exec of one row: it needs a connection like Begin and ends like Commit.
InsertRow(g) ==
  /\ pc[g] = "row"
  /\ \/ ~dbClosed /\ GoTo(g, "commit") /\ rows' = [rows EXCEPT ![g] = taken[g]]
        /\ UNCHANGED <<taken, hist>>
     \/ GiveUp(g)
  /\ UNCHANGED <<batch, stopped, dbClosed>>

\* A failed Prepare rolls the transaction back.
Prepare(g) ==
  /\ pc[g] = "prepare"
  /\ (GoTo(g, "exec") /\ UNCHANGED <<taken, rows, hist>>) \/ GiveUp(g)
  /\ UNCHANGED <<batch, stopped, dbClosed>>

LoopsOverField(g) == batch  \* mutant: range w.batch for range batch

Looped(g) == taken[g]

\* The loop over the events; a row that fails is logged and left out.
ExecRows(g) ==
  /\ pc[g] = "exec"
  /\ \E S \in SUBSET Looped(g) : rows' = [rows EXCEPT ![g] = S]
  /\ GoTo(g, "commit")
  /\ UNCHANGED <<batch, stopped, dbClosed, taken, hist>>

Commit(g) ==
  /\ pc[g] = "commit"
  /\ Settle(g, rows[g]) \/ GiveUp(g)
  /\ UNCHANGED <<batch, stopped, dbClosed>>

Flush(g) == TakeBatch(g) \/ Begin(g) \/ Prepare(g) \/ ExecRows(g) \/ Commit(g)

-------------------------------------------------------------------------------
(* flushLoop, Close and the end of the process *)

FlushLoopOnce ==  \* mutant: the loop ends with its first tick
  /\ pc[FlushLoop] = "idle" /\ GoTo(FlushLoop, "exited")
  /\ UNCHANGED <<batch, stopped, dbClosed, taken, rows, hist>>

\* A tick; flushCh, which the loop also waits for, is never sent to.
FlushLoopTick ==
  /\ pc[FlushLoop] = "idle" /\ GoTo(FlushLoop, "flush")
  /\ UNCHANGED <<batch, stopped, dbClosed, taken, rows, hist>>

FlushLoopStops ==
  /\ pc[FlushLoop] = "idle" /\ stopped /\ GoTo(FlushLoop, "exited")
  /\ UNCHANGED <<batch, stopped, dbClosed, taken, rows, hist>>

StopWithoutFlush == "closing"  \* mutant: Stop only closes the channel

AfterStopCh == "flush"

Stop ==
  /\ pc[Closer] = "idle"
  /\ stopped' = TRUE /\ GoTo(Closer, AfterStopCh)
  /\ hist' = [hist EXCEPT !.atClose = batch]
  /\ UNCHANGED <<batch, dbClosed, taken, rows>>

CloseDB ==
  /\ pc[Closer] = "closing" /\ GoTo(Closer, "closed")
  /\ dbClosed' = TRUE
  /\ UNCHANGED <<batch, stopped, taken, rows, hist>>

\* main returns and the process ends, whatever the other goroutines do.
Exit ==
  /\ pc[Closer] = "closed" /\ GoTo(Closer, "exited")
  /\ UNCHANGED <<batch, stopped, dbClosed, taken, rows, hist>>

Exited == pc[Closer] = "exited"

Terminated == Exited /\ UNCHANGED vars

Step ==
  \/ \E g \in Collectors, e \in Events : WriteEvent(g, e) \/ WriteRow(g, e)
  \/ \E g \in Collectors, S \in SUBSET Events : WriteBatch(g, S)
  \/ \E g \in Goroutines : Flush(g) \/ InsertRow(g)
  \/ FlushLoopTick \/ FlushLoopStops \/ Stop \/ CloseDB \/ Exit

Next == (~Exited /\ Step) \/ Terminated

Spec == Init /\ [][Next]_vars

\* Every goroutine keeps running; select does not ignore a closed stopCh for ever.
LiveSpec ==
  /\ Spec
  /\ WF_vars(~Exited /\ FlushLoopTick) /\ SF_vars(~Exited /\ FlushLoopStops)
  /\ WF_vars(~Exited /\ (CloseDB \/ Exit))
  /\ \A g \in Goroutines : WF_vars(~Exited /\ (Flush(g) \/ InsertRow(g)))

-------------------------------------------------------------------------------
(* Properties *)

\* The writer's state has its types, and a transaction holds rows of its own
\* batch only.
TypeOK ==
  /\ batch \in SUBSET Events /\ stopped \in BOOLEAN /\ dbClosed \in BOOLEAN
  /\ pc \in [Goroutines -> Labels]
  /\ taken \in [Goroutines -> SUBSET Events]
  /\ rows \in [Goroutines -> SUBSET Events]
  /\ \A g \in Goroutines : rows[g] \subseteq taken[g]
  /\ hist \in History

Held == {e \in Events : \E g \in Goroutines : e \in taken[g]}

\* Each event handed to the writer is in the batch, in one goroutine's Flush,
\* stored or lost, and only one of these: a failed transaction loses exactly
\* its own batch, and no event is inserted by two Flushes.
EachEventOnce ==
  /\ hist.written = batch \cup Held \cup hist.stored \cup hist.lost
  /\ batch \cap Held = {} /\ hist.stored \cap hist.lost = {}
  /\ (batch \cup Held) \cap (hist.stored \cup hist.lost) = {}
  /\ \A g, h \in Goroutines : g # h => taken[g] \cap taken[h] = {}

\* Close flushes before it closes the DB: what was in the batch when Close began
\* is in no batch any more when the process ends.
CloseEmptiesBatch == Exited => hist.atClose \cap batch = {}

\* The writer is a sink that settles every event it accepts at most once.
Sink == INSTANCE EventSink WITH pending <- batch \cup Held,
                                delivered <- hist.stored, lost <- hist.lost

\* ClickHouseWriter implements EventSink: no Flush brings a settled event back.
ImplementsSink == Sink!Spec

\* Until it is closed, flushLoop gets every event stored or lost.
EventuallySettled ==
  \A e \in Events :
    (e \in hist.written) ~> (e \in hist.stored \cup hist.lost \/ stopped)
===============================================================================
