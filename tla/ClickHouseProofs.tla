--------------------------- MODULE ClickHouseProofs ---------------------------
(* The ClickHouse writer keeps each event in one place and implements EventSink. *)
EXTENDS ClickHouseWriter, TLAPS

\* A goroutine holds events only inside Flush or the insertion of a row, so that the
\* next batch it takes overwrites none.
HeldInFlush == \A g \in Goroutines :
  taken[g] # {} => pc[g] \in {"begin", "prepare", "exec", "commit", "row"}

\* Once Close has taken the batch, what was in it at first is in no batch any more.
TakenAtClose ==
  /\ hist.atClose \subseteq hist.written
  /\ pc[Closer] \notin {"idle", "flush"} => hist.atClose \cap batch = {}

WriterInv == TypeOK /\ EachEventOnce /\ HeldInFlush /\ TakenAtClose

\* Settling a batch moves exactly its own events.
LEMMA SettleStep ==
  ASSUME WriterInv, NEW g \in Goroutines, NEW S \in SUBSET taken[g], Settle(g, S),
         pc[g] # "idle", pc[g] # "flush", UNCHANGED <<batch, stopped, dbClosed>>
  PROVE  WriterInv'
<1> USE ClickHouseAssumption DEF WriterInv, TypeOK, History, Labels, Goroutines
<1>1. /\ taken' = [taken EXCEPT ![g] = {}] /\ rows' = [rows EXCEPT ![g] = {}]
      /\ pc' = [pc EXCEPT ![g] = IF g = Closer THEN "closing" ELSE "idle"]
      /\ hist' = [hist EXCEPT !.stored = hist.stored \cup S, !.lost = hist.lost \cup (taken[g] \ S)]
  BY DEF Settle, Return, GoTo
<1>2. TypeOK' BY <1>1
<1>3. EachEventOnce' BY <1>1 DEF EachEventOnce, Held
<1>4. HeldInFlush' BY <1>1 DEF HeldInFlush
<1>5. TakenAtClose' BY <1>1 DEF TakenAtClose
<1> QED BY <1>2, <1>3, <1>4, <1>5

\* New events go to the batch, or to a goroutine that held none.
LEMMA HandedStep ==
  ASSUME WriterInv, NEW g \in Collectors, NEW S \in SUBSET Events, pc[g] = "idle",
         S \cap hist.written = {}, hist' = Handed(S),
         \/ batch' = batch \cup S /\ taken' = taken
         \/ batch' = batch /\ taken' = [taken EXCEPT ![g] = S],
         NEW at \in {"idle", "flush", "row"}, pc' = [pc EXCEPT ![g] = at],
         taken' # taken => at = "row", UNCHANGED <<stopped, dbClosed, rows>>
  PROVE  WriterInv'
<1> USE ClickHouseAssumption DEF WriterInv, TypeOK, History, Labels, Goroutines
<1>1. taken[g] = {} BY DEF HeldInFlush
<1>2. hist' = [hist EXCEPT !.written = hist.written \cup S] BY DEF Handed
<1>3. TypeOK' BY <1>1, <1>2
<1>4. EachEventOnce' BY <1>1, <1>2 DEF EachEventOnce, Held
<1>5. HeldInFlush' BY <1>1 DEF HeldInFlush
<1>6. TakenAtClose' BY <1>2 DEF TakenAtClose
<1> QED BY <1>3, <1>4, <1>5, <1>6

\* Every step keeps each event in exactly one place.
LEMMA WriterStep == ASSUME WriterInv, [Next]_vars PROVE WriterInv'
<1>1. ASSUME NEW g \in Collectors, NEW e \in Events, WriteEvent(g, e) PROVE WriterInv'
  <2>1. PICK at \in {"idle", "flush"} : pc' = [pc EXCEPT ![g] = at] BY <1>1 DEF WriteEvent, GoTo
  <2> QED BY <1>1, <2>1, HandedStep DEF WriteEvent
<1>2. ASSUME NEW g \in Collectors, NEW e \in Events, WriteRow(g, e) PROVE WriterInv'
  BY <1>2, HandedStep DEF WriteRow, GoTo
<1>3. ASSUME NEW g \in Collectors, NEW S \in SUBSET Events, WriteBatch(g, S) PROVE WriterInv'
  BY <1>3, HandedStep DEF WriteBatch, GoTo
<1>4. ASSUME NEW g \in Goroutines, Flush(g) \/ InsertRow(g) PROVE WriterInv'
  <2>1. CASE GiveUp(g) /\ pc[g] \notin {"idle", "flush"} /\ UNCHANGED <<batch, stopped, dbClosed>>
    BY <2>1, SettleStep DEF GiveUp
  <2>2. CASE Settle(g, rows[g]) /\ pc[g] = "commit" /\ UNCHANGED <<batch, stopped, dbClosed>>
    <3>1. rows[g] \in SUBSET taken[g] BY DEF WriterInv, TypeOK
    <3> QED BY <2>2, <3>1, SettleStep
  <2> USE ClickHouseAssumption
      DEF WriterInv, TypeOK, History, Labels, Goroutines, EachEventOnce, Held, HeldInFlush,
          TakenAtClose, GoTo, Return
  <2>3. CASE pc[g] = "flush" /\ TakeBatch(g)
    <3>1. CASE batch = {} BY <2>3, <3>1 DEF TakeBatch
    <3>2. CASE batch # {}
      <4>1. taken[g] = {} BY <2>3
      <4>2. /\ batch' = {} /\ pc' = [pc EXCEPT ![g] = "begin"] /\ taken' = [taken EXCEPT ![g] = batch]
            /\ UNCHANGED <<stopped, dbClosed, rows, hist>>
        BY <2>3, <3>2 DEF TakeBatch, FreshBatch
      <4> QED BY <4>1, <4>2
    <3> QED BY <3>1, <3>2
  <2>4. CASE pc[g] \in {"begin", "prepare"} /\ GoTo(g, IF pc[g] = "begin" THEN "prepare" ELSE "exec")
             /\ UNCHANGED <<batch, stopped, dbClosed, taken, rows, hist>>
    BY <2>4
  <2>5. ASSUME pc[g] \in {"exec", "row"}, NEW S \in SUBSET taken[g], rows' = [rows EXCEPT ![g] = S],
               GoTo(g, "commit"), UNCHANGED <<batch, stopped, dbClosed, taken, hist>>
        PROVE  WriterInv'
    BY <2>5
  <2>6. CASE ExecRows(g)
    <3>1. PICK S \in SUBSET taken[g] : rows' = [rows EXCEPT ![g] = S] BY <2>6 DEF ExecRows, Looped
    <3> HIDE DEF WriterInv, GoTo
    <3> QED BY <2>5, <2>6, <3>1 DEF ExecRows
  <2> HIDE DEF WriterInv, GoTo
  <2> QED BY <1>4, <2>1, <2>2, <2>3, <2>4, <2>5, <2>6
          DEF Flush, InsertRow, TakeBatch, Begin, Prepare, Commit
<1> USE ClickHouseAssumption
    DEF WriterInv, TypeOK, History, Labels, Goroutines, EachEventOnce, Held, HeldInFlush, TakenAtClose, GoTo
<1>5. CASE FlushLoopTick \/ FlushLoopStops BY <1>5 DEF FlushLoopTick, FlushLoopStops
<1>6. CASE Stop BY <1>6 DEF Stop, AfterStopCh
<1>7. CASE CloseDB \/ Exit
  <2>1. CASE CloseDB BY <2>1 DEF CloseDB
  <2>2. CASE Exit BY <2>2 DEF Exit
  <2> QED BY <1>7, <2>1, <2>2
<1>8. CASE UNCHANGED vars BY <1>8 DEF vars
<1> HIDE DEF WriterInv
<1> QED BY <1>1, <1>2, <1>3, <1>4, <1>5, <1>6, <1>7, <1>8 DEF Next, Step, Terminated

\* The inductive invariant of the writer holds in every reachable state.
LEMMA WriterInductive == Spec => []WriterInv
<1>1. Init => WriterInv
  <2> SUFFICES ASSUME Init PROVE WriterInv OBVIOUS
  <2> USE DEF Init, Goroutines
  <2>1. TypeOK BY DEF TypeOK, History, Labels
  <2>2. EachEventOnce BY DEF EachEventOnce, Held
  <2>3. HeldInFlush BY DEF HeldInFlush
  <2>4. TakenAtClose BY DEF TakenAtClose
  <2> QED BY <2>1, <2>2, <2>3, <2>4 DEF WriterInv
<1>2. WriterInv /\ [Next]_vars => WriterInv' BY WriterStep
<1> QED BY <1>1, <1>2, PTL DEF Spec

\* Each event handed to the writer is in the batch, in one goroutine's hands, stored or
\* lost, and only one of these, for any number of goroutines and events.
THEOREM WriterConservation == Spec => []EachEventOnce
<1>1. WriterInv => EachEventOnce BY DEF WriterInv
<1> QED BY <1>1, WriterInductive, PTL

\* When the process ends, what was in the batch when Close began has left it.
THEOREM CloseFlushes == Spec => []CloseEmptiesBatch
<1>1. WriterInv => CloseEmptiesBatch BY DEF WriterInv, TakenAtClose, CloseEmptiesBatch, Exited
<1> QED BY <1>1, WriterInductive, PTL

-------------------------------------------------------------------------------
(* Refinement *)

\* Every step of the writer is a step of EventSink or leaves the sink alone.
LEMMA WriterSinkStep == ASSUME WriterInv, WriterInv', [Next]_vars PROVE [Sink!Next]_(Sink!vars)
<1> DEFINE Pending == batch \cup Held
<1>a. ASSUME NEW S \in SUBSET Events, S \cap hist.written = {}, hist' = Handed(S),
             Pending' = Pending \cup S
      PROVE  Sink!Next
  <2>1. hist'.stored = hist.stored /\ hist'.lost = hist.lost
    BY <1>a DEF Handed, WriterInv, TypeOK, History
  <2>2. S \cap (Pending \cup hist.stored \cup hist.lost) = {}
    BY <1>a DEF WriterInv, EachEventOnce
  <2>3. Sink!Accept(S) BY <1>a, <2>1, <2>2 DEF Sink!Accept
  <2> QED BY <2>3 DEF Sink!Next
<1>b. ASSUME Pending' = Pending, hist'.stored = hist.stored, hist'.lost = hist.lost
      PROVE  UNCHANGED Sink!vars
  BY <1>b DEF Sink!vars
<1>c. ASSUME NEW g \in Goroutines, NEW S \in SUBSET taken[g], Settle(g, S), batch' = batch
      PROVE  Sink!Next
  <2>1. /\ taken' = [taken EXCEPT ![g] = {}]
        /\ hist'.stored = hist.stored \cup S /\ hist'.lost = hist.lost \cup (taken[g] \ S)
    BY <1>c DEF Settle, WriterInv, TypeOK, History
  <2>2. taken[g] \subseteq Held /\ Held' = Held \ taken[g]
    BY <2>1 DEF WriterInv, TypeOK, EachEventOnce, Held
  <2>3. batch \cap Held = {} BY DEF WriterInv, EachEventOnce
  <2>4. PICK L \in SUBSET Events : L = taken[g] \ S BY DEF WriterInv, TypeOK
  <2>5. PICK D \in SUBSET Events : D = S BY DEF WriterInv, TypeOK
  <2>6. Sink!Settle(D, L) BY <1>c, <2>1, <2>2, <2>3, <2>4, <2>5 DEF Sink!Settle
  <2> QED BY <2>6 DEF Sink!Next
<1>1. ASSUME NEW g \in Collectors, NEW e \in Events, WriteEvent(g, e) PROVE Sink!Next
  BY <1>1, <1>a DEF WriteEvent, Held
<1>2. ASSUME NEW g \in Collectors, NEW e \in Events, WriteRow(g, e) PROVE Sink!Next
  <2>1. taken[g] = {} /\ g \in Goroutines
    BY <1>2 DEF WriteRow, WriterInv, HeldInFlush, Goroutines
  <2>2. Held' = Held \cup {e} BY <1>2, <2>1 DEF WriteRow, WriterInv, TypeOK, Held
  <2> QED BY <1>2, <1>a, <2>2 DEF WriteRow
<1>3. ASSUME NEW g \in Collectors, NEW S \in SUBSET Events, WriteBatch(g, S) PROVE Sink!Next
  BY <1>3, <1>a DEF WriteBatch, Held
<1>4. ASSUME NEW g \in Goroutines, Flush(g) \/ InsertRow(g)
      PROVE  Sink!Next \/ UNCHANGED Sink!vars
  <2>1. CASE GiveUp(g) /\ batch' = batch BY <1>c, <2>1 DEF GiveUp
  <2>2. CASE Settle(g, rows[g]) /\ batch' = batch
    BY <1>c, <2>2 DEF WriterInv, TypeOK
  <2>3. CASE UNCHANGED <<batch, taken, hist>> BY <1>b, <2>3 DEF Held
  <2>4. CASE TakeBatch(g) /\ batch # {}
    <3>1. taken[g] = {} BY <2>4 DEF TakeBatch, WriterInv, HeldInFlush
    <3>2. batch' = {} /\ taken' = [taken EXCEPT ![g] = batch] /\ hist' = hist
      BY <2>4 DEF TakeBatch, FreshBatch
    <3>3. Held' = Held \cup batch BY <3>1, <3>2 DEF WriterInv, TypeOK, Held
    <3> QED BY <1>b, <3>2, <3>3
  <2> QED BY <1>4, <2>1, <2>2, <2>3, <2>4
          DEF Flush, InsertRow, TakeBatch, Begin, Prepare, ExecRows, Commit
<1>5. CASE UNCHANGED <<batch, taken, hist>> BY <1>5, <1>b DEF Held
<1>6. CASE Stop
  BY <1>6, <1>b DEF Stop, Held, WriterInv, TypeOK, History
<1> QED BY <1>1, <1>2, <1>3, <1>4, <1>5, <1>6
        DEF Next, Step, Terminated, FlushLoopTick, FlushLoopStops, CloseDB, Exit, vars

\* ClickHouseWriter implements EventSink: a settled event stays settled, and only
\* accepted events are settled.
THEOREM WriterRefinement == Spec => ImplementsSink
<1>1. Init => Sink!Init BY DEF Init, Held, Sink!Init
<1>2. WriterInv /\ WriterInv' /\ [Next]_vars => [Sink!Next]_(Sink!vars) BY WriterSinkStep
<1> QED BY <1>1, <1>2, WriterInductive, PTL DEF Spec, ImplementsSink, Sink!Spec
===============================================================================
