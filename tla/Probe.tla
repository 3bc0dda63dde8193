-------------------------------- MODULE Probe ---------------------------------
(***************************************************************************)
(* The life of the process: main (cmd/probe/main.go) initialises, starts   *)
(* and stops the collectors through the Manager (internal/collector/       *)
(* manager.go), and each collector's processEvents goroutine (tls_trace.go, *)
(* http2_trace.go and log_collect.go, the same code three times) reads its  *)
(* ring buffer and hands every event to the MultiWriter (internal/output/  *)
(* multi.go), which calls one Writer after the other.  What a Writer does  *)
(* with an event it was handed is in EdgeClient and ClickHouseWriter.      *)
(***************************************************************************)
EXTENDS Naturals, Sequences, FiniteSets

CONSTANTS Collectors,  \* the collectors the configuration enables
          Outputs,     \* the writers main may create
          Events       \* what the eBPF programs emit

ASSUME ProbeAssumption ==
  Collectors \subseteq {"tls_trace", "http2_trace", "log_collect"}

VARIABLES main,      \* [phase, todo, next]: where main is, the collectors still
                     \* to be visited in this phase, the next writer to close
          kernelCap, \* kernel.Capabilities, as far as Init looks at it
          out,       \* MultiWriter.writers
          col,       \* the fields of each collector; mu is "free", or what the
                     \* Stop that holds it does next
          ring,      \* the events in each collector's ring buffer
          proc,      \* [at, hand, next] of each processEvents goroutine: where
                     \* it is, the event in hand, the writer to call next
          accepted,  \* the events each writer was handed
          hist       \* [read, late]: the events each goroutine has read, and
                     \* those a writer was handed after its Close

vars == <<main, kernelCap, out, col, ring, proc, accepted, hist>>

\* main has created the writers its configuration names (ClickHouse only if it
\* could be reached) and detected the kernel's capabilities.
Init ==
  /\ main = [phase |-> "init", todo |-> Collectors, next |-> 1]
  /\ kernelCap \in [kprobe: BOOLEAN, tracepoint: BOOLEAN]
  /\ out \in {<<>>, Outputs} \cup {<<Outputs[i]>> : i \in DOMAIN Outputs}
  /\ col = [c \in Collectors |-> [registered |-> FALSE, running |-> FALSE,
                                  stopCh |-> "open", reader |-> FALSE,
                                  coll |-> FALSE, mu |-> "free"]]
  /\ ring = [c \in Collectors |-> {}]
  /\ proc = [c \in Collectors |-> [at |-> "none", hand |-> {}, next |-> 1]]
  /\ accepted = [i \in DOMAIN out |-> {}]
  /\ hist = [read |-> [c \in Collectors |-> {}],
             late |-> [i \in DOMAIN out |-> {}]]

-------------------------------------------------------------------------------
(* Manager.InitFromConfig and StartAll *)

TLSSupported == kernelCap.kprobe \/ kernelCap.tracepoint
HTTP2Supported == kernelCap.kprobe
LogSupported == kernelCap.tracepoint

Supported(c) == CASE c = "tls_trace" -> TLSSupported
                  [] c = "http2_trace" -> HTTP2Supported
                  [] c = "log_collect" -> LogSupported

\* main is done with c in this phase, and after the last one moves on.
Visited(c, phase) ==
  LET rest == main.todo \ {c} IN
  main' = IF rest # {} THEN [main EXCEPT !.todo = rest]
          ELSE [main EXCEPT !.todo = Collectors, !.phase = phase]

\* Init fails for want of support, of memlock or of the BPF objects; or only at
\* the ring buffer reader, with the collection loaded and never closed; or it
\* succeeds and the collector is registered.
InitCollector(c) ==
  /\ main.phase = "init" /\ c \in main.todo
  /\ \/ UNCHANGED col
     \/ Supported(c) /\ col' = [col EXCEPT ![c] = [@ EXCEPT !.coll = TRUE]]
     \/ /\ Supported(c)
        /\ col' = [col EXCEPT ![c] = [@ EXCEPT !.coll = TRUE, !.reader = TRUE,
                                                  !.registered = TRUE]]
  /\ Visited(c, "start")
  /\ UNCHANGED <<kernelCap, out, ring, proc, accepted, hist>>

\* Only attachProbes of tls_trace can fail: it reads /proc.
AttachFails(c) == c = "tls_trace"

\* StartAll visits the registered collectors; a Start that fails leaves its
\* collector registered and not running.
Start(c) ==
  /\ main.phase = "start" /\ c \in main.todo
  /\ \/ ~col[c].registered /\ UNCHANGED <<col, proc>>
     \/ col[c].registered /\ AttachFails(c) /\ UNCHANGED <<col, proc>>
     \/ /\ col[c].registered
        /\ col' = [col EXCEPT ![c] = [@ EXCEPT !.running = TRUE]]
        /\ proc' = [proc EXCEPT ![c] = [@ EXCEPT !.at = "select"]]
  /\ Visited(c, "run")
  /\ UNCHANGED <<kernelCap, out, ring, accepted, hist>>

-------------------------------------------------------------------------------
(* processEvents and MultiWriter.WriteEvent *)

\* A loaded program leaves an event in the ring buffer (external).
Emit(c, e) ==
  /\ col[c].coll
  /\ \A d \in Collectors : e \notin ring[d] \cup hist.read[d]
  /\ ring' = [ring EXCEPT ![c] = @ \cup {e}]
  /\ UNCHANGED <<main, kernelCap, out, col, proc, accepted, hist>>

AfterSelect(c) == IF col[c].stopCh = "closed" THEN "done" ELSE "read"

\* ctx is cancelled only when main returns.
Select(c) ==
  /\ proc[c].at = "select"
  /\ proc' = [proc EXCEPT ![c] = [@ EXCEPT !.at = AfterSelect(c)]]
  /\ UNCHANGED <<main, kernelCap, out, col, ring, accepted, hist>>

ReadRecord(c) ==
  /\ proc[c].at = "read" /\ col[c].reader
  /\ \E e \in ring[c] :
       /\ ring' = [ring EXCEPT ![c] = @ \ {e}]
       /\ proc' = [proc EXCEPT ![c] = [at |-> "write", hand |-> {e}, next |-> 1]]
       /\ hist' = [hist EXCEPT !.read = [@ EXCEPT ![c] = hist.read[c] \cup {e}]]
  /\ UNCHANGED <<main, kernelCap, out, col, accepted>>

ErrorEndsLoop == "done"  \* mutant: return for continue

AfterError == "select"

\* An error that is not ErrClosed is logged.
ReadError(c) ==
  /\ proc[c].at = "read" /\ col[c].reader
  /\ proc' = [proc EXCEPT ![c] = [@ EXCEPT !.at = AfterError]]
  /\ UNCHANGED <<main, kernelCap, out, col, ring, accepted, hist>>

\* ErrClosed, from a Read blocked or begun when the reader is closed.
ReadClosed(c) ==
  /\ proc[c].at = "read" /\ ~col[c].reader
  /\ proc' = [proc EXCEPT ![c] = [@ EXCEPT !.at = "done"]]
  /\ UNCHANGED <<main, kernelCap, out, col, ring, accepted, hist>>

AllWritten(i) == i > Len(out)

\* The next Writer's WriteEvent; its error is logged and the loop goes on.
WriteNext(c) ==
  LET i == proc[c].next IN
  /\ proc[c].at = "write"
  /\ \/ /\ AllWritten(i)
        /\ proc' = [proc EXCEPT ![c] = [at |-> "select", hand |-> {}, next |-> 1]]
        /\ UNCHANGED <<accepted, hist>>
     \/ /\ ~AllWritten(i)
        /\ accepted' = [accepted EXCEPT ![i] = @ \cup proc[c].hand]
        /\ hist' = IF i < main.next
                   THEN [hist EXCEPT !.late = [@ EXCEPT ![i] = hist.late[i] \cup proc[c].hand]]
                   ELSE hist
        /\ proc' = [proc EXCEPT ![c] = [@ EXCEPT !.next = i + 1]]
  /\ UNCHANGED <<main, kernelCap, out, col, ring>>

\* The loop all eBPF collectors share.  The slice of log_collect.go that can panic is in
\* LogCollect.
ProcessEvents(c) == Select(c) \/ ReadRecord(c) \/ ReadClosed(c) \/ WriteNext(c)

-------------------------------------------------------------------------------
(* Shutdown: Manager.StopAll, then MultiWriter.Close, then main returns *)

CloseFirst == "close"  \* mutant: out.Close() before mgr.StopAll()

AfterSignal == "stop"

Signal ==
  /\ main.phase = "run"
  /\ main' = [main EXCEPT !.phase = AfterSignal]
  /\ UNCHANGED <<kernelCap, out, col, ring, proc, accepted, hist>>

StopBegin(c) ==
  /\ main.phase = "stop" /\ c \in main.todo
  /\ \A d \in Collectors : col[d].mu = "free"
  /\ \/ ~col[c].running /\ Visited(c, "close") /\ UNCHANGED col
     \/ /\ col[c].running
        /\ col' = [col EXCEPT ![c] = [@ EXCEPT !.stopCh = "closed", !.mu = "reader"]]
        /\ UNCHANGED main
  /\ UNCHANGED <<kernelCap, out, ring, proc, accepted, hist>>

StopWaitsForLoop(c) ==  \* mutant: Stop waits for processEvents, then closes
  /\ col[c].mu = "reader" /\ proc[c].at = "done"
  /\ col' = [col EXCEPT ![c] = [@ EXCEPT !.reader = FALSE, !.mu = "coll"]]
  /\ UNCHANGED <<main, kernelCap, out, ring, proc, accepted, hist>>

\* reader.Close, which makes a blocked Read return.
StopReader(c) ==
  /\ col[c].mu = "reader"
  /\ col' = [col EXCEPT ![c] = [@ EXCEPT !.reader = FALSE, !.mu = "coll"]]
  /\ UNCHANGED <<main, kernelCap, out, ring, proc, accepted, hist>>

StopKeepsCollection(c) == [col[c] EXCEPT !.running = FALSE, !.mu = "free"]  \* mutant

Released(c) == [col[c] EXCEPT !.coll = FALSE, !.running = FALSE, !.mu = "free"]

StopEnd(c) ==
  /\ col[c].mu = "coll"
  /\ col' = [col EXCEPT ![c] = Released(c)]
  /\ Visited(c, "close")
  /\ UNCHANGED <<kernelCap, out, ring, proc, accepted, hist>>

Stop(c) == StopBegin(c) \/ StopReader(c) \/ StopEnd(c)

\* Close of the next writer, or the end of main, which ends every goroutine.
CloseNext ==
  /\ main.phase = "close"
  /\ main' = IF main.next <= Len(out) THEN [main EXCEPT !.next = @ + 1]
             ELSE [main EXCEPT !.phase = "exited"]
  /\ UNCHANGED <<kernelCap, out, col, ring, proc, accepted, hist>>

Exited == main.phase = "exited"

Terminated == Exited /\ UNCHANGED vars

Step ==
  \/ \E c \in Collectors : \/ InitCollector(c) \/ Start(c)
                           \/ ProcessEvents(c) \/ ReadError(c) \/ Stop(c)
                           \/ \E e \in Events : Emit(c, e)
  \/ Signal \/ CloseNext

Next == (~Exited /\ Step) \/ Terminated

Spec == Init /\ [][Next]_vars

\* The goroutines and StopAll keep running; a Read of an empty ring buffer
\* blocks, and a Close may take for ever.
FairSpec ==
  /\ Spec
  /\ \A c \in Collectors : WF_vars(~Exited /\ ProcessEvents(c)) /\ WF_vars(~Exited /\ Stop(c))

\* What two properties assume of the environment besides: a Close returns
\* (EdgeClient's CloseReturns), and Read does not fail for ever.
ClosesReturn == WF_vars(CloseNext)
ReadsSucceed == \A c \in Collectors : SF_vars(~Exited /\ ReadRecord(c))

-------------------------------------------------------------------------------
(* Properties *)

\* main stops the collectors before it closes the writers, so the only events a
\* closed writer is handed (and strands) are those in the goroutines' hands: at
\* most one of each collector.
LateIsInFlight ==
  \A i \in DOMAIN out, c \in Collectors :
    Cardinality(hist.late[i] \cap hist.read[c]) <= 1

\* StopAll releases what every running collector holds; a reader or collection
\* still open when the writers are closed belongs to a collector whose Init
\* failed at NewReader or whose Start failed.
StartedAreReleased ==
  main.phase \in {"close", "exited"} =>
    \A c \in Collectors : proc[c].at # "none" => ~col[c].coll /\ ~col[c].reader

\* A collector's processEvents goroutine ends once Stop has been called, a
\* blocked Read included, however long main takes to close the writers.
GoroutineEnds ==
  \A c \in Collectors : (col[c].stopCh = "closed") ~> (proc[c].at = "done" \/ Exited)

\* After the signal the process ends if every Close returns: StopAll and Close wait
\* for no goroutine.
ShutdownCompletes == ClosesReturn => ((main.phase = "stop") ~> Exited)

\* Until the signal, every event in the ring buffer of a running collector
\* reaches all writers, read errors in between notwithstanding.
EventsAreHandedOn ==
  ReadsSucceed => \A c \in Collectors, e \in Events :
    (e \in ring[c] /\ col[c].running)
      ~> (main.phase \in {"stop", "close", "exited"} \/ \A i \in DOMAIN out : e \in accepted[i])
===============================================================================
