------------------------------- MODULE PingTrace -------------------------------
(***************************************************************************)
(* The network path tracer (internal/collector/pingtrace.go).  A client    *)
(* goroutine sends one echo request per TTL on a raw ICMP socket, waits    *)
(* for one packet or the read deadline, and puts a result per trace into a *)
(* bounded channel; a server goroutine answers echo requests.  The socket  *)
(* receives every ICMP packet of the host: answers that come after their   *)
(* deadline, and answers to other programs.                                *)
(***************************************************************************)
EXTENDS Integers, Sequences, SequencesExt, FiniteSets

CONSTANTS Types,      \* values of config.Type: "c" for a client, else a server
          MaxTTL,     \* 30 in tracePath
          Distance,   \* hops to the destination
          ResultCap,  \* 100, the capacity of p.results
          MaxStarts,  \* bound: calls of Start that start a goroutine
          MaxTraces,  \* bound: traces begun
          MaxForeign  \* bound: ICMP packets of other programs

ASSUME PingAssumption ==
  /\ MaxTTL \in Nat \ {0} /\ Distance \in Nat \ {0} /\ ResultCap \in Nat \ {0}
  /\ MaxStarts \in Nat /\ MaxTraces \in Nat /\ MaxForeign \in Nat

VARIABLES running,  \* p.running
          stopped,  \* p.stopCh is closed
          panicked, \* stopCh was closed a second time
          starts,   \* goroutines started
          pc,       \* per goroutine: "none", "begin", "select", "done"; of a
                    \* client also "probe" and "wait", of a server "read"
          trace,    \* per goroutine: the locals of tracePath
          wire,     \* answers on their way, as [kind, from, seq]
          inbox,    \* the packets each goroutine's socket holds
          results,  \* p.results
          world     \* [type, traces, foreign, late]: config.Type, what has
                    \* happened, and how many echo requests a server answered
                    \* after stopCh was closed

vars == <<running, stopped, panicked, starts, pc, trace, wire, inbox, results, world>>

Type == world.type
Threads == 1 .. MaxStarts
NewTrace ==
  [ttl |-> 1, sent |-> 0, skipped |-> 0, received |-> 0, hops |-> <<>>, last |-> "none"]

Init ==
  /\ running = FALSE /\ stopped = FALSE /\ panicked = FALSE /\ starts = 0
  /\ pc = [g \in Threads |-> "none"] /\ trace = [g \in Threads |-> NewTrace]
  /\ wire = {} /\ inbox = [g \in Threads |-> <<>>] /\ results = <<>>
  /\ world \in [type: Types, traces: {0}, foreign: {0}, late: {0}]

-------------------------------------------------------------------------------
(* Start and Stop, under p.mu *)

Start ==
  /\ ~panicked /\ starts < MaxStarts /\ ~running
  /\ running' = TRUE /\ starts' = starts + 1
  /\ pc' = [pc EXCEPT ![starts + 1] = "begin"]
  /\ UNCHANGED <<stopped, panicked, trace, wire, inbox, results, world>>

Stop ==
  /\ ~panicked /\ running
  /\ stopped' = TRUE /\ running' = FALSE
  /\ panicked' = stopped  \* closing a closed channel
  /\ UNCHANGED <<starts, pc, trace, wire, inbox, results, world>>

-------------------------------------------------------------------------------
(* runClient and tracePath *)

Move(g, at) == pc' = [pc EXCEPT ![g] = at]

\* runClient with an address that does not parse, and runServer without a
\* socket, return at once; p.running stays TRUE.
Begin(g) ==
  /\ pc[g] = "begin" /\ \E at \in {"select", "done"} : Move(g, at)
  /\ UNCHANGED <<running, stopped, panicked, starts, trace, wire, inbox, results, world>>

\* The ticker's case of the select, with a socket of the trace's own; when
\* ListenPacket fails there is no trace and the loop goes on.
TraceBegin(g) ==
  /\ Type = "c" /\ pc[g] = "select" /\ world.traces < MaxTraces
  /\ Move(g, "probe")
  /\ trace' = [trace EXCEPT ![g] = NewTrace]
  /\ inbox' = [inbox EXCEPT ![g] = <<>>]
  /\ world' = [world EXCEPT !.traces = @ + 1]
  /\ UNCHANGED <<running, stopped, panicked, starts, wire, results>>

\* The answer the network gives to a probe of this TTL.
Answer(ttl) ==
  IF ttl < Distance THEN [kind |-> "exceeded", from |-> ttl, seq |-> ttl]
                    ELSE [kind |-> "reply", from |-> Distance, seq |-> ttl]

\* The echo request of this TTL goes out; its answer may get lost.
Send(g) ==
  /\ pc[g] = "probe" /\ trace[g].ttl <= MaxTTL
  /\ trace' = [trace EXCEPT ![g].sent = @ + 1]
  /\ wire' \in {wire, wire \cup {Answer(trace[g].ttl)}}
  /\ Move(g, "wait")
  /\ UNCHANGED <<running, stopped, panicked, starts, inbox, results, world>>

\* SetTTL, Marshal or WriteTo fails: the TTL is skipped.
SendFails(g) ==
  /\ pc[g] = "probe" /\ trace[g].ttl <= MaxTTL
  /\ trace' = [trace EXCEPT ![g].ttl = @ + 1, ![g].skipped = @ + 1]
  /\ UNCHANGED <<running, stopped, panicked, starts, pc, wire, inbox, results, world>>

NoDeadline == FALSE  \* mutant: ReadFrom without a deadline

Deadline == TRUE

\* ReadFrom fails, most often because the deadline passed; a packet that came in at
\* the same time stays in the socket and is read as the answer to the next probe.
Timeout(g) ==
  /\ pc[g] = "wait" /\ Deadline
  /\ trace' = [trace EXCEPT ![g].hops = Append(@, [ttl |-> trace[g].ttl, from |-> 0]),
                            ![g].ttl = @ + 1, ![g].last = "none"]
  /\ Move(g, "probe")
  /\ UNCHANGED <<running, stopped, panicked, starts, wire, inbox, results, world>>

OnUnparsed(kind) == kind = "garbled"  \* mutant: only an unparsed packet goes on

\* ParseMessage fails, or the packet says Time Exceeded: the trace goes on.
GoesOn(kind) == kind \in {"garbled", "exceeded"}

\* Any packet the socket holds is taken for the answer to the last probe.
ReadAnswer(g) ==
  /\ pc[g] = "wait" /\ inbox[g] # <<>>
  /\ LET t == trace[g]
         p == Head(inbox[g])
     IN  trace' = [trace EXCEPT ![g] =
           [ttl  |-> IF GoesOn(p.kind) THEN t.ttl + 1 ELSE MaxTTL + 1,
            sent |-> t.sent, skipped |-> t.skipped, last |-> p.kind,
            received |-> t.received + 1,
            hops |-> Append(t.hops, [ttl |-> t.ttl, from |-> p.from])]]
  /\ inbox' = [inbox EXCEPT ![g] = Tail(@)]
  /\ Move(g, "probe")
  /\ UNCHANGED <<running, stopped, panicked, starts, wire, results, world>>

\* The result at the end of tracePath; the loss in whole per cent, the round-trip
\* times left out.
Result(t) ==
  [hops |-> t.hops, last |-> t.last, skipped |-> t.skipped,
   loss |-> IF t.sent > 0 THEN ((t.sent - t.received) * 100) \div t.sent ELSE 0]

\* The select with a default case: behind a full channel the result is lost.
Offered(r) == IF Len(results) < ResultCap THEN Append(results, r) ELSE results

TraceEnd(g) ==
  /\ pc[g] = "probe" /\ trace[g].ttl > MaxTTL
  /\ results' = Offered(Result(trace[g]))
  /\ Move(g, "select")
  /\ trace' = [trace EXCEPT ![g] = NewTrace] /\ inbox' = [inbox EXCEPT ![g] = <<>>]
  /\ UNCHANGED <<running, stopped, panicked, starts, wire, world>>

\* The client's select takes the stopCh case, which may wait behind the ticker's.
ClientStops(g) ==
  /\ Type = "c" /\ pc[g] = "select" /\ stopped
  /\ Move(g, "done")
  /\ UNCHANGED <<running, stopped, panicked, starts, trace, wire, inbox, results, world>>

GetResult ==
  /\ results # <<>> /\ results' = Tail(results)
  /\ UNCHANGED <<running, stopped, panicked, starts, pc, trace, wire, inbox, world>>

-------------------------------------------------------------------------------
(* runServer *)

\* mutant: stopCh is looked at once, before the loop
CheckedOnce(g) == "read"

LoopTop(g) == IF stopped THEN "done" ELSE "read"

ServerSelect(g) ==
  /\ Type # "c" /\ pc[g] = "select"
  /\ Move(g, LoopTop(g))
  /\ UNCHANGED <<running, stopped, panicked, starts, trace, wire, inbox, results, world>>

\* ReadFrom has no deadline: it blocks until a packet comes, stopped or not.
\* Only an echo request is answered.
ServerReads(g) ==
  /\ Type # "c" /\ pc[g] = "read" /\ inbox[g] # <<>>
  /\ inbox' = [inbox EXCEPT ![g] = Tail(@)]
  /\ world' = [world EXCEPT !.late =
                 IF stopped /\ Head(inbox[g]).kind = "echo" THEN @ + 1 ELSE @]
  /\ Move(g, "select")
  /\ UNCHANGED <<running, stopped, panicked, starts, trace, wire, results>>

-------------------------------------------------------------------------------
(* The network *)

Open(g) == pc[g] \in {"probe", "wait", "read"} \/ (Type # "c" /\ pc[g] = "select")
Received(p) == [g \in Threads |-> IF Open(g) THEN Append(inbox[g], p) ELSE inbox[g]]

\* An answer arrives, in any order, at every raw socket that is open.
Deliver(p) ==
  /\ wire' = wire \ {p} /\ inbox' = Received(p)
  /\ UNCHANGED <<running, stopped, panicked, starts, pc, trace, results, world>>

\* So does a packet of another program: its request, an answer to it, garbage.
Foreign(kind) ==
  /\ world.foreign < MaxForeign
  /\ world' = [world EXCEPT !.foreign = @ + 1]
  /\ inbox' = Received([kind |-> kind, from |-> Distance + 1, seq |-> 0])
  /\ UNCHANGED <<running, stopped, panicked, starts, pc, trace, wire, results>>

-------------------------------------------------------------------------------
Probe(g) ==
  Send(g) \/ Timeout(g) \/ TraceEnd(g) \/ ReadAnswer(g)

Next ==
  \/ Start \/ Stop \/ GetResult
  \/ \E g \in Threads : Begin(g) \/ TraceBegin(g) \/ SendFails(g) \/ Probe(g) \/ ClientStops(g)
                          \/ ServerSelect(g) \/ ServerReads(g)
  \/ \E p \in wire : Deliver(p)
  \/ \E kind \in {"reply", "echo", "garbled"} : Foreign(kind)

Spec == Init /\ [][Next]_vars

\* A trace goes on (its read has a deadline), and a select that finds stopCh
\* closed again and again takes that case in the end.
LiveSpec ==
  Spec /\ \A g \in Threads : /\ WF_vars(Begin(g) \/ SendFails(g) \/ Probe(g))
                             /\ SF_vars(ClientStops(g))
                             /\ WF_vars(ServerSelect(g))

-------------------------------------------------------------------------------
(* Properties *)

\* A trace covers every TTL up to MaxTTL, each as a hop or as a send that failed,
\* unless its last hop is a packet that was parsed and was not Time Exceeded.
OnlyAnswersEndTraces ==
  \A i \in DOMAIN results :
    results[i].last \in {"none", "exceeded", "garbled"} =>
      Len(results[i].hops) + results[i].skipped = MaxTTL

\* Once stopCh is closed a server answers at most one more echo request: the one
\* its blocked ReadFrom was waiting for.
OneLateAnswer == world.late <= starts

\* Stop ends a client, even in the middle of a trace with every hop silent.
ClientsEnd == \A g \in Threads : (stopped /\ pc[g] # "none") ~> (pc[g] = "done" \/ Type # "c")
===============================================================================
