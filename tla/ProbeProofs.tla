------------------------------ MODULE ProbeProofs ------------------------------
(* The shutdown: collectors release what they hold before the writers are closed, and a
   closed writer is handed no more than what was in flight. *)
EXTENDS Probe, FiniteSetTheorems, TLAPS

Started(c) == proc[c].at # "none"
Gone(c) == ~col[c].coll /\ ~col[c].reader

Fields == [registered: BOOLEAN, running: BOOLEAN, stopCh: {"open", "closed"},
           reader: BOOLEAN, coll: BOOLEAN, mu: {"free", "reader", "coll"}]
Loop == [at: {"none", "select", "read", "write", "done"}, hand: SUBSET Events, next: Nat \ {0}]

ProbeTypes ==
  /\ main = [phase |-> main.phase, todo |-> main.todo, next |-> main.next]
  /\ main.todo \subseteq Collectors /\ main.next \in Nat \ {0}
  /\ col \in [Collectors -> Fields]
  /\ proc \in [Collectors -> Loop] /\ ring \in [Collectors -> SUBSET Events]

\* What StopAll has visited is released, and only Stop of a collector that it has not
\* left yet holds a lock.
Order ==
  /\ main.phase = "init" => \A c \in Collectors : ~Started(c)
  /\ main.phase = "run" => main.todo = Collectors
  /\ \A c \in Collectors : Started(c) => col[c].running \/ Gone(c)
  /\ main.phase = "stop" => \A c \in Collectors \ main.todo : Started(c) => Gone(c)
  /\ \A c \in Collectors : col[c].mu # "free" => main.phase = "stop" /\ c \in main.todo
  /\ \A c \in Collectors : col[c].mu = "coll" => ~col[c].reader
  /\ main.phase \notin {"close", "exited"} => main.next = 1

StopInv == ProbeTypes /\ Order /\ StartedAreReleased

\* main leaves a collector: the phase stays, or all have been visited.
LEMMA VisitedStep ==
  ASSUME ProbeTypes, NEW c \in Collectors, NEW phase, Visited(c, phase)
  PROVE  /\ main'.next = main.next /\ main'.todo \subseteq Collectors
         /\ main' = [phase |-> main'.phase, todo |-> main'.todo, next |-> main'.next]
         /\ \/ main'.phase = main.phase /\ main'.todo = main.todo \ {c}
            \/ main'.phase = phase /\ main'.todo = Collectors /\ main.todo \subseteq {c}
<1>1. CASE main.todo \ {c} # {}
  <2>1. main' = [phase |-> main.phase, todo |-> main.todo \ {c}, next |-> main.next]
    BY <1>1 DEF Visited, ProbeTypes
  <2> QED BY <2>1 DEF ProbeTypes
<1>2. CASE main.todo \ {c} = {}
  <2>1. main' = [phase |-> phase, todo |-> Collectors, next |-> main.next]
    BY <1>2 DEF Visited, ProbeTypes
  <2> QED BY <1>2, <2>1 DEF ProbeTypes
<1> QED BY <1>1, <1>2

\* Initialisation opens collections while no goroutine has been started.
LEMMA InitStep == ASSUME StopInv, NEW c \in Collectors, InitCollector(c) PROVE StopInv'
<1> USE DEF StopInv
<1>1. main.phase = "init" /\ proc' = proc /\ ring' = ring /\ Visited(c, "start") BY DEF InitCollector
<1>2. /\ col' \in [Collectors -> Fields]
      /\ \A d \in Collectors : col'[d].mu = col[d].mu
  <2>1. CASE UNCHANGED col BY <2>1 DEF ProbeTypes
  <2>2. CASE col' = [col EXCEPT ![c] = [col[c] EXCEPT !.coll = TRUE]]
    <3>1. [col[c] EXCEPT !.coll = TRUE] \in Fields /\ [col[c] EXCEPT !.coll = TRUE].mu = col[c].mu
      BY DEF ProbeTypes, Fields
    <3> QED BY <2>2, <3>1 DEF ProbeTypes
  <2>3. CASE col' = [col EXCEPT ![c] = [col[c] EXCEPT !.coll = TRUE, !.reader = TRUE,
                                                      !.registered = TRUE]]
    <3> DEFINE new == [col[c] EXCEPT !.coll = TRUE, !.reader = TRUE, !.registered = TRUE]
    <3>1. new \in Fields /\ new.mu = col[c].mu BY DEF ProbeTypes, Fields
    <3> QED BY <2>3, <3>1 DEF ProbeTypes
  <2> QED BY <2>1, <2>2, <2>3 DEF InitCollector
<1>3. main'.phase \in {"init", "start"} /\ main'.next = main.next BY <1>1, VisitedStep
<1>4. ProbeTypes' BY <1>1, <1>2, VisitedStep DEF ProbeTypes
<1>5. \A d \in Collectors : ~Started(d) /\ ~Started(d)' /\ col[d].mu = "free"
  BY <1>1 DEF Order, Started, ProbeTypes
<1>6. Order' BY <1>1, <1>2, <1>3, <1>5 DEF Order, ProbeTypes
<1>7. StartedAreReleased' BY <1>3 DEF StartedAreReleased
<1> QED BY <1>4, <1>6, <1>7

\* A goroutine is started for a collector that is then running.
LEMMA StartStep == ASSUME StopInv, NEW c \in Collectors, Start(c) PROVE StopInv'
<1> USE DEF StopInv
<1>1. main.phase = "start" /\ ring' = ring /\ Visited(c, "run") BY DEF Start
<1>2. /\ main'.phase \in {"start", "run"} /\ main'.next = main.next
      /\ main'.phase = "run" => main'.todo = Collectors
  BY <1>1, VisitedStep
<1>3. CASE UNCHANGED <<col, proc>>
  <2>1. ProbeTypes' BY <1>1, <1>3, VisitedStep DEF ProbeTypes
  <2>2. Order' BY <1>1, <1>2, <1>3 DEF Order, Started, Gone, ProbeTypes
  <2> QED BY <1>2, <2>1, <2>2 DEF StartedAreReleased
<1>4. CASE /\ col' = [col EXCEPT ![c] = [col[c] EXCEPT !.running = TRUE]]
           /\ proc' = [proc EXCEPT ![c] = [proc[c] EXCEPT !.at = "select"]]
  <2> DEFINE new == [col[c] EXCEPT !.running = TRUE]
  <2>a. /\ new \in Fields /\ new.running
        /\ new.mu = col[c].mu /\ new.coll = col[c].coll /\ new.reader = col[c].reader
    BY DEF ProbeTypes, Fields
  <2>b. [proc[c] EXCEPT !.at = "select"] \in Loop BY DEF ProbeTypes, Loop
  <2>1. ProbeTypes' BY <1>1, <1>4, <2>a, <2>b, VisitedStep DEF ProbeTypes
  <2>2. \A d \in Collectors :
          /\ col'[d].mu = col[d].mu /\ col'[d].coll = col[d].coll /\ col'[d].reader = col[d].reader
          /\ IF d = c THEN col'[d].running ELSE col'[d].running = col[d].running /\ proc'[d] = proc[d]
    BY <1>4, <2>a DEF ProbeTypes
  <2>3. Order' BY <1>1, <1>2, <2>2 DEF Order, Started, Gone, ProbeTypes
  <2> QED BY <1>2, <2>1, <2>3 DEF StartedAreReleased
<1> QED BY <1>3, <1>4 DEF Start

\* Stop of one collector, up to its release.
LEMMA StopStep == ASSUME StopInv, NEW c \in Collectors, Stop(c) PROVE StopInv'
<1> USE DEF StopInv
<1>1. proc' = proc /\ ring' = ring BY DEF Stop, StopBegin, StopReader, StopEnd
<1>0. \A d \in Collectors : Started(d)' = Started(d) BY <1>1 DEF Started
<1>2. ASSUME Visited(c, "close"), main.phase = "stop", c \in main.todo, Started(c) => Gone(c)',
             col' \in [Collectors -> Fields],
             \A d \in Collectors \ {c} : col'[d] = col[d], col'[c].mu = "free"
      PROVE  StopInv'
  <2>1. ProbeTypes' BY <1>1, <1>2, VisitedStep DEF ProbeTypes
  <2>3. \A d \in Collectors \ {c} : Gone(d)' = Gone(d) /\ col'[d].running = col[d].running
    BY <1>2 DEF Gone
  <2>4. /\ main'.next = 1
        /\ \/ main'.phase = "stop" /\ main'.todo = main.todo \ {c}
           \/ main'.phase = "close" /\ main'.todo = Collectors /\ main.todo \subseteq {c}
    BY <1>2, VisitedStep DEF Order
  <2>5. Order' BY <1>0, <1>2, <2>3, <2>4 DEF Order
  <2>6. StartedAreReleased'
    BY <1>0, <1>2, <2>3, <2>4 DEF Order, StartedAreReleased, Gone, Started
  <2> QED BY <2>1, <2>5, <2>6
<1>3. CASE StopBegin(c) /\ ~col[c].running
  <2>1. Visited(c, "close") /\ col' = col /\ main.phase = "stop" /\ c \in main.todo /\ col[c].mu = "free"
    BY <1>3 DEF StopBegin
  <2>2. Started(c) => Gone(c)' BY <1>3, <2>1 DEF Order, Gone
  <2> QED BY <1>2, <2>1, <2>2 DEF ProbeTypes
<1>4. CASE StopBegin(c) /\ col[c].running
  <2> DEFINE new == [col[c] EXCEPT !.stopCh = "closed", !.mu = "reader"]
  <2>1. /\ col' = [col EXCEPT ![c] = new] /\ main' = main
        /\ main.phase = "stop" /\ c \in main.todo
    BY <1>4 DEF StopBegin
  <2>a. /\ new \in Fields /\ new.running = col[c].running /\ new.coll = col[c].coll
        /\ new.reader = col[c].reader /\ new.mu = "reader"
    BY DEF ProbeTypes, Fields
  <2>2. ProbeTypes' BY <1>1, <2>1, <2>a DEF ProbeTypes
  <2>3. \A d \in Collectors :
          /\ col'[d].running = col[d].running /\ Gone(d)' = Gone(d)
          /\ IF d = c THEN col'[d].mu = "reader" ELSE col'[d] = col[d]
    BY <2>1, <2>a DEF ProbeTypes, Gone
  <2>4. Order' BY <1>0, <2>1, <2>3 DEF Order
  <2> QED BY <1>1, <2>1, <2>2, <2>4 DEF StartedAreReleased
<1>5. CASE StopReader(c)
  <2> DEFINE new == [col[c] EXCEPT !.reader = FALSE, !.mu = "coll"]
  <2>1. col' = [col EXCEPT ![c] = new] /\ main' = main /\ col[c].mu = "reader"
    BY <1>5 DEF StopReader
  <2>a. /\ new \in Fields /\ new.running = col[c].running /\ new.coll = col[c].coll
        /\ new.reader = FALSE /\ new.mu = "coll"
    BY DEF ProbeTypes, Fields
  <2>2. ProbeTypes' BY <1>1, <2>1, <2>a DEF ProbeTypes
  <2>3. \A d \in Collectors :
          /\ col'[d].running = col[d].running /\ Gone(d) => Gone(d)'
          /\ IF d = c THEN col'[d].mu = "coll" /\ ~col'[d].reader ELSE col'[d] = col[d]
    BY <2>1, <2>a DEF ProbeTypes, Gone
  <2>4. main.phase = "stop" /\ c \in main.todo BY <2>1 DEF Order
  <2>5. Order' BY <1>0, <2>1, <2>3, <2>4 DEF Order
  <2> QED BY <1>1, <2>1, <2>2, <2>4, <2>5 DEF StartedAreReleased
<1>6. CASE StopEnd(c)
  <2>1. col' = [col EXCEPT ![c] = Released(c)] /\ Visited(c, "close") /\ col[c].mu = "coll"
    BY <1>6 DEF StopEnd
  <2>2. main.phase = "stop" /\ c \in main.todo /\ ~col[c].reader BY <2>1 DEF Order
  <2>3. /\ Released(c) \in Fields
        /\ ~Released(c).coll /\ Released(c).reader = col[c].reader /\ Released(c).mu = "free"
    BY DEF ProbeTypes, Released, Fields
  <2>4. col'[c] = Released(c) /\ \A d \in Collectors \ {c} : col'[d] = col[d] BY <2>1 DEF ProbeTypes
  <2>5. Gone(c)' BY <2>2, <2>3, <2>4 DEF Gone
  <2>6. col' \in [Collectors -> Fields]
    BY <2>1, <2>3 DEF ProbeTypes
  <2> QED BY <1>2, <2>1, <2>2, <2>3, <2>4, <2>5, <2>6
<1> QED BY <1>3, <1>4, <1>5, <1>6 DEF Stop, StopBegin

\* The goroutines read and write, and start none; the programs emit.
LEMMA LoopStep ==
  ASSUME StopInv, NEW c \in Collectors, ProcessEvents(c) \/ ReadError(c) PROVE StopInv'
<1> USE DEF StopInv
<1>1. main' = main /\ col' = col
  BY DEF ProcessEvents, Select, ReadRecord, ReadClosed, WriteNext, ReadError
<1>2. /\ proc' \in [Collectors -> Loop]
      /\ \A d \in Collectors : Started(d)' => Started(d)
  <2>0. ASSUME NEW l \in Loop, proc' = [proc EXCEPT ![c] = l], Started(c)
        PROVE  proc' \in [Collectors -> Loop] /\ \A d \in Collectors : Started(d)' => Started(d)
    BY <2>0 DEF Started, ProbeTypes
  <2>1. CASE Select(c)
    <3>1. [proc[c] EXCEPT !.at = AfterSelect(c)] \in Loop BY DEF AfterSelect, ProbeTypes, Loop
    <3> QED BY <2>0, <2>1, <3>1 DEF Select, Started
  <2>2. CASE ReadRecord(c)
    <3>1. PICK e \in ring[c] :
            proc' = [proc EXCEPT ![c] = [at |-> "write", hand |-> {e}, next |-> 1]]
      BY <2>2 DEF ReadRecord
    <3>2. [at |-> "write", hand |-> {e}, next |-> 1] \in Loop BY <3>1 DEF ProbeTypes, Loop
    <3> QED BY <2>0, <2>2, <3>1, <3>2 DEF ReadRecord, Started
  <2>3. CASE ReadClosed(c)
    <3>1. [proc[c] EXCEPT !.at = "done"] \in Loop BY DEF ProbeTypes, Loop
    <3> QED BY <2>0, <2>3, <3>1 DEF ReadClosed, Started
  <2>4. CASE WriteNext(c)
    <3>1. [proc[c] EXCEPT !.next = proc[c].next + 1] \in Loop BY DEF ProbeTypes, Loop
    <3>2. [at |-> "select", hand |-> {}, next |-> 1] \in Loop BY DEF Loop
    <3> QED BY <2>0, <2>4, <3>1, <3>2 DEF WriteNext, Started
  <2>5. CASE ReadError(c)
    <3>1. [proc[c] EXCEPT !.at = AfterError] \in Loop BY DEF AfterError, ProbeTypes, Loop
    <3> QED BY <2>0, <2>5, <3>1 DEF ReadError, Started
  <2> QED BY <2>1, <2>2, <2>3, <2>4, <2>5 DEF ProcessEvents
<1>3. \A d \in Collectors : Gone(d)' = Gone(d) BY <1>1 DEF Gone
<1>0. ring' \in [Collectors -> SUBSET Events]
  BY DEF ProcessEvents, Select, ReadRecord, ReadClosed, WriteNext, ReadError, ProbeTypes
<1>4. ProbeTypes' BY <1>0, <1>1, <1>2 DEF ProbeTypes
<1>5. Order' BY <1>1, <1>2, <1>3 DEF Order
<1>6. StartedAreReleased' BY <1>1, <1>2 DEF StartedAreReleased, Started
<1> QED BY <1>4, <1>5, <1>6

\* The programs emit, the signal arrives and the writers are closed.
LEMMA OtherStep ==
  ASSUME StopInv, (\E c \in Collectors, e \in Events : Emit(c, e)) \/ Signal \/ CloseNext \/ UNCHANGED vars
  PROVE  StopInv'
<1> USE DEF StopInv
<1>1. col' = col /\ proc' = proc BY DEF Emit, Signal, CloseNext, vars
<1>2. \A d \in Collectors : Gone(d)' = Gone(d) /\ Started(d)' = Started(d) BY <1>1 DEF Gone, Started
<1>3. ring' \in [Collectors -> SUBSET Events] BY DEF Emit, Signal, CloseNext, vars, ProbeTypes
<1>4. CASE main' = main
  <2>1. ProbeTypes' BY <1>1, <1>3, <1>4 DEF ProbeTypes
  <2>2. Order' BY <1>1, <1>2, <1>4 DEF Order
  <2> QED BY <1>1, <1>4, <2>1, <2>2 DEF StartedAreReleased
<1>5. CASE Signal
  <2>1. main' = [phase |-> "stop", todo |-> main.todo, next |-> main.next] /\ main.phase = "run"
    BY <1>5 DEF Signal, AfterSignal, ProbeTypes
  <2>2. ProbeTypes' BY <1>1, <1>3, <2>1 DEF ProbeTypes
  <2>3. Order' BY <1>1, <1>2, <2>1 DEF Order
  <2> QED BY <2>1, <2>2, <2>3 DEF StartedAreReleased
<1>6. CASE CloseNext
  <2>1. /\ main.phase = "close" /\ main'.phase \in {"close", "exited"} /\ main'.todo = main.todo
        /\ main'.next \in Nat \ {0}
        /\ main' = [phase |-> main'.phase, todo |-> main'.todo, next |-> main'.next]
    <3>1. main.phase = "close" BY <1>6 DEF CloseNext
    <3>2. \/ main' = [phase |-> "close", todo |-> main.todo, next |-> main.next + 1]
          \/ main' = [phase |-> "exited", todo |-> main.todo, next |-> main.next]
      BY <1>6 DEF CloseNext, ProbeTypes
    <3> QED BY <3>1, <3>2 DEF ProbeTypes
  <2>2. ProbeTypes' BY <1>1, <1>3, <2>1 DEF ProbeTypes
  <2>3. Order' BY <1>1, <1>2, <2>1 DEF Order
  <2> QED BY <1>1, <2>1, <2>2, <2>3 DEF StartedAreReleased
<1> QED BY <1>4, <1>5, <1>6 DEF Emit, vars

\* Every step of the process keeps what the release rests on.
LEMMA StopInvStep == StopInv /\ [Next]_vars => StopInv'
BY InitStep, StartStep, StopStep, LoopStep, OtherStep DEF Next, Step, Terminated

\* No collector has been visited at the start.
LEMMA StopInvInit == Init => StopInv
<1> SUFFICES ASSUME Init PROVE StopInv OBVIOUS
<1>1. \A c \in Collectors : col[c] = [registered |-> FALSE, running |-> FALSE, stopCh |-> "open",
                                      reader |-> FALSE, coll |-> FALSE, mu |-> "free"]
  BY DEF Init
<1>2. \A c \in Collectors : proc[c] = [at |-> "none", hand |-> {}, next |-> 1] BY DEF Init
<1>3. main = [phase |-> "init", todo |-> Collectors, next |-> 1] BY DEF Init
<1>4. col \in [Collectors -> Fields] BY <1>1 DEF Init, Fields
<1>5. proc \in [Collectors -> Loop] BY <1>2 DEF Init, Loop
<1>6. ring \in [Collectors -> SUBSET Events] BY DEF Init
<1>7. ProbeTypes BY <1>3, <1>4, <1>5, <1>6 DEF ProbeTypes
<1>8. Order BY <1>1, <1>2, <1>3 DEF Order, Started
<1>9. StartedAreReleased BY <1>3 DEF StartedAreReleased
<1> QED BY <1>7, <1>8, <1>9 DEF StopInv

\* When main closes the writers, StopAll has closed the reader and the collection of
\* every collector whose Start succeeded, whatever the collectors and the events.
THEOREM Release == Spec => []StartedAreReleased
<1>1. StopInv => StartedAreReleased BY DEF StopInv
<1> QED BY <1>1, StopInvInit, StopInvStep, PTL DEF Spec

-------------------------------------------------------------------------------
(* What a closed writer is handed *)

Own(c) == ring[c] \cup hist.read[c]

\* Two collectors never have an event in common; an event in hand was read; and what a
\* closed writer was handed of a collector's is one event, the one in hand if any is.
Flow ==
  /\ hist = [read |-> hist.read, late |-> hist.late]
  /\ hist.read \in [Collectors -> SUBSET Events] /\ hist.late \in [DOMAIN out -> SUBSET Events]
  /\ \A c, d \in Collectors : c # d => Own(c) \cap Own(d) = {}
  /\ \A c \in Collectors : proc[c].hand \subseteq hist.read[c]
  /\ \A c \in Collectors : \A e, f \in proc[c].hand : e = f
  /\ main.next = 1 => \A i \in DOMAIN out : hist.late[i] = {}
  /\ \A i \in DOMAIN out, c \in Collectors : \A e, f \in hist.late[i] \cap hist.read[c] : e = f
  /\ \A i \in DOMAIN out, c \in Collectors :
       proc[c].at = "write" => hist.late[i] \cap hist.read[c] \subseteq proc[c].hand

LateInv == StopInv /\ Flow

\* Reading needs an open reader, hence a phase before any writer is closed.
LEMMA ReadFlow == ASSUME LateInv, NEW c \in Collectors, ReadRecord(c) PROVE Flow'
<1> USE DEF LateInv, StopInv
<1>1. main.next = 1 /\ main' = main /\ out' = out /\ col[c].reader /\ Started(c)
  BY DEF ReadRecord, Order, StartedAreReleased, Started
<1>2. PICK e \in ring[c] :
        /\ ring' = [ring EXCEPT ![c] = ring[c] \ {e}]
        /\ proc' = [proc EXCEPT ![c] = [at |-> "write", hand |-> {e}, next |-> 1]]
        /\ hist' = [hist EXCEPT !.read = [hist.read EXCEPT ![c] = hist.read[c] \cup {e}]]
  BY DEF ReadRecord
<1>3. e \in Events BY <1>2 DEF ProbeTypes
<1>4. /\ hist' = [read |-> hist'.read, late |-> hist'.late] /\ hist'.late = hist.late
      /\ hist'.read = [hist.read EXCEPT ![c] = hist.read[c] \cup {e}]
  BY <1>2 DEF Flow
<1>5. \A d \in Collectors : hist'.read[d] = IF d = c THEN hist.read[c] \cup {e} ELSE hist.read[d]
  BY <1>4 DEF Flow
<1>6. \A d \in Collectors : Own(d)' \subseteq Own(d) BY <1>2, <1>5 DEF Own, ProbeTypes
<1>7. \A d \in Collectors : proc'[d].hand = IF d = c THEN {e} ELSE proc[d].hand
  BY <1>2 DEF ProbeTypes
<1>8. \A i \in DOMAIN out : hist'.late[i] = {} BY <1>1, <1>4 DEF Flow
<1>9. hist'.read \in [Collectors -> SUBSET Events] BY <1>3, <1>4 DEF Flow
<1> QED BY <1>1, <1>4, <1>5, <1>6, <1>7, <1>8, <1>9 DEF Flow

\* A closed writer is handed the event in hand, of one collector.
LEMMA WriteFlow == ASSUME LateInv, NEW c \in Collectors, WriteNext(c) PROVE Flow'
<1> USE DEF LateInv, StopInv
<1>1. main' = main /\ out' = out /\ ring' = ring /\ proc[c].at = "write" BY DEF WriteNext
<1>2. \A d \in Collectors \ {c} : proc'[d] = proc[d] BY DEF WriteNext, ProbeTypes
<1>3. CASE AllWritten(proc[c].next)
  <2>1. hist' = hist /\ proc'[c].hand = {} /\ proc'[c].at = "select"
    BY <1>3 DEF WriteNext, ProbeTypes
  <2>2. \A d \in Collectors : proc'[d].hand \subseteq proc[d].hand /\ Own(d)' = Own(d)
    BY <1>1, <1>2, <2>1 DEF Own
  <2>3. \A d \in Collectors : proc'[d].at = "write" => proc'[d].hand = proc[d].hand /\ proc[d].at = "write"
    BY <1>2, <2>1
  <2> QED BY <1>1, <2>1, <2>2, <2>3 DEF Flow
<1>4. CASE ~AllWritten(proc[c].next)
  <2> DEFINE i == proc[c].next
  <2>1. i \in Nat \ {0} /\ main.next \in Nat \ {0} BY DEF ProbeTypes, Loop
  <2>2. proc'[c] = [proc[c] EXCEPT !.next = i + 1] BY <1>4 DEF WriteNext, ProbeTypes
  <2>3. \A d \in Collectors : proc'[d].hand = proc[d].hand /\ proc'[d].at = proc[d].at
    BY <1>2, <2>2 DEF ProbeTypes, Loop
  <2>4. CASE ~(i < main.next)
    <3>1. hist' = hist BY <1>4, <2>4 DEF WriteNext
    <3>2. \A d \in Collectors : Own(d)' = Own(d) BY <1>1, <3>1 DEF Own
    <3> QED BY <1>1, <2>3, <3>1, <3>2 DEF Flow
  <2>5. CASE i < main.next
    <3>1. hist' = [hist EXCEPT !.late = [hist.late EXCEPT ![i] = hist.late[i] \cup proc[c].hand]]
      BY <1>4, <2>5 DEF WriteNext
    <3>2. /\ hist' = [read |-> hist'.read, late |-> hist'.late] /\ hist'.read = hist.read
          /\ hist'.late = [hist.late EXCEPT ![i] = hist.late[i] \cup proc[c].hand]
      BY <3>1 DEF Flow
    <3>3. \A d \in Collectors : Own(d)' = Own(d) BY <1>1, <3>2 DEF Own
    <3>4. proc[c].hand \subseteq Events BY DEF ProbeTypes, Loop
    <3>5. hist'.late \in [DOMAIN out -> SUBSET Events]
      <4>1. hist.late \in [DOMAIN out -> SUBSET Events] BY DEF Flow
      <4>2. i \in DOMAIN out => hist.late[i] \cup proc[c].hand \in SUBSET Events BY <3>4, <4>1
      <4> QED BY <3>2, <4>1, <4>2
    <3>6. \A j \in DOMAIN out : hist'.late[j] \subseteq hist.late[j] \cup proc[c].hand
      BY <3>2 DEF Flow
    <3>7. \A d \in Collectors \ {c} : proc[c].hand \cap hist.read[d] = {} BY DEF Flow, Own
    <3>8. \A j \in DOMAIN out, d \in Collectors \ {c} :
            hist'.late[j] \cap hist'.read[d] \subseteq hist.late[j] \cap hist.read[d]
      BY <3>2, <3>6, <3>7
    <3>9. \A j \in DOMAIN out : hist'.late[j] \cap hist'.read[c] \subseteq proc[c].hand
      BY <1>1, <3>2, <3>6 DEF Flow
    <3>10. \A j \in DOMAIN out, d \in Collectors :
             /\ \A e, f \in hist'.late[j] \cap hist'.read[d] : e = f
             /\ proc'[d].at = "write" => hist'.late[j] \cap hist'.read[d] \subseteq proc'[d].hand
      BY <2>3, <3>8, <3>9 DEF Flow
    <3>11. main.next # 1 BY <2>1, <2>5
    <3> QED BY <1>1, <2>3, <3>2, <3>3, <3>5, <3>10, <3>11 DEF Flow
  <2> QED BY <2>4, <2>5
<1> QED BY <1>3, <1>4

\* No other step reads or hands over.
LEMMA QuietFlow ==
  ASSUME LateInv, hist' = hist, out' = out,
         \A c \in Collectors : Own(c)' = Own(c),
         \A c \in Collectors : proc'[c].hand = proc[c].hand,
         \A c \in Collectors : proc'[c].at = "write" => proc[c].at = "write",
         main'.next = 1 => main.next = 1
  PROVE  Flow'
BY DEF LateInv, Flow

\* Every step of the process keeps the bound on late events.
LEMMA FlowStep == ASSUME LateInv, [Next]_vars PROVE Flow'
<1> USE DEF LateInv, StopInv
<1>1. CASE \E c \in Collectors : ReadRecord(c) BY <1>1, ReadFlow
<1>2. CASE \E c \in Collectors : WriteNext(c) BY <1>2, WriteFlow
<1>3. ASSUME NEW c \in Collectors, NEW e \in Events, Emit(c, e) PROVE Flow'
  <2>1. /\ main' = main /\ out' = out /\ hist' = hist /\ proc' = proc
        /\ ring' = [ring EXCEPT ![c] = ring[c] \cup {e}]
        /\ \A d \in Collectors : e \notin Own(d)
    BY <1>3 DEF Emit, Own
  <2>2. \A d \in Collectors : Own(d)' = IF d = c THEN Own(c) \cup {e} ELSE Own(d)
    BY <2>1 DEF Own, ProbeTypes
  <2>3. \A d, f \in Collectors : d # f => Own(d)' \cap Own(f)' = {} BY <2>1, <2>2 DEF Flow
  <2> QED BY <2>1, <2>3 DEF Flow
<1>4. ASSUME NEW c \in Collectors, InitCollector(c) \/ Start(c) \/ Stop(c) PROVE Flow'
  <2>1. hist' = hist /\ out' = out /\ ring' = ring
    BY <1>4 DEF InitCollector, Start, Stop, StopBegin, StopReader, StopEnd
  <2>2. main'.next = main.next
    BY <1>4, VisitedStep DEF InitCollector, Start, Stop, StopBegin, StopReader, StopEnd
  <2>3. proc' = proc \/ proc' = [proc EXCEPT ![c] = [proc[c] EXCEPT !.at = "select"]]
    BY <1>4 DEF InitCollector, Start, Stop, StopBegin, StopReader, StopEnd
  <2>4. \A d \in Collectors : /\ proc'[d].hand = proc[d].hand
                              /\ proc'[d].at = "write" => proc[d].at = "write"
    BY <2>3 DEF ProbeTypes, Loop
  <2>5. \A d \in Collectors : Own(d)' = Own(d) BY <2>1 DEF Own
  <2> QED BY <2>1, <2>2, <2>4, <2>5, QuietFlow
<1>5. ASSUME NEW c \in Collectors, Select(c) \/ ReadClosed(c) \/ ReadError(c) PROVE Flow'
  <2>1. hist' = hist /\ out' = out /\ ring' = ring /\ main' = main
    BY <1>5 DEF Select, ReadClosed, ReadError
  <2>2. \E at \in {"select", "read", "done"} : proc' = [proc EXCEPT ![c] = [proc[c] EXCEPT !.at = at]]
    BY <1>5 DEF Select, ReadClosed, ReadError, AfterSelect, AfterError
  <2>3. \A d \in Collectors : /\ proc'[d].hand = proc[d].hand
                              /\ proc'[d].at = "write" => proc[d].at = "write"
    BY <2>2 DEF ProbeTypes, Loop
  <2>4. \A d \in Collectors : Own(d)' = Own(d) BY <2>1 DEF Own
  <2> QED BY <2>1, <2>3, <2>4, QuietFlow
<1>6. CASE Signal \/ CloseNext \/ UNCHANGED vars
  <2>1. hist' = hist /\ out' = out /\ ring' = ring /\ proc' = proc
    BY <1>6 DEF Signal, CloseNext, vars
  <2>2. main'.next \in {main.next, main.next + 1}
    <3>1. \/ main' = main
          \/ main' = [phase |-> "stop", todo |-> main.todo, next |-> main.next]
          \/ main' = [phase |-> main.phase, todo |-> main.todo, next |-> main.next + 1]
          \/ main' = [phase |-> "exited", todo |-> main.todo, next |-> main.next]
      BY <1>6 DEF Signal, AfterSignal, CloseNext, vars, ProbeTypes
    <3> QED BY <3>1
  <2>3. main'.next = 1 => main.next = 1 BY <2>2 DEF ProbeTypes
  <2>4. \A d \in Collectors : Own(d)' = Own(d) BY <2>1 DEF Own
  <2> QED BY <2>1, <2>3, <2>4, QuietFlow
<1> QED BY <1>1, <1>2, <1>3, <1>4, <1>5, <1>6 DEF Next, Step, ProcessEvents, Terminated

\* Nothing has been read or handed over at the start.
LEMMA FlowInit == Init => Flow
<1> SUFFICES ASSUME Init PROVE Flow OBVIOUS
<1>1. /\ hist = [read |-> [c \in Collectors |-> {}], late |-> [i \in DOMAIN out |-> {}]]
      /\ hist.read = [c \in Collectors |-> {}] /\ hist.late = [i \in DOMAIN out |-> {}]
  BY DEF Init
<1>2. \A c \in Collectors : proc[c].hand = {} /\ Own(c) = {} BY <1>1 DEF Init, Own
<1> QED BY <1>1, <1>2 DEF Flow

\* A set whose elements are all equal has at most one.
LEMMA OneAtMost == ASSUME NEW S, \A e, f \in S : e = f PROVE Cardinality(S) <= 1
<1>1. CASE S = {} BY <1>1, FS_EmptySet
<1>2. CASE S # {}
  <2>1. PICK e \in S : S = {e} BY <1>2
  <2>2. Cardinality({e}) = 1 BY FS_Singleton
  <2> QED BY <2>1, <2>2
<1> QED BY <1>1, <1>2

\* A writer that main has closed is handed at most one event of each collector, the one
\* its processEvents had in hand, whatever the collectors, the events and the writers.
THEOREM Late == Spec => []LateIsInFlight
<1>1. Init => LateInv BY StopInvInit, FlowInit DEF LateInv
<1>2. LateInv /\ [Next]_vars => LateInv' BY StopInvStep, FlowStep DEF LateInv
<1>3. LateInv => LateIsInFlight BY OneAtMost DEF LateInv, Flow, LateIsInFlight
<1> QED BY <1>1, <1>2, <1>3, PTL DEF Spec
===============================================================================
