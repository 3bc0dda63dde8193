------------------------------- MODULE LogProofs -------------------------------
(* Log collection in the kernel: writes to the standard streams are reported. *)
EXTENDS LogCollect, TLAPS

LogTypes ==
  /\ calls \in Nat
  /\ inCall \in [Threads -> SUBSET [n: 0 .. calls - 1, fd: Descriptors]]
  /\ hist = [std |-> hist.std, unsaved |-> hist.unsaved, full |-> hist.full, left |-> hist.left]

\* The entry of a call in progress on a standard stream is its own, unless the map was
\* full: no other thread's call touches it, and it replaces what was left before.
Pending ==
  \A t \in Threads : \A c \in inCall[t] :
    is_stdout_stderr(c.fd) /\ c.n \notin hist.unsaved =>
      t \in DOMAIN write_args /\ write_args[t] = c.fd

LogInv == LogTypes /\ Pending /\ StdWritesReported /\ EntriesAreUsedUp

\* The entry of a call saves its descriptor, or leaves what an earlier call left.
LEMMA EnterStep ==
  ASSUME LogInv, NEW t \in Threads, NEW fd \in Descriptors, Enter(t, fd) PROVE LogInv'
<1> DEFINE new == [n |-> calls, fd |-> fd]
<1>1. /\ inCall[t] = {} /\ calls' = calls + 1 /\ events' = events
      /\ inCall' = [inCall EXCEPT ![t] = {new}]
  BY DEF Enter
<1>2. hist' = IF HasRoom(t) THEN hist
              ELSE [std |-> hist.std, unsaved |-> hist.unsaved \cup {calls}, full |-> hist.full,
                    left |-> hist.left]
  <2>1. hist = [std |-> hist.std, unsaved |-> hist.unsaved, full |-> hist.full, left |-> hist.left]
    BY DEF LogInv, LogTypes
  <2>2. CASE HasRoom(t) BY <2>2 DEF Enter
  <2>3. CASE ~HasRoom(t)
    <3>1. hist' = [hist EXCEPT !.unsaved = hist.unsaved \cup {calls}] BY <2>3 DEF Enter
    <3> QED BY <2>1, <2>3, <3>1
  <2> QED BY <2>2, <2>3
<1>3. write_args' = IF is_stdout_stderr(fd) /\ HasRoom(t) THEN Saved(t, fd) ELSE write_args
  BY DEF Enter
<1>4. /\ DOMAIN write_args \subseteq DOMAIN write_args'
      /\ DOMAIN write_args' \subseteq DOMAIN write_args \cup {t}
      /\ \A u \in DOMAIN write_args : u # t => write_args'[u] = write_args[u]
      /\ is_stdout_stderr(fd) /\ HasRoom(t) => t \in DOMAIN write_args' /\ write_args'[t] = fd
  BY <1>3 DEF Saved
<1>5. /\ hist'.std = hist.std /\ hist'.left = hist.left /\ hist'.full = hist.full
      /\ hist.unsaved \subseteq hist'.unsaved
      /\ hist'.unsaved \subseteq hist.unsaved \cup {calls}
      /\ ~HasRoom(t) => calls \in hist'.unsaved
  BY <1>2
<1>6. LogTypes'
  <2>1. new \in [n: 0 .. calls' - 1, fd: Descriptors] BY <1>1 DEF LogInv, LogTypes
  <2>2. [n: 0 .. calls - 1, fd: Descriptors] \subseteq [n: 0 .. calls' - 1, fd: Descriptors]
    BY <1>1 DEF LogInv, LogTypes
  <2>3. inCall' \in [Threads -> SUBSET [n: 0 .. calls' - 1, fd: Descriptors]]
    <3>1. \A u \in Threads : inCall[u] \subseteq [n: 0 .. calls' - 1, fd: Descriptors]
      BY <2>2 DEF LogInv, LogTypes
    <3>2. {new} \subseteq [n: 0 .. calls' - 1, fd: Descriptors] BY <2>1
    <3> HIDE DEF new
    <3> QED BY <1>1, <3>1, <3>2 DEF LogInv, LogTypes
  <2>4. hist' = [std |-> hist'.std, unsaved |-> hist'.unsaved, full |-> hist'.full, left |-> hist'.left]
    BY <1>2 DEF LogInv, LogTypes
  <2> QED BY <1>1, <2>3, <2>4 DEF LogInv, LogTypes
<1>7. Pending'
  <2> SUFFICES ASSUME NEW u \in Threads, NEW c \in inCall'[u],
                      is_stdout_stderr(c.fd), c.n \notin hist'.unsaved
               PROVE  u \in DOMAIN write_args' /\ write_args'[u] = c.fd
    BY DEF Pending
  <2>1. CASE u = t BY <2>1, <1>1, <1>4, <1>5 DEF LogInv, LogTypes
  <2>2. CASE u # t BY <2>2, <1>1, <1>4, <1>5 DEF LogInv, LogTypes, Pending
  <2> QED BY <2>1, <2>2
<1>8. StdWritesReported' BY <1>1, <1>5 DEF LogInv, StdWritesReported
<1>9. EntriesAreUsedUp'
  <2> SUFFICES ASSUME NEW u \in DOMAIN write_args'
               PROVE  inCall'[u] # {} \/ u \in hist'.left
    BY DEF EntriesAreUsedUp
  <2>1. CASE u = t BY <2>1, <1>1 DEF LogInv, LogTypes
  <2>2. CASE u # t BY <2>2, <1>1, <1>4, <1>5 DEF LogInv, LogTypes, EntriesAreUsedUp
  <2> QED BY <2>1, <2>2
<1> QED BY <1>6, <1>7, <1>8, <1>9 DEF LogInv

\* The exit of a call reports what its entry saved, and uses the entry up.
LEMMA ExitStep ==
  ASSUME LogInv, NEW t \in Threads, NEW ret \in Lengths, Exit(t, ret) PROVE LogInv'
<1> PICK c \in inCall[t] : 
      /\ inCall' = [inCall EXCEPT ![t] = {}]
      /\ IF Reports(t, ret) /\ RingHasRoom
         THEN events' = events \cup {[call |-> c.n, fd |-> write_args[t], data_len |-> ret]}
         ELSE events' = events
      /\ write_args' = IF ret > 0 /\ t \in DOMAIN write_args THEN Deleted(t) ELSE write_args
      /\ hist' = [hist EXCEPT !.left = IF ret > 0 THEN hist.left \ {t} ELSE hist.left \cup {t},
                    !.full = IF Reports(t, ret) /\ ~RingHasRoom THEN hist.full \cup {c.n} ELSE hist.full,
                    !.std = IF ret > 0 /\ c.fd \in {STDOUT, STDERR}
                            THEN hist.std \cup {[call |-> c.n, fd |-> c.fd, data_len |-> ret]}
                            ELSE hist.std]
      /\ calls' = calls
  BY DEF Exit
<1>1. /\ hist'.unsaved = hist.unsaved
      /\ hist'.full = IF Reports(t, ret) /\ ~RingHasRoom THEN hist.full \cup {c.n} ELSE hist.full
      /\ hist'.left = IF ret > 0 THEN hist.left \ {t} ELSE hist.left \cup {t}
      /\ hist'.std = IF ret > 0 /\ is_stdout_stderr(c.fd)
                     THEN hist.std \cup {[call |-> c.n, fd |-> c.fd, data_len |-> ret]}
                     ELSE hist.std
      /\ hist' = [std |-> hist'.std, unsaved |-> hist'.unsaved, full |-> hist'.full, left |-> hist'.left]
  BY DEF LogInv, LogTypes, is_stdout_stderr
<1>2. /\ DOMAIN write_args' = IF ret > 0 THEN DOMAIN write_args \ {t} ELSE DOMAIN write_args
      /\ \A u \in DOMAIN write_args' : write_args'[u] = write_args[u]
  BY DEF Deleted, Restrict
<1>3. LogTypes' BY <1>1 DEF LogInv, LogTypes
<1>4. Pending'
  <2> SUFFICES ASSUME NEW u \in Threads, NEW d \in inCall'[u],
                      is_stdout_stderr(d.fd), d.n \notin hist'.unsaved
               PROVE  u \in DOMAIN write_args' /\ write_args'[u] = d.fd
    BY DEF Pending
  <2>1. u # t BY DEF LogInv, LogTypes
  <2> QED BY <2>1, <1>1, <1>2 DEF LogInv, LogTypes, Pending
<1>5. StdWritesReported'
  <2>1. events \subseteq events' OBVIOUS
  <2>2. CASE ret > 0 /\ is_stdout_stderr(c.fd) /\ c.n \notin hist.unsaved
    <3>1. t \in DOMAIN write_args /\ write_args[t] = c.fd BY <2>2 DEF LogInv, Pending
    <3>2. Reports(t, ret) BY <2>2, <3>1 DEF Reports
    <3>3. CASE RingHasRoom
      <4>1. [call |-> c.n, fd |-> c.fd, data_len |-> ret] \in events' BY <3>1, <3>2, <3>3
      <4> QED BY <1>1, <2>1, <2>2, <3>3, <4>1 DEF LogInv, StdWritesReported
    <3>4. CASE ~RingHasRoom
      <4>1. c.n \in hist'.full /\ hist.full \subseteq hist'.full BY <1>1, <3>2, <3>4
      <4> QED BY <1>1, <2>1, <2>2, <4>1 DEF LogInv, StdWritesReported
    <3> QED BY <3>3, <3>4
  <2>3. CASE ~(ret > 0 /\ is_stdout_stderr(c.fd)) \/ c.n \in hist.unsaved
    <3>1. hist.full \subseteq hist'.full BY <1>1
    <3> QED BY <1>1, <2>1, <2>3, <3>1 DEF LogInv, StdWritesReported
  <2> QED BY <2>2, <2>3
<1>6. EntriesAreUsedUp'
  BY <1>1, <1>2 DEF LogInv, LogTypes, EntriesAreUsedUp
<1> QED BY <1>3, <1>4, <1>5, <1>6 DEF LogInv

\* A killed call leaves its entry behind, and nothing pending.
LEMMA KilledStep == ASSUME LogInv, NEW t \in Threads, Killed(t) PROVE LogInv'
<1>1. /\ inCall' = [inCall EXCEPT ![t] = {}] /\ write_args' = write_args
      /\ events' = events /\ calls' = calls
      /\ hist' = [std |-> hist.std, unsaved |-> hist.unsaved, full |-> hist.full,
                  left |-> hist.left \cup {t}]
  BY DEF Killed, LogInv, LogTypes
<1>2. LogTypes' BY <1>1 DEF LogInv, LogTypes
<1>3. Pending' BY <1>1 DEF LogInv, LogTypes, Pending
<1>4. StdWritesReported' BY <1>1 DEF LogInv, StdWritesReported
<1>5. EntriesAreUsedUp' BY <1>1 DEF LogInv, LogTypes, EntriesAreUsedUp
<1> QED BY <1>2, <1>3, <1>4, <1>5 DEF LogInv

\* The inductive invariant of the tracepoints holds in every reachable state.
LEMMA LogInductive == LogSpec => []LogInv
<1>1. LogInit => LogInv
  <2> SUFFICES ASSUME LogInit PROVE LogInv OBVIOUS
  <2>1. LogTypes BY DEF LogInit, LogTypes
  <2> QED BY <2>1 DEF LogInit, LogInv, Pending, StdWritesReported, EntriesAreUsedUp
<1>2. LogInv /\ [LogNext]_logVars => LogInv'
  <2> SUFFICES ASSUME LogInv, [LogNext]_logVars PROVE LogInv' OBVIOUS
  <2>1. CASE processEvents \/ ReadFails \/ StopSignal \/ StopReader \/ UNCHANGED logVars
    <3>1. UNCHANGED kernelVars
      BY <2>1 DEF processEvents, Select, ProcessEvent, ReadFails, ReadClosed, StopSignal, StopReader,
                  kernelVars, logVars
    <3> QED
      BY <3>1 DEF kernelVars, LogInv, LogTypes, Pending, StdWritesReported, EntriesAreUsedUp
  <2> QED BY <2>1, EnterStep, ExitStep, KilledStep DEF LogNext
<1> QED BY <1>1, <1>2, PTL DEF LogSpec

\* Every successful write to a standard stream that found room in write_args and in the
\* ring buffer is reported with its own stream and length, for any number of threads, entries and
\* calls and whatever earlier calls left behind.
THEOREM WritesReported == LogSpec => []StdWritesReported
<1>1. LogInv => StdWritesReported BY DEF LogInv
<1> QED BY <1>1, LogInductive, PTL

\* An entry of write_args belongs to a call in progress or to a thread whose last call
\* failed or was killed; its next successful call removes it.
THEOREM UsedUp == LogSpec => []EntriesAreUsedUp
<1>1. LogInv => EntriesAreUsedUp BY DEF LogInv
<1> QED BY <1>1, LogInductive, PTL
===============================================================================
