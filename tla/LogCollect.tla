------------------------------ MODULE LogCollect ------------------------------
(***************************************************************************)
(* The eBPF programs of bpf/log_collect.bpf.c: tracepoints on the entry    *)
(* and the exit of write and writev, the same code for both calls, keep    *)
(* the descriptor of a thread's call in the hash map write_args and leave  *)
(* an event in the ring buffer when it returns.  A thread is inside at     *)
(* most one call; its identifier may be taken by a new thread.  The        *)
(* collector, internal/collector/log_collect.go, takes the events out of   *)
(* the buffer, which holds RingSize of them, and hands them to the writer  *)
(* until Stop or the end of main's context.                                *)
(***************************************************************************)
EXTENDS Naturals, Sequences, FiniteSets, Functions

CONSTANTS Threads,     \* values of pid_tgid
          MaxEntries,  \* MAX_ENTRIES of write_args
          Lengths,     \* the values a write may return, 0 for all failures
          DataSize,    \* 4096, the length of LogEvent.Data
          RingSize,    \* the events that fit into the ring buffer
          MaxCalls     \* bound on the calls

ASSUME LogAssumption ==
  /\ MaxEntries \in Nat \ {0} /\ RingSize \in Nat \ {0}
  /\ Lengths \subseteq Nat /\ DataSize \in Nat

STDOUT == 1
STDERR == 2
Descriptors == 0..3

is_stdout_stderr(fd) == fd \in {STDOUT, STDERR}

VARIABLES write_args,  \* the map: pid_tgid -> fd
          inCall,      \* the call each thread is in: [n, fd], or {} for none
          events,      \* the events submitted: [call, fd, data_len]
          ring,        \* those in the ring buffer
          handed,      \* those the collector has made an output event of
          collector,   \* [at, stop, open]: where processEvents is, whether stopCh is
                       \* closed or ctx cancelled, and whether the reader is open
          calls,       \* the number of calls so far, which names them
          hist         \* [std, unsaved, full, left]: the calls that returned more
                       \* than 0 on a standard stream as [call, fd, data_len], those
                       \* whose entry found the map full, those whose event found
                       \* the ring buffer full, and the threads whose last call
                       \* failed or was never left

logVars == <<write_args, inCall, events, ring, handed, collector, calls, hist>>

LogInit ==
  /\ ring = <<>> /\ handed = {} /\ collector = [at |-> "select", stop |-> FALSE, open |-> TRUE]
  /\ write_args = <<>> /\ inCall = [t \in Threads |-> {}]
  /\ events = {} /\ calls = 0
  /\ hist = [std |-> {}, unsaved |-> {}, full |-> {}, left |-> {}]

\* bpf_map_update_elem; it fails when the map is full (external).
HasRoom(t) == t \in DOMAIN write_args \/ Cardinality(DOMAIN write_args) < MaxEntries

SavedOnce(t, fd) ==  \* mutant: BPF_NOEXIST for BPF_ANY
  [u \in DOMAIN write_args \cup {t} |->
     IF u \in DOMAIN write_args THEN write_args[u] ELSE fd]

Saved(t, fd) ==
  [u \in DOMAIN write_args \cup {t} |-> IF u = t THEN fd ELSE write_args[u]]

\* sys_enter_write and sys_enter_writev.
Enter(t, fd) ==
  /\ inCall[t] = {} /\ calls < MaxCalls
  /\ calls' = calls + 1
  /\ inCall' = [inCall EXCEPT ![t] = {[n |-> calls, fd |-> fd]}]
  /\ write_args' = IF is_stdout_stderr(fd) /\ HasRoom(t) THEN Saved(t, fd) ELSE write_args
  /\ hist' = IF HasRoom(t) THEN hist ELSE [hist EXCEPT !.unsaved = @ \cup {calls}]
  /\ UNCHANGED <<events, ring, handed, collector>>

KeptEntry(t) == write_args  \* mutant: no bpf_map_delete_elem

Deleted(t) == Restrict(write_args, DOMAIN write_args \ {t})

\* The event takes a place in the ring buffer (external).
RingHasRoom == Len(ring) < RingSize

\* The exit handlers submit an event for thread t.
Reports(t, ret) == ret > 0 /\ t \in DOMAIN write_args /\ is_stdout_stderr(write_args[t])

\* sys_exit_write and sys_exit_writev: a call that failed leaves its entry; an event
\* that finds no room is lost, and the entry is deleted all the same.
Exit(t, ret) ==
  \E c \in inCall[t] :
    /\ inCall' = [inCall EXCEPT ![t] = {}]
    /\ IF Reports(t, ret) /\ RingHasRoom
       THEN LET e == [call |-> c.n, fd |-> write_args[t], data_len |-> ret]
            IN  events' = events \cup {e} /\ ring' = Append(ring, e)
       ELSE UNCHANGED <<events, ring>>
    /\ write_args' = IF ret > 0 /\ t \in DOMAIN write_args THEN Deleted(t) ELSE write_args
    /\ hist' = [hist EXCEPT !.left = IF ret > 0 THEN @ \ {t} ELSE @ \cup {t},
                  !.full = IF Reports(t, ret) /\ ~RingHasRoom THEN @ \cup {c.n} ELSE @,
                  !.std = IF ret > 0 /\ c.fd \in {STDOUT, STDERR}
                          THEN @ \cup {[call |-> c.n, fd |-> c.fd, data_len |-> ret]} ELSE @]
    /\ UNCHANGED <<handed, collector, calls>>

\* A thread is killed inside a call: no exit tracepoint, and its entry stays.
Killed(t) ==
  /\ inCall[t] # {} /\ inCall' = [inCall EXCEPT ![t] = {}]
  /\ hist' = [hist EXCEPT !.left = @ \cup {t}]
  /\ UNCHANGED <<write_args, events, ring, handed, collector, calls>>

FitsWithRoom(n) == n < DataSize  \* mutant: the last byte of the array is not used

\* event.Data[:event.DataLen] is within the array.
Fits(n) == n <= DataSize

kernelVars == <<write_args, inCall, events, calls, hist>>

\* The top of the loop of processEvents.
Select ==
  /\ collector.at = "select"
  /\ collector' = [collector EXCEPT !.at = IF collector.stop THEN "done" ELSE "read"]
  /\ UNCHANGED <<kernelVars, ring, handed>>

\* Read returns an event, which goes to the writer; a slice past the array's end panics
\* and ends the process.
ProcessEvent ==
  /\ collector.at = "read" /\ collector.open /\ ring # <<>> /\ ring' = Tail(ring)
  /\ IF Fits(Head(ring).data_len)
     THEN /\ handed' = handed \cup {Head(ring)}
          /\ collector' = [collector EXCEPT !.at = "select"]
     ELSE collector' = [collector EXCEPT !.at = "panicked"] /\ UNCHANGED handed
  /\ UNCHANGED kernelVars

\* Any error but ErrClosed is logged and the loop goes on.
ReadFails ==
  /\ collector.at = "read" /\ collector.open
  /\ collector' = [collector EXCEPT !.at = "select"]
  /\ UNCHANGED <<kernelVars, ring, handed>>

\* ErrClosed ends the loop.
ReadClosed ==
  /\ collector.at = "read" /\ ~collector.open
  /\ collector' = [collector EXCEPT !.at = "done"]
  /\ UNCHANGED <<kernelVars, ring, handed>>

\* Stop closes stopCh, or main's ctx is cancelled.
StopSignal ==
  /\ ~collector.stop /\ collector' = [collector EXCEPT !.stop = TRUE]
  /\ UNCHANGED <<kernelVars, ring, handed>>

\* Stop closes the reader.
StopReader ==
  /\ collector.stop /\ collector.open /\ collector' = [collector EXCEPT !.open = FALSE]
  /\ UNCHANGED <<kernelVars, ring, handed>>

processEvents == Select \/ ProcessEvent \/ ReadClosed

LogNext ==
  \/ \E t \in Threads :
       (\E fd \in Descriptors : Enter(t, fd)) \/ (\E ret \in Lengths : Exit(t, ret)) \/ Killed(t)
  \/ processEvents \/ ReadFails \/ StopSignal \/ StopReader

LogSpec == LogInit /\ [][LogNext]_logVars

-------------------------------------------------------------------------------
(* Properties *)

\* Every successful write to stdout or stderr is reported with its own stream
\* and length, whatever failed calls and killed threads left in write_args,
\* unless the map was full when it began or the ring buffer when it ended.
StdWritesReported ==
  \A w \in hist.std : w.call \in hist.unsaved \cup hist.full \/ w \in events

\* write_args does not fill up with the descriptors of finished calls: an entry
\* belongs to a call in progress or was left by one that failed or was killed,
\* and the thread's next successful call removes it.
EntriesAreUsedUp == \A t \in DOMAIN write_args : inCall[t] # {} \/ t \in hist.left

\* Read does not fail for ever.
RingReadsSucceed == <>[][~ReadFails]_logVars

\* Until the collector is stopped, every successful write to stdout or stderr that found
\* room in write_args and in the ring buffer reaches the writer of log_collect.go, read
\* errors in between notwithstanding, unless a write longer than LogEvent.Data was
\* reported, which ends the process.
StdWritesAreHandedOn ==
  RingReadsSucceed => \A n \in 0 .. MaxCalls - 1 :
    (n \notin hist.unsaved \cup hist.full /\ \E w \in hist.std : w.call = n)
      ~> \/ \E e \in handed : e.call = n
         \/ \E e \in events : e.data_len > DataSize
         \/ collector.stop

\* The comment of the entry handlers: "only stdout and stderr are captured".
OnlyStdWritesReported == events \subseteq hist.std
===============================================================================
