----------------------------- MODULE PerfAnalyzers -----------------------------
(***************************************************************************)
(* SchedAnalyzer and MemLeakDetector of pkg/perf/analyzer.go, each a map   *)
(* by process identifier behind a lock.  Allocations and frees are         *)
(* recorded from the events of several CPUs: a free may be recorded before *)
(* the allocation it undoes.  A process may end without freeing, and its   *)
(* identifier be used again.                                               *)
(***************************************************************************)
EXTENDS Integers, SequencesExt

CONSTANTS Procs,     \* process identifiers
          Amounts,   \* nanoseconds of a sample, bytes of a block
          MaxEvents  \* bound: calls of the Record functions

ASSUME PerfAssumption == Amounts \subseteq Nat \ {0} /\ MaxEvents \in Nat

NoEntry == -1

VARIABLES samples,  \* SchedAnalyzer: TotalNS of a process
          allocs,   \* MemLeakDetector: Bytes of a process
          listed,   \* [of, top]: the getter called last, and what it returned
          live,     \* of each process: bytes recorded and not freed
          owed,     \* and bytes freed that have not been recorded yet
          doubt,    \* processes with a free recorded early, or that ended with memory
          recorded  \* calls so far

perfVars == <<samples, allocs, listed, live, owed, doubt, recorded>>

PerfInit ==
  /\ samples = [p \in Procs |-> NoEntry] /\ allocs = [p \in Procs |-> NoEntry]
  /\ listed = [of |-> "none", top |-> <<>>]
  /\ live = [p \in Procs |-> 0] /\ owed = [p \in Procs |-> 0]
  /\ doubt = {} /\ recorded = 0

Counts == recorded < MaxEvents /\ recorded' = recorded + 1

value(entry) == IF entry = NoEntry THEN 0 ELSE entry

-------------------------------------------------------------------------------
(* The getters *)

\* The inner loop of the sort: a greater element further on is exchanged with that at i.
exchange(s, i) ==
  FoldLeft(LAMBDA t, j : IF t[j].amount > t[i].amount THEN [t EXCEPT ![i] = t[j], ![j] = t[i]] ELSE t,
           s, [k \in 1 .. Len(s) - i |-> i + k])

onePass(s) == IF s = <<>> THEN s ELSE exchange(s, 1)  \* mutant: the inner loop alone

sorted(s) == FoldLeft(exchange, s, [i \in DOMAIN s |-> i])

\* The map is ranged over in any order, sorted, and cut to the first n.
Lists(name, table, n) ==
  /\ \E order \in SetToSeqs({p \in Procs : table[p] # NoEntry}) :
       LET s == sorted([i \in DOMAIN order |-> [pid |-> order[i], amount |-> table[order[i]]]])
       IN  listed' = [of |-> name, top |-> [i \in {k \in DOMAIN s : k <= n} |-> s[i]]]
  /\ UNCHANGED <<samples, allocs, live, owed, doubt, recorded>>

GetTopCPU(n) == Lists("cpu", samples, n)

GetTopAlloc(n) == Lists("memory", allocs, n)

-------------------------------------------------------------------------------
(* SchedAnalyzer *)

RecordSample(p, delta) ==
  /\ Counts /\ samples' = [samples EXCEPT ![p] = value(@) + delta]
  /\ UNCHANGED <<allocs, listed, live, owed, doubt>>

Reset == samples' = [p \in Procs |-> NoEntry] /\ UNCHANGED <<allocs, listed, live, owed, doubt, recorded>>

-------------------------------------------------------------------------------
(* MemLeakDetector *)

\* A new block, or one that was freed before.
RecordAlloc(p, bytes) ==
  /\ Counts /\ allocs' = [allocs EXCEPT ![p] = value(@) + bytes]
  /\ \/ live' = [live EXCEPT ![p] = @ + bytes] /\ UNCHANGED owed
     \/ bytes <= owed[p] /\ owed' = [owed EXCEPT ![p] = @ - bytes] /\ UNCHANGED live
  /\ UNCHANGED <<samples, listed, doubt>>

aboveOnly(entry, bytes) == IF entry > bytes THEN entry - bytes ELSE entry  \* mutant: > for >=

leaves(entry, bytes) == IF entry >= bytes THEN entry - bytes ELSE entry

\* A block that was recorded, or one that will be.
RecordFree(p, bytes) ==
  /\ Counts /\ allocs' = [allocs EXCEPT ![p] = leaves(@, bytes)]
  /\ \/ bytes <= live[p] /\ live' = [live EXCEPT ![p] = @ - bytes] /\ UNCHANGED <<owed, doubt>>
     \/ owed' = [owed EXCEPT ![p] = @ + bytes] /\ doubt' = doubt \cup {p} /\ UNCHANGED live
  /\ UNCHANGED <<samples, listed>>

\* The process ends; the detector does not hear of it.
EndProcess(p) ==
  /\ live[p] > 0 /\ live' = [live EXCEPT ![p] = 0] /\ doubt' = doubt \cup {p}
  /\ UNCHANGED <<owed, samples, allocs, listed, recorded>>

PerfNext ==
  \/ \E p \in Procs, a \in Amounts : RecordSample(p, a) \/ RecordAlloc(p, a) \/ RecordFree(p, a)
  \/ \E n \in 1 .. 2 : GetTopCPU(n) \/ GetTopAlloc(n)
  \/ Reset \/ \E p \in Procs : EndProcess(p)

PerfSpec == PerfInit /\ [][PerfNext]_perfVars

-------------------------------------------------------------------------------
(* Properties *)

IsTopOf(top, table) ==
  /\ \A i, j \in DOMAIN top : i < j => top[i].amount >= top[j].amount
  /\ \A p \in Procs : \/ table[p] = NoEntry \/ \E i \in DOMAIN top : top[i].pid = p
                      \/ \A i \in DOMAIN top : top[i].amount >= table[p]

\* Whatever order the map is ranged over in, the processes of the list that GetTopCPU or
\* GetTopAlloc returns come by falling amount, and no process left out has more.
TopIsTop ==
  [][listed' # listed => IsTopOf(listed'.top, IF listed'.of = "cpu" THEN samples ELSE allocs)]_perfVars

\* MemLeakDetector misses no leak: whatever the order of the calls, Bytes are at least
\* what is allocated less what was freed early.  And it makes none up: where frees are
\* recorded after their allocations and no process ended with memory, Bytes are exact.
BytesBoundLeaks ==
  \A p \in Procs :
    /\ value(allocs[p]) >= live[p] - owed[p]
    /\ p \notin doubt => value(allocs[p]) = live[p]
===============================================================================
