------------------------------ MODULE PerfProofs ------------------------------
(* MemLeakDetector: what it reports bounds what is allocated. *)
EXTENDS PerfAnalyzers, TLAPS

PerfTypes ==
  /\ allocs \in [Procs -> Nat \cup {NoEntry}]
  /\ live \in [Procs -> Nat] /\ owed \in [Procs -> Nat]
  /\ doubt \subseteq Procs

\* Where nothing is in doubt no free is early, which makes the bound inductive.
LeakInv == PerfTypes /\ BytesBoundLeaks /\ \A p \in Procs \ doubt : owed[p] = 0

\* Recording a block keeps the bound, whether the block is new or was freed before.
LEMMA AllocStep ==
  ASSUME LeakInv, NEW p \in Procs, NEW a \in Amounts, RecordAlloc(p, a)
  PROVE  LeakInv'
<1> USE PerfAssumption DEF LeakInv, PerfTypes, NoEntry
<1>1. a \in Nat \ {0} OBVIOUS
<1>2. allocs' = [allocs EXCEPT ![p] = value(allocs[p]) + a] /\ doubt' = doubt
  BY DEF RecordAlloc
<1>3. value(allocs[p]) \in Nat BY DEF value
<1>4. CASE live' = [live EXCEPT ![p] = live[p] + a] /\ owed' = owed
  <2>1. PerfTypes' BY <1>1, <1>2, <1>3, <1>4
  <2> QED BY <2>1, <1>1, <1>2, <1>3, <1>4 DEF BytesBoundLeaks, value
<1>5. CASE a <= owed[p] /\ owed' = [owed EXCEPT ![p] = owed[p] - a] /\ live' = live
  <2>1. PerfTypes' BY <1>1, <1>2, <1>3, <1>5
  <2> QED BY <2>1, <1>1, <1>2, <1>3, <1>5 DEF BytesBoundLeaks, value
<1> QED BY <1>4, <1>5 DEF RecordAlloc

\* Recording a free keeps it, whether the block was recorded or will be.
LEMMA FreeStep ==
  ASSUME LeakInv, NEW p \in Procs, NEW a \in Amounts, RecordFree(p, a)
  PROVE  LeakInv'
<1> USE PerfAssumption DEF LeakInv, PerfTypes, NoEntry
<1>1. a \in Nat \ {0} OBVIOUS
<1>2. allocs' = [allocs EXCEPT ![p] = leaves(allocs[p], a)]
  BY DEF RecordFree
<1>3. leaves(allocs[p], a) \in Nat \cup {-1} BY <1>1 DEF leaves
<1>4. CASE /\ a <= live[p] /\ live' = [live EXCEPT ![p] = live[p] - a]
           /\ owed' = owed /\ doubt' = doubt
  <2>1. PerfTypes' BY <1>1, <1>2, <1>3, <1>4
  <2> QED BY <2>1, <1>1, <1>2, <1>3, <1>4 DEF BytesBoundLeaks, value, leaves
<1>5. CASE /\ owed' = [owed EXCEPT ![p] = owed[p] + a] /\ live' = live
           /\ doubt' = doubt \cup {p}
  <2>1. PerfTypes' BY <1>1, <1>2, <1>3, <1>5
  <2> QED BY <2>1, <1>1, <1>2, <1>3, <1>5 DEF BytesBoundLeaks, value, leaves
<1> QED BY <1>4, <1>5 DEF RecordFree

\* MemLeakDetector misses no leak whatever the order of the calls, and reports exactly
\* what is allocated where the calls come in order, for any number of processes,
\* amounts and calls.
THEOREM LeakBound == PerfSpec => []BytesBoundLeaks
<1>1. PerfInit => LeakInv
  BY DEF PerfInit, LeakInv, PerfTypes, BytesBoundLeaks, value, NoEntry
<1>2. LeakInv /\ [PerfNext]_perfVars => LeakInv'
  <2> SUFFICES ASSUME LeakInv, [PerfNext]_perfVars PROVE LeakInv' OBVIOUS
  <2>1. ASSUME NEW p \in Procs, NEW a \in Amounts, RecordAlloc(p, a) PROVE LeakInv'
    BY <2>1, AllocStep
  <2>2. ASSUME NEW p \in Procs, NEW a \in Amounts, RecordFree(p, a) PROVE LeakInv'
    BY <2>2, FreeStep
  <2>3. ASSUME NEW p \in Procs, EndProcess(p) PROVE LeakInv'
    <3>1. /\ live' = [live EXCEPT ![p] = 0] /\ doubt' = doubt \cup {p}
          /\ allocs' = allocs /\ owed' = owed
      BY <2>3 DEF EndProcess
    <3> QED BY <3>1 DEF LeakInv, PerfTypes, BytesBoundLeaks, value, NoEntry
  <2>4. CASE UNCHANGED <<allocs, live, owed, doubt>>
    BY <2>4 DEF LeakInv, PerfTypes, BytesBoundLeaks, value
  <2> QED
    BY <2>1, <2>2, <2>3, <2>4
    DEF PerfNext, RecordSample, GetTopCPU, GetTopAlloc, Lists, Reset, perfVars
<1>3. LeakInv => BytesBoundLeaks BY DEF LeakInv
<1> QED BY <1>1, <1>2, <1>3, PTL DEF PerfSpec
===============================================================================
