------------------------------ MODULE EventSink -------------------------------
(***************************************************************************)
(* What an output.Writer (internal/output/output.go) does with the events  *)
(* handed to it, seen from outside: an event is accepted once, stays       *)
(* pending, and is then settled for good, either delivered or lost.        *)
(* EdgeClient and ClickHouseWriter both implement it.                      *)
(***************************************************************************)
CONSTANT Events

VARIABLES pending, delivered, lost

vars == <<pending, delivered, lost>>

Init == pending = {} /\ delivered = {} /\ lost = {}

\* WriteEvent, WriteBatch and the typed Write methods.
Accept(S) ==
  /\ S \cap (pending \cup delivered \cup lost) = {}
  /\ pending' = pending \cup S
  /\ UNCHANGED <<delivered, lost>>

\* A Flush ends: D has reached the destination, L is given up.
Settle(D, L) ==
  /\ D \cap L = {} /\ D \cup L \subseteq pending
  /\ pending' = pending \ (D \cup L)
  /\ delivered' = delivered \cup D
  /\ lost' = lost \cup L

Next ==
  \/ \E S \in SUBSET Events : Accept(S)
  \/ \E D, L \in SUBSET Events : Settle(D, L)

Spec == Init /\ [][Next]_vars
===============================================================================
