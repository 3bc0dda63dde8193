----------------------------- MODULE ProcessTables -----------------------------
(***************************************************************************)
(* The components that keep a table by process: the descriptors of log     *)
(* collection, the containers of DockerMapper, the pods of the Kubernetes  *)
(* enricher and the perf analyzers.  They share nothing in the program, so *)
(* a behaviour is of one of them and their state spaces add up.            *)
(***************************************************************************)
EXTENDS LogCollect, DockerMapper, K8sEnricher, PerfAnalyzers

VARIABLE table  \* the component that runs

vars == <<table, logVars, dockerVars, k8sVars, perfVars>>

Init ==
  /\ table \in {"log", "docker", "k8s", "perf"}
  /\ LogInit /\ DockerInit /\ K8sInit /\ PerfInit
  /\ table # "k8s" => ~apiUp /\ \A p \in Pods : cluster[p] = "absent"

Log(A) == table = "log" /\ A /\ UNCHANGED <<table, dockerVars, k8sVars, perfVars>>
Mapper(A) == table = "docker" /\ A /\ UNCHANGED <<table, logVars, k8sVars, perfVars>>
K8s(A) == table = "k8s" /\ A /\ UNCHANGED <<table, logVars, dockerVars, perfVars>>
Perf(A) == table = "perf" /\ A /\ UNCHANGED <<table, logVars, dockerVars, k8sVars>>

Next == Log(LogNext) \/ Mapper(DockerNext) \/ K8s(K8sNext) \/ Perf(PerfNext)

\* The goroutines go on: processEvents with the next event, a refresh with the next
\* process and the ticker of refreshLoop, client.Start, the informers and Enrich.
Spec ==
  /\ Init /\ [][Next]_vars
  /\ WF_vars(Log(processEvents))
  /\ WF_vars(Mapper(List \/ ListFails)) /\ WF_vars(Mapper(Swap)) /\ WF_vars(Mapper(Tick))
  /\ \A p \in Tasks : WF_vars(Mapper(ReadCgroup(p)))
  /\ WF_vars(K8s(PodsSync)) /\ WF_vars(K8s(NodesSync))
  /\ \A p \in Pods : WF_vars(K8s(Watch(p)))
  /\ \A g \in Callers : WF_vars(K8s(EnrichAdd(g)))
===============================================================================
