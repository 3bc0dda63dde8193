----------------------------- MODULE K8sEnricher ------------------------------
(***************************************************************************)
(* The Kubernetes integration, internal/k8s: main starts the client, whose *)
(* pod and node informers copy the cluster's state, and then the enricher, *)
(* which names the pod of an event's process and caches the answer in an   *)
(* LRU cache.  Start holds the client's mutex until both informers have    *)
(* synced.  Enrich holds the enricher's mutex for reading, so several run  *)
(* at once; InvalidateCache and Stop hold it for writing.  The informers   *)
(* (client-go) and the cache (golang-lru) are external.                    *)
(***************************************************************************)
EXTENDS Naturals, Sequences, FiniteSets, SequencesExt

CONSTANTS Pods, LocalPods,  \* all pods; those with Spec.NodeName = c.nodeName
          Callers,          \* goroutines that call Enrich
          Pids,
          CacheSize,        \* 10000 in NewEventEnricher
          MaxInvalid        \* bound on the invalidations

ASSUME K8sAssumption ==
  LocalPods \subseteq Pods /\ Pids \subseteq Nat /\ CacheSize \in Nat \ {0}

VARIABLES main,     \* how far main is: "pods", "nodes" (inside client.Start,
                    \* waiting for that informer), "started"
          apiUp,    \* the API server answers
          cluster,  \* the phase of each pod in the cluster
          store,    \* the same in the pod informer's store
          running,  \* e.running
          cache,    \* e.podCache as [key, pod, epoch], least recently used first
          caller,   \* each Enrich in progress, [pid, pod, epoch] after a miss
          epoch,    \* the number of invalidations of each key so far
          shared    \* the answers for another process, as <<pid, pid of the entry>>

k8sVars == <<main, apiUp, cluster, store, running, cache, caller, epoch, shared>>

byteKey(pid) == pid % 256  \* mutant: string(byte(pid))

\* string(rune(pid)): what is no Unicode scalar value becomes U+FFFD.
formatPID(pid) == IF pid < 55296 \/ pid \in 57344..1114111 THEN pid ELSE 65533

Keys == {formatPID(pid) : pid \in Pids}

\* main has called client.Start, which has begun to run the pod informer.
K8sInit ==
  /\ main = "pods" /\ apiUp \in BOOLEAN
  /\ cluster \in [Pods -> {"absent", "running"}]
  /\ store = [p \in Pods |-> "absent"]
  /\ running = FALSE /\ cache = <<>> /\ shared = {}
  /\ epoch = [k \in Keys |-> 0]
  /\ caller = [g \in Callers |-> {}]

-------------------------------------------------------------------------------
(* The cluster, the informers and main *)

PodChanges(p) ==
  /\ cluster' = [cluster EXCEPT ![p] = CASE @ = "absent" -> "pending"
                                         [] @ = "pending" -> "running"
                                         [] @ = "running" -> "absent"]
  /\ UNCHANGED <<main, apiUp, store, running, cache, caller, epoch, shared>>

ServerChanges ==
  /\ apiUp' = ~apiUp
  /\ UNCHANGED <<main, cluster, store, running, cache, caller, epoch, shared>>

\* The first List of the pod informer; with ctx never done, WaitForCacheSync
\* returns only now.
PodsSync ==
  /\ main = "pods" /\ apiUp
  /\ store' = cluster /\ main' = "nodes"
  /\ UNCHANGED <<apiUp, cluster, running, cache, caller, epoch, shared>>

NodesNotRun == FALSE  \* mutant: no go c.nodeInformer.Run

NodesListed == apiUp

\* The node informer has synced: Start returns and main starts the enricher.
NodesSync ==
  /\ main = "nodes" /\ NodesListed
  /\ main' = "started" /\ running' = TRUE
  /\ UNCHANGED <<apiUp, cluster, store, cache, caller, epoch, shared>>

Watch(p) ==
  /\ main # "pods" /\ apiUp /\ store[p] # cluster[p]
  /\ store' = [store EXCEPT ![p] = cluster[p]]
  /\ UNCHANGED <<main, apiUp, cluster, running, cache, caller, epoch, shared>>

-------------------------------------------------------------------------------
(* Enrich *)

Others(k) == SelectSeq(cache, LAMBDA c : c.key # k)

\* lru.Add: the entry becomes the newest; beyond CacheSize the oldest goes.
Added(c) ==
  LET s == Append(Others(c.key), c) IN
  IF Len(s) > CacheSize THEN Tail(s) ELSE s

\* GetPodByPID: a running pod of this node with a container, whatever the pid.
Candidates == {p \in LocalPods : store[p] = "running"}

\* The cache knows the key; Get makes the entry the newest.
EnrichHit(g, pid) ==
  /\ running /\ caller[g] = {}
  /\ \E c \in ToSet(cache) :
       /\ c.key = formatPID(pid)
       /\ cache' = Append(Others(c.key), c)
       /\ shared' = IF pid = c.pid THEN shared ELSE shared \cup {<<pid, c.pid>>}
  /\ UNCHANGED <<main, apiUp, cluster, store, running, caller, epoch>>

\* The cache does not, and the client is asked; with no pod nothing is cached.
EnrichMiss(g, pid) ==
  /\ running /\ caller[g] = {}
  /\ \A c \in ToSet(cache) : c.key # formatPID(pid)
  /\ \E p \in Candidates :
       caller' = [caller EXCEPT ![g] = {[key |-> formatPID(pid), pid |-> pid, pod |-> p,
                                         epoch |-> epoch[formatPID(pid)]]}]
  /\ UNCHANGED <<main, apiUp, cluster, store, running, cache, epoch, shared>>

EnrichAdd(g) ==
  /\ \E c \in caller[g] : cache' = Added(c)
  /\ caller' = [caller EXCEPT ![g] = {}]
  /\ UNCHANGED <<main, apiUp, cluster, store, running, epoch, shared>>

-------------------------------------------------------------------------------
(* InvalidateCache, InvalidateAllCache, Stop and cleanupLoop *)

ReadLocked == TRUE  \* mutant: RLock for Lock

\* e.mu is free of readers.
WriteLocked == \A g \in Callers : caller[g] = {}

InvalidateCache(pid) ==
  LET k == formatPID(pid) IN
  /\ WriteLocked /\ epoch[k] < MaxInvalid
  /\ cache' = Others(k) /\ epoch' = [epoch EXCEPT ![k] = @ + 1]
  /\ UNCHANGED <<main, apiUp, cluster, store, running, caller, shared>>

InvalidateAllCache ==
  /\ WriteLocked /\ \A k \in Keys : epoch[k] < MaxInvalid
  /\ cache' = <<>> /\ epoch' = [k \in Keys |-> epoch[k] + 1]
  /\ UNCHANGED <<main, apiUp, cluster, store, running, caller, shared>>

StopEnricher ==
  /\ WriteLocked /\ running /\ running' = FALSE
  /\ UNCHANGED <<main, apiUp, cluster, store, cache, caller, epoch, shared>>

\* The ticker case of cleanupLoop, whose body is a comment.
CleanupTick == UNCHANGED k8sVars

K8sNext ==
  \/ \E p \in Pods : PodChanges(p) \/ Watch(p)
  \/ ServerChanges \/ PodsSync \/ NodesSync
  \/ \E g \in Callers, pid \in Pids : EnrichHit(g, pid) \/ EnrichMiss(g, pid)
  \/ \E g \in Callers : EnrichAdd(g)
  \/ InvalidateAllCache \/ (\E pid \in Pids : InvalidateCache(pid)) \/ StopEnricher \/ CleanupTick

K8sSpec == K8sInit /\ [][K8sNext]_k8sVars

-------------------------------------------------------------------------------
(* Properties *)

Entries == ToSet(cache) \cup UNION {caller[g] : g \in Callers}

\* Once InvalidateCache or InvalidateAllCache has returned, no entry looked up
\* before comes back: Enrich keeps the read lock from its lookup to its Add.
InvalidatedStaysGone == \A c \in Entries : c.epoch = epoch[c.key]

\* getPodFromCache answers for another process only where string(rune(pid)) makes
\* both PIDs U+FFFD: PIDs in 55296..57343, above 1114111, or 65533 itself.
SharedOnlyOutsideUnicode ==
  \A s \in shared : formatPID(s[1]) = 65533 /\ formatPID(s[2]) = 65533

\* With an API server that stays reachable, client.Start returns and main goes on.
StartCompletes == <>[]apiUp => <>(main = "started")
===============================================================================
