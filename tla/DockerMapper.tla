------------------------------ MODULE DockerMapper ------------------------------
(***************************************************************************)
(* DockerMapper (internal/collector/docker.go): a goroutine reads the      *)
(* cgroup of every process there is, one after the other, and then swaps   *)
(* the map it has built for the one that lookups read.  Processes start    *)
(* and end meanwhile, and their identifiers are used again.                *)
(***************************************************************************)
EXTENDS ContainerIDs

CONSTANTS Tasks,       \* process identifiers
          Containers,
          InUse,       \* the formats of cgroup paths on the host
          MaxStarts    \* bound: processes started

ASSUME DockerAssumption == "" \notin Containers /\ MaxStarts \in Nat

VARIABLES cgroup,          \* the path of each process; <<>> where there is none
          pidToContainer,  \* the map that lookups read; "" where there is no entry
          refresh,         \* the goroutine: [at, todo, newMap]
          stopCh,          \* it has been closed
          starts,          \* the processes started so far
          had              \* what each identifier has stood for since the refresh
                           \* began that built the map, and since the one under way

dockerVars == <<cgroup, pidToContainer, refresh, stopCh, starts, had>>

\* Of containers, and of the other processes of the host.
Paths == {Formats(c)[f] : c \in Containers, f \in InUse} \cup {HostPath}

Now(cg) == [p \in Tasks |-> {extractContainerID(cg[p])}]
Also(since, cg) == [p \in Tasks |-> since[p] \cup Now(cg)[p]]

DockerInit ==
  /\ cgroup = [p \in Tasks |-> <<>>]
  /\ pidToContainer = [p \in Tasks |-> ""]
  /\ refresh = [at |-> "listing", todo |-> {}, newMap |-> pidToContainer]
  /\ stopCh = FALSE /\ starts = 0 /\ had = [map |-> [p \in Tasks |-> {""}], next |-> Now(cgroup)]

-------------------------------------------------------------------------------
(* The host *)

Changes(cg) ==
  /\ cgroup' = cg /\ had' = [map |-> Also(had.map, cg), next |-> Also(had.next, cg)]
  /\ UNCHANGED <<pidToContainer, refresh, stopCh>>

Begins(p, path) ==
  /\ cgroup[p] = <<>> /\ starts < MaxStarts /\ starts' = starts + 1
  /\ Changes([cgroup EXCEPT ![p] = path])

Ends(p) == cgroup[p] # <<>> /\ Changes([cgroup EXCEPT ![p] = <<>>]) /\ UNCHANGED starts

-------------------------------------------------------------------------------
(* The goroutine and its owner *)

Moves(r) == refresh' = r /\ UNCHANGED <<cgroup, stopCh, starts>>

KeptMap == pidToContainer  \* mutant: entries are added to the map there is

EmptyMap == [p \in Tasks |-> ""]

\* os.ReadDir, which fails or lists the processes there are.
List ==
  /\ refresh.at = "listing"
  /\ had' = [had EXCEPT !.next = Now(cgroup)]
  /\ Moves([at |-> "reading", todo |-> {p \in Tasks : cgroup[p] # <<>>}, newMap |-> EmptyMap])
  /\ UNCHANGED pidToContainer

ListFails ==
  refresh.at = "listing" /\ Moves([refresh EXCEPT !.at = "select"]) /\ UNCHANGED <<pidToContainer, had>>

\* getContainerByPID; a process that is gone by now has no cgroup to read.
ReadCgroup(p) ==
  LET id == extractContainerID(cgroup[p])
  IN  /\ p \in refresh.todo
      /\ Moves([refresh EXCEPT !.todo = @ \ {p}, !.newMap = IF id = "" THEN @ ELSE [@ EXCEPT ![p] = id]])
      /\ UNCHANGED <<pidToContainer, had>>

Swap ==
  /\ refresh.at = "reading" /\ refresh.todo = {}
  /\ pidToContainer' = refresh.newMap /\ had' = [had EXCEPT !.map = had.next]
  /\ Moves([refresh EXCEPT !.at = "select"])

Tick ==
  refresh.at = "select" /\ Moves([refresh EXCEPT !.at = "listing"]) /\ UNCHANGED <<pidToContainer, had>>

StopSeen ==
  /\ refresh.at = "select" /\ stopCh
  /\ Moves([refresh EXCEPT !.at = "returned"]) /\ UNCHANGED <<pidToContainer, had>>

GetContainerByPID(p) == pidToContainer[p]

\* Stop, which its owner calls once.
Stop == ~stopCh /\ stopCh' = TRUE /\ UNCHANGED <<cgroup, pidToContainer, refresh, starts, had>>

DockerNext ==
  \/ \E p \in Tasks : ReadCgroup(p) \/ Ends(p) \/ (\E path \in Paths : Begins(p, path))
  \/ List \/ ListFails \/ Swap \/ Tick \/ StopSeen \/ Stop

DockerSpec == DockerInit /\ [][DockerNext]_dockerVars

-------------------------------------------------------------------------------
(* Properties *)

\* A lookup answers what has been true: the container, or the absence of one, that
\* GetContainerByPID reports is one the process identifier has stood for since the
\* refresh began that built the map, though identifiers are used again while the
\* goroutine reads one cgroup after the other.
AnswersAreRecent == \A p \in Tasks : GetContainerByPID(p) \in had.map[p]

\* The mapper catches up: the container of a process that stays is found for good,
\* if /proc can be listed again and again and the mapper is not stopped.
ListsSucceed == []<><<List>>_dockerVars
StayersAreFound ==
  ListsSucceed =>
    \A p \in Tasks, path \in Paths :
      <>[](cgroup[p] = path) => <>[](GetContainerByPID(p) = extractContainerID(path))

\* The formats the comment of extractContainerID lists, "/system.slice/docker-<containerID>.scope"
\* first: what the map holds for a process is a container of the host.
AnswersAreContainers == \A p \in Tasks : GetContainerByPID(p) \in Containers \cup {""}
===============================================================================
