----------------------------- MODULE DockerProofs -----------------------------
(* DockerMapper: what lookups answer has been true since the refresh began. *)
EXTENDS DockerMapper, TLAPS

Shape ==
  /\ had = [map |-> had.map, next |-> had.next]
  /\ refresh = [at |-> refresh.at, todo |-> refresh.todo, newMap |-> refresh.newMap]
  /\ refresh.todo \subseteq Tasks
  /\ refresh.newMap = [p \in Tasks |-> refresh.newMap[p]]
  /\ refresh.at # "reading" => refresh.todo = {}

\* During a refresh, what has been read and what there is now has been true since it
\* began, and what is still to be read has no entry.
Reading ==
  refresh.at = "reading" =>
    \A p \in Tasks :
      /\ extractContainerID(cgroup[p]) \in had.next[p]
      /\ IF p \in refresh.todo THEN refresh.newMap[p] = "" ELSE refresh.newMap[p] \in had.next[p]

MapperInv == Shape /\ Reading /\ AnswersAreRecent

\* A process that is gone has no container.
LEMMA GoneHasNone == extractContainerID(<<>>) = ""
BY DEF extractContainerID, HasWord

\* Processes come and go: the history only grows, and it has what there is now.
LEMMA ChangesStep ==
  ASSUME MapperInv, NEW cg, Changes(cg) PROVE MapperInv'
<1>1. /\ cgroup' = cg /\ pidToContainer' = pidToContainer /\ refresh' = refresh
      /\ had' = [map |-> Also(had.map, cg), next |-> Also(had.next, cg)]
  BY DEF Changes
<1>2. \A p \in Tasks : /\ had'.map[p] = had.map[p] \cup {extractContainerID(cg[p])}
                       /\ had'.next[p] = had.next[p] \cup {extractContainerID(cg[p])}
  BY <1>1 DEF Also, Now
<1> QED BY <1>1, <1>2 DEF MapperInv, Shape, Reading, AnswersAreRecent, GetContainerByPID

\* A refresh begins with what there is, and with no entry for what is not listed.
LEMMA ListStep == ASSUME MapperInv, List PROVE MapperInv'
<1> DEFINE todo == {p \in Tasks : cgroup[p] # <<>>}
<1>1. /\ cgroup' = cgroup /\ pidToContainer' = pidToContainer
      /\ had' = [map |-> had.map, next |-> Now(cgroup)]
      /\ refresh' = [at |-> "reading", todo |-> todo, newMap |-> [p \in Tasks |-> ""]]
  BY DEF MapperInv, Shape, List, Moves, EmptyMap
<1>2. \A p \in Tasks : had'.next[p] = {extractContainerID(cgroup[p])}
  BY <1>1 DEF Now
<1>3. Shape' BY <1>1 DEF Shape
<1>4. Reading' BY <1>1, <1>2, GoneHasNone DEF Reading
<1>5. AnswersAreRecent' BY <1>1 DEF MapperInv, AnswersAreRecent, GetContainerByPID
<1> QED BY <1>3, <1>4, <1>5 DEF MapperInv

\* The cgroup of one process is read: its entry is what there is now.
LEMMA ReadStep == ASSUME MapperInv, NEW q \in Tasks, ReadCgroup(q) PROVE MapperInv'
<1> DEFINE id == extractContainerID(cgroup[q])
<1>1. /\ cgroup' = cgroup /\ pidToContainer' = pidToContainer /\ had' = had
      /\ q \in refresh.todo
      /\ refresh' = [at |-> refresh.at, todo |-> refresh.todo \ {q},
                     newMap |-> IF id = "" THEN refresh.newMap ELSE [refresh.newMap EXCEPT ![q] = id]]
  BY DEF MapperInv, Shape, ReadCgroup, Moves
<1>2. refresh.at = "reading" BY <1>1 DEF MapperInv, Shape
<1>3. \A p \in Tasks : refresh'.newMap[p] = IF p = q THEN id ELSE refresh.newMap[p]
  BY <1>1, <1>2 DEF MapperInv, Shape, Reading
<1>4. Shape'
  <2>1. refresh'.newMap = [p \in Tasks |-> refresh'.newMap[p]]
    BY <1>1 DEF MapperInv, Shape
  <2> QED BY <2>1, <1>1, <1>2 DEF MapperInv, Shape
<1>5. Reading' BY <1>1, <1>2, <1>3 DEF MapperInv, Reading
<1>6. AnswersAreRecent' BY <1>1 DEF MapperInv, AnswersAreRecent, GetContainerByPID
<1> QED BY <1>4, <1>5, <1>6 DEF MapperInv

\* GetContainerByPID answers what the identifier has stood for since the refresh began
\* that built the map, for any number of processes, containers and cgroup paths.
THEOREM RecentAnswers == DockerSpec => []AnswersAreRecent
<1>1. DockerInit => MapperInv
  <2> SUFFICES ASSUME DockerInit PROVE MapperInv OBVIOUS
  <2>1. /\ had = [map |-> [p \in Tasks |-> {""}], next |-> Now(cgroup)]
        /\ refresh = [at |-> "listing", todo |-> {}, newMap |-> [p \in Tasks |-> ""]]
        /\ pidToContainer = [p \in Tasks |-> ""]
    BY DEF DockerInit
  <2>2. Shape BY <2>1 DEF Shape
  <2>3. Reading BY <2>1 DEF Reading
  <2>4. AnswersAreRecent BY <2>1 DEF AnswersAreRecent, GetContainerByPID
  <2> QED BY <2>2, <2>3, <2>4 DEF MapperInv
<1>2. MapperInv /\ [DockerNext]_dockerVars => MapperInv'
  <2> SUFFICES ASSUME MapperInv, [DockerNext]_dockerVars PROVE MapperInv' OBVIOUS
  <2>1. ASSUME NEW p \in Tasks, Ends(p) PROVE MapperInv'
    BY <2>1, ChangesStep DEF Ends
  <2>2. ASSUME NEW p \in Tasks, NEW path \in Paths, Begins(p, path) PROVE MapperInv'
    BY <2>2, ChangesStep DEF Begins
  <2>3. ASSUME NEW p \in Tasks, ReadCgroup(p) PROVE MapperInv'
    BY <2>3, ReadStep
  <2>4. CASE List BY <2>4, ListStep
  <2>5. CASE Swap
    <3>1. /\ refresh.at = "reading" /\ refresh.todo = {} /\ cgroup' = cgroup
          /\ pidToContainer' = refresh.newMap /\ had' = [map |-> had.next, next |-> had.next]
          /\ refresh' = [at |-> "select", todo |-> refresh.todo, newMap |-> refresh.newMap]
      BY <2>5 DEF MapperInv, Shape, Swap, Moves
    <3> QED BY <3>1 DEF MapperInv, Shape, Reading, AnswersAreRecent, GetContainerByPID
  <2>6. ASSUME NEW at \in {"select", "listing", "returned"}, refresh.at # "reading",
               refresh' = [refresh EXCEPT !.at = at],
               UNCHANGED <<cgroup, pidToContainer, had>>
        PROVE  MapperInv'
    <3>1. refresh' = [at |-> at, todo |-> refresh.todo, newMap |-> refresh.newMap]
      BY <2>6 DEF MapperInv, Shape
    <3> QED BY <2>6, <3>1 DEF MapperInv, Shape, Reading, AnswersAreRecent, GetContainerByPID
  <2>7. CASE ListFails BY <2>6, <2>7 DEF ListFails, Moves
  <2>8. CASE Tick BY <2>6, <2>8 DEF Tick, Moves
  <2>9. CASE StopSeen BY <2>6, <2>9 DEF StopSeen, Moves
  <2>10. CASE Stop \/ UNCHANGED dockerVars
    BY <2>10 DEF Stop, dockerVars, MapperInv, Shape, Reading, AnswersAreRecent, GetContainerByPID
  <2> QED BY <2>1, <2>2, <2>3, <2>4, <2>5, <2>7, <2>8, <2>9, <2>10 DEF DockerNext
<1>3. MapperInv => AnswersAreRecent BY DEF MapperInv
<1> QED BY <1>1, <1>2, <1>3, PTL DEF DockerSpec
===============================================================================
