------------------------------ MODULE ContainerIDs ------------------------------
(***************************************************************************)
(* The container of a cgroup path (internal/collector/docker.go), found    *)
(* three times in different ways.  A path is the sequence of its segments; *)
(* of a segment the functions tell apart its length, the words it contains *)
(* and the identifier between "docker-" and ".scope", or "" for none.      *)
(***************************************************************************)
EXTENDS Naturals, Sequences

Segment(text, len, words, scope) == [text |-> text, len |-> len, words |-> words, scope |-> scope]

Plain(text, len) == Segment(text, len, {}, "")
Full(id) == Plain(id, 64)
Scope(id) == Segment("docker-<id>.scope", 77, {"docker"}, id)

HasWord(path, word) == \E i \in DOMAIN path : word \in path[i].words

\* The segment at the least, or greatest, of the indices; "" of none.
FirstText(path, hits) == IF hits = {} THEN "" ELSE path[CHOOSE i \in hits : \A j \in hits : i <= j].text
LastText(path, hits) == IF hits = {} THEN "" ELSE path[CHOOSE i \in hits : \A j \in hits : j <= i].text

OfLength(path, lengths) == {i \in DOMAIN path : path[i].len \in lengths}

\* The first segment that is a scope or as long as an identifier, full or short.
dockerID(path) ==
  LET scopes == {i \in DOMAIN path : path[i].scope # ""}
      hits == scopes \cup OfLength(path, {12, 64})
      first == CHOOSE i \in hits : \A j \in hits : i <= j
  IN  IF hits = {} THEN "" ELSE IF first \in scopes THEN path[first].scope ELSE path[first].text

extractContainerID(path) ==
  LET docker == IF HasWord(path, "docker") THEN dockerID(path) ELSE ""
  IN  IF docker # "" THEN docker
      ELSE IF HasWord(path, "containerd") THEN FirstText(path, OfLength(path, {64})) ELSE ""

\* GetContainerID, the path read off /proc.
fullID(path) ==
  IF HasWord(path, "docker") \/ HasWord(path, "containerd") THEN FirstText(path, OfLength(path, {64})) ELSE ""

GetContainerIDFromCgroup(path) ==
  LET scopes == {i \in DOMAIN path : path[i].scope # ""}
  IN  IF scopes # {} THEN path[CHOOSE i \in scopes : \A j \in scopes : i <= j].scope
      ELSE LastText(path, OfLength(path, {64}))

-------------------------------------------------------------------------------
(* The paths of a host: those the comment of extractContainerID lists, containerd's,
   and those of processes outside containers. *)

Root == Plain("", 0)
SystemSlice == Plain("system.slice", 12)
Docker == Segment("docker", 6, {"docker"}, "")

Formats(id) ==
  [scope |-> <<Root, SystemSlice, Scope(id)>>,
   docker |-> <<Root, Docker, Full(id), Root>>,
   kubepods |-> <<Root, Plain("kubepods", 8), Plain("<pod-uid>", 39), Docker, Full(id)>>,
   containerd |-> <<Root, Segment("containerd", 10, {"containerd"}, ""), Full(id)>>]
HostPath == <<Root, Plain("user.slice", 10)>>
===============================================================================
