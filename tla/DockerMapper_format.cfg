SPECIFICATION DockerSpec
CONSTANTS
  Tasks = {p1, p2}
  Containers = {"c1", "c2"}
  InUse = {"scope", "docker", "kubepods"}
  MaxStarts = 2
INVARIANT AnswersAreContainers
CHECK_DEADLOCK FALSE
