SPECIFICATION FairSpec
CONSTANTS
  Pods = {p1, p2}
  Sentinels = {"config", "db"}
  Mishaps = {"unreachable", "failure", "crash", "corruption", "misplaced"}
INVARIANTS MarkerMeansRestored AppDataKept OneRestore
PROPERTIES StartIsJustified PodStarts
CHECK_DEADLOCK FALSE
