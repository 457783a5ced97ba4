SPECIFICATION Spec
CONSTANTS
  Pods = {p1}
  Sentinels = {"config", "db"}
  Mishaps = {"failure"}
PROPERTY NoPartialStart
CHECK_DEADLOCK FALSE
