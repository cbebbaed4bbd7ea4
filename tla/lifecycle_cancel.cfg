\* One subscriber on the executor.
CONSTANTS
  N = 1
  Configs <- OneListener

SPECIFICATION Spec

PROPERTY DurationEnds
CHECK_DEADLOCK FALSE
