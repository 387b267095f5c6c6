\* A pause that overlaps a tick of its source.
CONSTANTS
  s1 = s1  s2 = s2
  Sources = {s1}  Intervals <- OneInterval  Failing = {}
  MaxTime = 4  MaxCrashes = 0  MaxCommands = 1
SPECIFICATION Spec
INVARIANTS PauseIsKept
