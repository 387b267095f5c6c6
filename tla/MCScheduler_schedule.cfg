\* Crashes, failing calls and operators whose updates overlap ticks.
CONSTANTS
  s1 = s1  s2 = s2
  Sources = {s1, s2}  Intervals <- TwoIntervals  Failing = {s1}
  MaxTime = 3  MaxCrashes = 1  MaxCommands = 1
SPECIFICATION FairSpec
INVARIANTS TypeOK SpacedDispatches UndisturbedPauseIsKept
PROPERTIES DueSourceIsServed
