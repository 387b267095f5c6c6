\* Users of the profile whose recordings may overlap and fail.
CONSTANTS
  o1 = o1  o2 = o2
  Observers = {o1, o2}
SPECIFICATION SessionSpec
INVARIANTS RefreshIsReadable
