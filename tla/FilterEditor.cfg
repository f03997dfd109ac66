SPECIFICATION Spec
CONSTANTS
  Inputs <- MCInputs
  Durations <- MCDurations
  MaxTimers = 2
  MaxNavigations = 1
INVARIANTS
  EditorShowsDraft
