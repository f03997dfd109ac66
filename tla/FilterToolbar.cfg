SPECIFICATION Spec
CONSTANTS
  Inputs <- MCInputs
  Durations <- MCDurations
  MaxTimers = 2
  MaxNavigations = 1
INVARIANTS
  TypeOK
  LiveCallsAreCurrent
  InputsSettle
  EditorKeepsDraft
PROPERTIES
  EditChangesOneField
  RerenderKeepsDraft
