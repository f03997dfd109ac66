\* Three service names in any order and a span name, two states, both ends of a
\* duration, two texts of custom attributes and their parts; five queries from
\* elsewhere; three of these fields set at once, three values for one field.
SPECIFICATION Spec
CONSTANTS
  Characters <- MCCharacters
  Values <- MCValues
  Durations <- MCDurations
  CustomInputs <- MCCustomInputs
  Queries <- MCQueries
  MaxFields = 3
  MaxValues = 3
INVARIANTS
  TypeOK
  ReadsBack
  SelectsWhatWasPicked
PROPERTIES
  SimpleKeepsOthers
