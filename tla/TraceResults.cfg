\* Two instances to mix up, two queries, limits and traces to move between, two
\* refreshes after the page was opened, and room for an old result next to the
\* current one.
SPECIFICATION Spec
CONSTANTS
  Instances = {i1, i2}
  Queries = {q0, q1}
  EmptyQuery = q0
  Limits = {l1, l2}
  Traces = {t1, t2}
  None = None
  MaxEpoch = 2
  MaxEntries = 2
SYMMETRY Symmetry
INVARIANTS
  TypeOK
  ShownIsSelected
  TraceIsSelected
