SPECIFICATION Spec
CONSTANTS
  q1 = q1
  q2 = q2
  q3 = q3
  blank = blank
  Query <- MCQuery
  Blank = blank
  Discoveries <- MCDiscoveries
  MultiOn = TRUE
  Pool = 3
  Workers = 2
INVARIANTS ResultsInOrder NoSearchOutlives RaisesOnlyBesideMulti
