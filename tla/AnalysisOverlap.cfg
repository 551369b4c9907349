\* Two calls for the same run overlap.
SPECIFICATION FairSpec
CONSTANTS
  Units = {unit1, unit2}
  Callers = {executor, api}
  BatchSize = 1
  LastRelease = 1
  LastEdit = 0
  MaxFaults = 2
INVARIANTS
  NoUnitForgotten
PROPERTIES
  RetrySucceeds
