\* Calls follow each other, with faults, an upgrade and changing evidence.
SPECIFICATION FairSpec
CONSTANTS
  Units = {unit1, unit2, unit3}
  Callers = {caller}
  BatchSize = 2
  LastRelease = 2
  LastEdit = 1
  MaxFaults = 2
INVARIANTS
  CompletedIsComplete
  MartIsWhole
PROPERTIES
  ResultsAreKept
  RetrySucceeds
