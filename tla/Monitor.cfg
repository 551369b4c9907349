\* Two full runs and a partial one of a day; the screen makes one call at a
\* time, and another client publishes as well.
SPECIFICATION MonitorSpec
CONSTANTS
  page = page
  Runs = {full1, full2, part}
  Groups = {full1, full2, part}
  Pages = {page}
  Publishers = {c, other}
  Calls = {c}
  Previewed = {part}
  GroupOf <- EachItsGroup
  PageOf <- OnePage
  DayOf <- FirstDay
  FullDayRuns = {full1, full2}
  Overlapping = TRUE
  Failing = {full1, full2, part}
  Reanalysed = {}
  LastDay = 2
  MaxPublishes = 2
  NoRun = NoRun
  NoGroup = NoGroup
SYMMETRY Interchangeable
INVARIANTS
  PreviewNeverUnderstates
PROPERTIES
  ReplacedWithConsent
CHECK_DEADLOCK FALSE
