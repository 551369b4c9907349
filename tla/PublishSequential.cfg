\* No request begins before the one before has committed; its refresh may go on.
SPECIFICATION Spec
CONSTANTS
  page = page
  full1 = full1
  full2 = full2
  part = part
  next = next
  g1 = g1
  Runs = {full1, full2, part, next}
  Groups = {g1, full2, part}
  Pages = {page}
  Publishers = {p1, p2}
  GroupOf <- RangeGroupOf
  PageOf <- OnePage
  DayOf <- RangeDayOf
  FullDayRuns = {full1, full2, next}
  Overlapping = FALSE
  Failing = {full1, next}
  Reanalysed = {full1}
  LastDay = 2
  MaxPublishes = 3
  NoRun = NoRun
  NoGroup = NoGroup
SYMMETRY Swapped
INVARIANTS
  NoPublishedOrphan
  PublishedGroupWasPublished
PROPERTIES
  NoBlindOverwrite
  OfficialClearsProvisional
CHECK_DEADLOCK FALSE
