\* Two publish requests may overlap: the expected run is checked too early.
SPECIFICATION Spec
CONSTANTS
  page = page
  full1 = full1
  full2 = full2
  part = part
  next = next
  g1 = g1
  Runs = {full1, full2}
  Groups = {full1, full2}
  Pages = {page}
  Publishers = {p1, p2}
  GroupOf <- DayGroupOf
  PageOf <- OnePage
  DayOf <- DayDayOf
  FullDayRuns = {full1, full2}
  Overlapping = TRUE
  Failing = {full1, full2}
  Reanalysed = {}
  LastDay = 2
  MaxPublishes = 3
  NoRun = NoRun
  NoGroup = NoGroup
PROPERTY NoBlindOverwrite
CHECK_DEADLOCK FALSE
