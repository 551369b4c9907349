\* Two publish requests may overlap.
SPECIFICATION Spec
CONSTANTS
  page = page
  full1 = full1
  full2 = full2
  part = part
  next = next
  g1 = g1
  Runs = {full1, full2, part}
  Groups = {full1, full2, part}
  Pages = {page}
  Publishers = {p1, p2}
  GroupOf <- DayGroupOf
  PageOf <- OnePage
  DayOf <- DayDayOf
  FullDayRuns = {full1, full2}
  Overlapping = TRUE
  Failing = {full1, full2, part}
  Reanalysed = {part}
  LastDay = 2
  MaxPublishes = 3
  NoRun = NoRun
  NoGroup = NoGroup
SYMMETRY Interchangeable
INVARIANTS
  BoardMatchesRuns
  HistoryExplainsBoard
PROPERTIES
  ImplementsBoard
CHECK_DEADLOCK FALSE
