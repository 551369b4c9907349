\* Two loads may be in flight.
SPECIFICATION Spec
CONSTANTS
  pa = pa
  pb = pb
  gone = gone
  NoPage = NoPage
  NoDay = NoDay
  Pages = {pa, pb, gone}
  Listed <- TwoPages
  Addresses <- PlainAndKept
  l1 = l1
  l2 = l2
  Loads = {l1, l2}
  Snapshots = {"official"}
  LastDay = 3
  Entered = {NoDay}
  MaxPast = 1
SYMMETRY SameLoads
INVARIANTS
  UrlTellsTheRoute
  ShownUnlessOvertaken
PROPERTIES
  FiltersPersist
CHECK_DEADLOCK FALSE
