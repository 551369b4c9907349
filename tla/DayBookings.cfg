\* The card of the overview that counts appointments.
SPECIFICATION Spec
CONSTANTS
  DayLength = 4
  Offset = 1
  Blank = Blank
  NoStaff = NoStaff
  NoTime = NoTime
  Threads = {1, 2}
  ListSize = 1
  PageSize = 2
  Arriving <- MCArriving
  MaxArrivals = 1
  Caps <- MCCaps
  Says <- MCSays
  ProviderAnswers <- MCProviderAnswers
  Asks <- MCAsks
  Requests <- MCRequests
  Worlds <- MCWorlds
  FirstTick = 10
  MaxTicks = 1
INVARIANTS
  BookingsAreCounted
CHECK_DEADLOCK FALSE
