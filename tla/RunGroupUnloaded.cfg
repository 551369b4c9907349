\* A run whose load failed is analysed all the same.
SPECIFICATION Spec
CONSTANTS
  Count = 2
  MaxThreadDays = 2
  ApiCallers = {api}
  MaxDbFailures = 0
  MaxPublishes = 1
INVARIANT LoadedWasLoaded
