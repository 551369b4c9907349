\* One screen with two handlers at a time, and one other client.
SPECIFICATION Spec
CONSTANTS
  pa = pa
  pb = pb
  Pages = {pa, pb}
  Registered = {pa}
  s1 = s1
  s2 = s2
  other = other
  Clients = {s1, s2, other}
  Screens = {s1, s2}
  given = given
  own = own
  Prompts = {given, own}
  DefaultPrompt = given
  rules = rules
  empty = empty
  Etls = {rules, empty}
  DefaultEtl = rules
  EmptyEtl = empty
  Limits = {5, 12}
  NoPage = NoPage
  Unset = Unset
  Null = Null
  Blank = Blank
  Note = Note
  Budget <- MCBudget
  Reads = 1
  Writes = 1
  Others = 1
  Samples = 1
  Previews = 1
  Opened = pa
  MaxEdits = 1
  MaxRequests = 3
  TTL = 1
  MaxEvents = 1
SYMMETRY Interchangeable
INVARIANTS
  FrozenTogether
  ArtifactOfWhatRan
  SampleOfItsPage
  FreshEvidence
PROPERTIES
  ImplementsRegistry
CHECK_DEADLOCK FALSE
