SPECIFICATION Spec
CONSTANTS
  ConfigScopes = {"group1", "supply"}
  Values = {0, 1}
  MaxGeneration = 2
  Environments <- Troubles
INVARIANTS
  NothingTrampled
  EditsAreKept
  DoubtIsKept
PROPERTIES
  SavedIsStored
  NanoFirst
