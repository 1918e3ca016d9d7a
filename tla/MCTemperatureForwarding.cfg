SPECIFICATION Spec
CONSTANTS
  Sources = {nvidia, amd}
  Gpus = {"gpu"}
  Groups = {1}
  Temperatures = {20}
  Mappings <- OneGroup
  None = None
  MaxAttempts = 2
  Fresh = 3
  Changed = 1
  KeepAlive = 5
  ExchangeTime = 1
  RereadTime = 1
  MinUptime = 8
  Environments <- Worlds
SYMMETRY AnyProvider
INVARIANTS
  WithdrawnInTime
  RestartIsReread
PROPERTIES
  SentIsFresh
