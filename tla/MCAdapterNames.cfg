SPECIFICATION NamesSpec
CONSTANTS
  Requests <- SomeRequests
  Clients = {c1, c2}
  Generations = 4
  Garbage = Garbage
  Never = Never
  MaxChanges = 2
  Outdated = Outdated
  Identities = {i1, i2}
  NoIdentity = NoIdentity
SYMMETRY SomeSymmetry
PROPERTIES
  ImplementsVersionedRecord
