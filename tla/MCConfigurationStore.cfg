SPECIFICATION Spec
CONSTANTS
  Data = {dflt, d1, d2}
  Defaults = dflt
  Garbage = Garbage
  SeqModulus = 4
INVARIANTS
  CommittedRecoverable
  StoreInv
PROPERTY
  ImplementsDurableRecord
