SPECIFICATION Spec
CONSTANTS
  Faults = {"fanSlow"}
  CriticalFaults = {"fanSlow"}
  Clients = {"client"}
  Requests = {"status"}
  SeqModulus = 4
  MaxEvents = 2
  Environments <- BadLineOrBeeper
INVARIANTS
  AnswerIsOwn
  OverflowConfessed
  NoLostWakeup
PROPERTIES
  TemperaturesGetTheLine
  MasksRepaired
  CriticalIsSounded
