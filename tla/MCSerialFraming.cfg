SPECIFICATION FramingSpec
CHECK_DEADLOCK FALSE
CONSTANTS
  Payloads <- ThreePayloads
  Noise = {0, 2, 5, 90, 165}
  MaxPayload = 5
  MaxDamage = 2
  MaxPauses = 1
INVARIANTS
  NothingInvented
  Resynchronised
