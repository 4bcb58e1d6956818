SPECIFICATION Spec
CONSTANTS
  Capacity = 4
  Values = {v1, v2, v3}
  NoValue = NoValue
  Torn = Torn
INVARIANTS
  TypeOK
  NoSlotRace
PROPERTIES
  ImplementsBoundedQueue
