SPECIFICATION Spec
CONSTANTS
  Objects = {o1, o2, o3, o4, o5}
  Null = Null
  InitialCapacity = 2
  Modulus = 16
  MaxId = 10
  MaxFailures = 4
INVARIANTS
  TypeOK
  NothingForgotten
  IdsBounded
PROPERTIES
  ImplementsRegistry
CHECK_DEADLOCK FALSE
