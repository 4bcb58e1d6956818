SPECIFICATION BusSpec
CONSTANTS
  Messages = {m1, m2, m3, m4, x}
  Breaking = {x}
  Bound = 3
INVARIANTS
  BusTypeOK
  Accounting

  
CHECK_DEADLOCK FALSE
