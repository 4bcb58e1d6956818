SPECIFICATION TableSpec
CONSTANTS
  Human = h
  Bots = {b1, b2}
  Clients <- TableUsers
  NoClient = NoClient
  MaxClients = 3
  DefaultRules <- TableRules
  RuleSets <- NoRuleSets
  GameCapacity = 3
  Shuffles <- TableShuffles
  MaxDeals = 2
  BusMayFill = FALSE
  MidGameStart = FALSE
  Requests <- TableRequests
  TypedRows = {1}
  MaxCommands = 3
  MaxAhead = 0
INVARIANTS
  
  RowsNeverEmpty
  
  SimulationAgrees
PROPERTIES
  PlaysSession
  
  
CHECK_DEADLOCK FALSE
