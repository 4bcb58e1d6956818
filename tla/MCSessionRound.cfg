SPECIFICATION Spec
CONSTANTS
  Clients = {a, b, c}
  NoClient = NoClient
  MaxClients = 3
  DefaultRules <- MCDefaultRules
  RuleSets <- NoRuleSets
  GameCapacity = 3
  Shuffles <- MCShuffles
  MaxDeals = 1
  BusMayFill = FALSE
  MidGameStart = FALSE
PROPERTIES
  RoundWaitsForAll
CHECK_DEADLOCK FALSE
