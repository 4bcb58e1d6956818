SPECIFICATION Spec
CONSTANTS
  Clients = {a, b, c}
  NoClient = NoClient
  MaxClients = 3
  DefaultRules <- MCDefaultRules
  RuleSets <- MCRuleSets
  GameCapacity = 3
  Shuffles <- MCShuffles
  MaxDeals = 1
  BusMayFill = TRUE
  MidGameStart = FALSE
SYMMETRY Symmetry
INVARIANTS
  TypeOK
  MembershipOK
  CardsDistinct
  ExtraWaitOK
  
  SomeoneCanPlay
PROPERTIES
  HeadsConserved
CHECK_DEADLOCK FALSE
