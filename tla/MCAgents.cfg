SPECIFICATION Spec
CONSTANTS
  Keys = {"me", "a", "b"}
  Me = "me"
  Unit = 3
  Capacity = 3
  Refill = 2
  PerSecond = 1
  MaxKeys = 2
  MaxAge = 3
  MaxBack = 1
  Window = 4
  Texts <- MCTexts
  Modern = {"m1"}
  Legacy <- MCLegacy
  Clients <- MCClients
  Stateless = {"m1", "m2"}
  MaxLost = 1
  MaxDeploys = 1
INVARIANTS WholePage
PROPERTIES ImplementsLimit RetryAfterSuffices RecentKeysKept EveryAgentReads
CHECK_DEADLOCK FALSE
