SPECIFICATION LogoutSpec
CONSTANTS
  RequestIds = {r1, r2}
  Browsers = {b1, b2}
  Unbound = unbound
  Ttl = 2
  MaxEntries = 1
  Messages = {m1}
  Never = never
  NoCookie = noCookie
  Skew = 1
  MaxAge = 1
  Life = 1
  MaxLead = 1
  MaxCalls = 2
  MaxTime = 3
  Entities = {e1, e2}
  NoEntity = noEntity
  MaxTargets = 3
  MaxResponses = 2
  Careful = TRUE
SYMMETRY Symmetry
INVARIANTS CompletedByAsker MessageUsedOnce OpenUntilConcluded SucceededIsReal
PROPERTIES LogoutCompletes
CHECK_DEADLOCK FALSE
