SPECIFICATION Spec
CONSTANTS
  RequestIds = {r1}
  Browsers = {b1, b2}
  Unbound = unbound
  Ttl = 2
  MaxEntries = 1
  Ids = {a1, a2}
  Never = never
  Handlers = {h1, h2}
  NoRequest = noRequest
  NoCookie = noCookie
  AllowUnsolicited = TRUE
  Skew = 1
  MaxAge = 1
  Life = 1
  MaxLead = 1
  MaxPerResponse = 2
  MaxResponses = 2
  MaxTime = 3
  PromptValidation = TRUE
SYMMETRY Symmetry
INVARIANTS LoginBoundToBrowser OneLoginPerRequest AssertionSingleUse
