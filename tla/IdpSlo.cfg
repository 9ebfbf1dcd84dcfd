SPECIFICATION Spec
CONSTANTS
  Indexes = {i1, i2}
  Entities = {sp1, sp2}
  NameValues = {n1}
  Formats = {unspecified}
  NoFormat = noFormat
  Unspecified = unspecified
  Unlimited = unlimited
  Ends = {1}
  IndexLists = {{}, {i1}, {i2}}
  MaxJoins = 2
  MaxTime = 1
  RequestIds = {r1}
  Faults = {"none", "signature"}
  Never = never
  Handlers = {h1, h2}
  Skew = 1
  MaxAge = 0
  Life = 0
  MaxLead = 0
  MaxRequests = 2
  MaxEvents = 3
  StoreFails = TRUE
  Prompt = TRUE
SYMMETRY Symmetry
INVARIANTS LogoutIsComplete LogoutIsAuthorized ReplaysAreRefused
