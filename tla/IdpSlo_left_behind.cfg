SPECIFICATION Spec
CONSTANTS
  Indexes = {i1}
  Entities = {sp1, sp2}
  NameValues = {n1}
  Formats = {unspecified}
  NoFormat = noFormat
  Unspecified = unspecified
  Unlimited = unlimited
  Ends = {0, unlimited}
  IndexLists = {{}, {i1}}
  MaxJoins = 2
  MaxTime = 0
  RequestIds = {r1}
  Faults = {"none"}
  Never = never
  Handlers = {h1}
  Skew = 0
  MaxAge = 1
  Life = 1
  MaxLead = 0
  MaxRequests = 1
  MaxEvents = 3
  StoreFails = FALSE
  Prompt = FALSE
SYMMETRY Symmetry
INVARIANTS StoreKnowsWhoIsLeft
