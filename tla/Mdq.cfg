SPECIFICATION MdqSpec
CONSTANTS
  Callers = {c1, c2}
  Entities = {e1, e2}
  Capacity = 1
  Ttl = 2
  Durations = {0}
  Lifetimes = {1}
  MaxVersions = 2
  MaxTime = 2
  UrlBacked = {TRUE, FALSE}
  RetryBase = 1
  RetryMax = 3
  Lives = {2, forever}
  Forever = forever
  NoMetadata = noMetadata
INVARIANTS ServedIsCurrent ServedIsValid
PROPERTIES Recovers
