SPECIFICATION SsoSpec
CONSTANTS
  Absent = absent
  Sp = sp
  Idp = idp
  Stranger = stranger
  Fault = fault
  Garbled = garbled
  u1 = u1
  u2 = u2
  Users = {u1, u2}
  Sites <- AllSites
  MaxTime = 3
  Lifetime = 2
  MaxDeliveries = 2
  Deployments <- EidDeployments
  EidMaxTime = 4
  Conversations <- ClientConversations
  MaxAnswers = 2
  MaxReceived = 1
  Idps = {"idp1", "idp2"}
  Malformed = "a&b"
  DiscoveryRequests <- AskedOfDiscovery
  Registered <- DiscoveryResponses
  MaxLogins = 3
  MaxRedirects = 1
SYMMETRY Symmetry
CHECK_DEADLOCK FALSE
INVARIANTS AnswersGoWhereRegistered OwnAnswersAreUnderstood AcceptedIsMeant TakenOverIsMeant NamesKeepTheirAccount HeardIsLastUsed ArrivesAsSent MeaningSurvives
