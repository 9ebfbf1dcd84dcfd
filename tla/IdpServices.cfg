SPECIFICATION Spec
CONSTANTS
  Absent = Absent
  Nobody = Nobody
  alice = alice
  bob = bob
  sp1 = sp1
  sp2 = sp2
  stranger = stranger
  Assertions <- StoredAssertions
  Queries <- AskedQueries
  FaultyLookups = TRUE
  StoreEnd = 2
  MaxQueries = 2
  MaxResponses = 1
  m1 = m1
  m2 = m2
  Handles <- MessageHandles
  Peers = {sp1, sp2, stranger}
  TrustedSPs = {sp1, sp2}
  MaxResolves = 2
  Tokens <- EptidTokens
  Askers = {k1, k2}
  Targets <- EptidTargets
  Secrets <- EptidSecrets
  VerifyCache = TRUE
  MaxGets = 4
  Unspecified = "unspecified"
  Password = "password"
  ProtectedTransport = "ppt"
  Classes = {"unspecified", "password", "ppt"}
  MetadataFiles <- TwoSps
  AllowUnsigned = TRUE
  LoginRequests <- ArrivingRequests
  Users = {alice}
  Browsers = {bob}
  LoginThreads = {k1, k2}
  FormSlots = 1
  FormTtl = 1
  SessionLife = 2
  IdpEnd = 3
  MaxForms = 2
  MaxAnswers = 3
  Situations <- ReleaseSituations
  Converters <- AttributeMaps
  UriFormat = "uri"
  TextValues = {"v1", "v2"}
SYMMETRY HandleSymmetry
INVARIANTS IndexIsExact WhatIsLearntIsOnRecord ArtifactsGoOnce IdentifiersAreStable FormsAnswerOnce SessionsAnswerAsAsked ReleasedIsEntitled
CHECK_DEADLOCK FALSE
