SPECIFICATION FairSpec
CONSTANTS
  sp = sp
  idp = idp
  p1 = p1
  none = none
  NoName = none
  Users = {u1, u2}
  Values = {v1, v2}
  Threads = {t1}
  Formats = {"transient", "persistent"}
  Transient = "transient"
  Persistent = "persistent"
  Qualifiers <- QualifierNames
  SpIds <- SpProvided
  SPs = {sp}
  IdpName = idp
  MaxMintAttempts = 2
  PersistTransient = TRUE
  VerifyStore = TRUE
  FaultyReads = TRUE
  Redraw = TRUE
  FaithfulPeers = TRUE
  AppNameIds <- AppStored
  Ops = {"construct", "mapping", "newid", "newEncryptedId", "store"}
INVARIANTS StoreUnique AccountBinding
PROPERTIES NeverReassigned RequestHonoured RequestsReturn
