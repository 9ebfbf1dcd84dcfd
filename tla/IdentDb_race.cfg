SPECIFICATION Spec
CONSTANTS
  sp = sp
  idp = idp
  p1 = p1
  none = none
  NoName = none
  Users = {u1, u2}
  Values = {v1, v2}
  Threads = {t1, t2}
  Formats = {"transient", "persistent"}
  Transient = "transient"
  Persistent = "persistent"
  Qualifiers <- QualifierNames
  SpIds <- SpProvided
  SPs = {sp}
  IdpName = idp
  MaxMintAttempts = 2
  PersistTransient = TRUE
  VerifyStore = FALSE
  FaultyReads = FALSE
  Redraw = FALSE
  FaithfulPeers = TRUE
  AppNameIds <- NothingStored
  Ops = {"construct", "removeRemote", "removeLocal", "terminate", "newid"}
SYMMETRY Symmetry
INVARIANTS IssuedIsRecorded
PROPERTIES ImplementsRegistry
