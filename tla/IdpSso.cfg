SPECIFICATION Spec
CONSTANTS
  Unspecified = unspecified
  pwd = pwd
  mfa = mfa
  h1 = h1
  Classes = {unspecified, pwd, mfa}
  Handlers = {h1, h2}
  Browsers = {b1}
  Users = {u1, u2}
  Brokers <- BrokerChoice
  Requests <- RequestChoice
  Methods <- MethodChoice
  MaxLevel = 3
  SessionLifetime = 1
  MaxLogins = 2
  MaxTime = 2
  Fresh = fresh
SYMMETRY Symmetry
INVARIANTS PromptingAsAsked ContextHonoured SessionNeverSlides DenialLeavesNothing
CHECK_DEADLOCK FALSE
