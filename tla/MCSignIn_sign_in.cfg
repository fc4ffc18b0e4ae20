SPECIFICATION SignInRunSpec
CONSTANTS
  Accounts = {a1}
  Emails = {e1}
  Providers = {"GOOGLE", "APPLE"}
  SignCalls = {c1, c2}
  None = None
  VerificationRequired = TRUE
  MaxSessions = 3
  MaxCodes = 1
  MaxLinks = 1
  TvCalls = {t1, t2}
  MaxGeneration = 1
  MaxSignIns = 2
SYMMETRY Symmetry
INVARIANTS BarredGetNoPair LinkBuysOneSession LinkingCanEnd
PROPERTIES TvKeepsSession
CHECK_DEADLOCK FALSE
