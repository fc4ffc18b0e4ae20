SPECIFICATION WebSpec
CONSTANTS
  Accounts = {a1}
  Emails = {e1}
  Providers = {}
  SignCalls = {r1, r2}
  None = None
  VerificationRequired = TRUE
  MaxSessions = 3
  MaxCodes = 0
  MaxLinks = 0
  Tabs = {t1}
  WebCalls = {r1}
PROPERTIES LogoutRevokes
CHECK_DEADLOCK FALSE
