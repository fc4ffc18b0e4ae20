SPECIFICATION UnattendedSpec
CONSTANTS
  Jobs = {1, 2, 3, 4, 5, 6, 7, 8, 9}
  Task <- MCTask
  Events = {e1}
  Inboxes = {boss}
  AdminInboxes = {boss}
  ToAdmins = ToAdmins
  Workers = {w1, w2}
  RetryWindow = 2
  DedupeWindow = 4
  Stall = 2
  MaxAttempts = 3
  MaxFaults = 2
PROPERTIES AlertsReachOnce EveryTransactionEnds EveryAlertSettles
CHECK_DEADLOCK FALSE
