CONSTANTS
  TOP = 3
  MAILS = 2
  LIMIT = 2
SPECIFICATION FairSpec
PROPERTY WatchdogStops
