CONSTANTS
  Sender = {s1}
  Tool = {t1}
  MaxRequests = 2
  MaxCrashes = 2
SPECIFICATION Spec
CHECK_DEADLOCK FALSE
INVARIANT OutcomeIsTrue
PROPERTY LastRequestTaken
