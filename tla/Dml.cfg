CONSTANTS
  N = 5
  Calls <- MCCalls
SPECIFICATION FairSpec
PROPERTIES
  FulfilsContract
  CallSettles
CHECK_DEADLOCK FALSE
