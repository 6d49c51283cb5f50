SPECIFICATION FairJobSpec
CONSTANT Last = 3
CHECK_DEADLOCK FALSE
PROPERTIES
  JobFulfilsContract
  JobSettles
