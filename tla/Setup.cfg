CONSTANTS
  Scripts <- MCScripts
  Org <- MCOrg
  Polymorphic <- MCPolymorphic
  MaxFaults = 1
SPECIFICATION FairSpec
INVARIANTS
  OnlyAskedWrites
  TasksAreSound
  SameSetSameTasks
PROPERTY SetupEnds
CHECK_DEADLOCK FALSE
