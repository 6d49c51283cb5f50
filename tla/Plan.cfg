CONSTANTS
  o1 = o1  o2 = o2  o3 = o3  o4 = o4
  Objects = {o1, o2, o3, o4}
  Scripts <- MCScripts
  QueryFirst <- BeforeOthers
  UpdateFirst <- UpdatePair
  DeleteFirst <- DeletePair
  MaxPasses = 10
SPECIFICATION Spec
INVARIANTS
  TasksOrdered
  SortsSuffice
