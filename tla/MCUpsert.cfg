CONSTANTS
  Account = Account  Case = Case
  Parent = Parent  MainCase = MainCase  CaseAccount = CaseAccount  CaseRel = CaseRel
  a1 = a1  a2 = a2  c1 = c1
  old = old  new = new
  t1 = t1  t2 = t2  n1 = n1  n2 = n2  n3 = n3
  None = None  Dangling = Dangling
  Objects = {Account, Case}
  Op <- MCOp
  Fields = {Parent, MainCase, CaseAccount, CaseRel}
  FieldObject <- MCFieldObject
  ParentObject <- MCParentObject
  Creatable = {Parent, MainCase, CaseAccount, CaseRel}
  Updateable = {Parent, MainCase, CaseRel}
  Sources = {a1, a2, c1}
  Keys = {"k1", "k2", "kc"}
  KeyOf <- MCKeyOf
  KeyObject <- MCKeyObject
  Rank <- MCRank
  Ref <- MCRef
  Values = {old, new}
  Val <- MCVal
  TargetIds = {t1, t2, n1, n2, n3}
  TaskOrder <- MCTaskOrder
  DeleteOrder <- NoTasks
  DeleteOldData = {}
  SkipExisting = {}
  AlwaysUpdate = {Account}
  Keeps <- KeepAll
  InitialOrg <- MCInitialOrg
  PromptOnMissing = TRUE
  MaxRuns = 2
  Dup = FALSE
  AccountOp = "Upsert"
  CaseOp = "Upsert"
SPECIFICATION Spec
SYMMETRY NewIds
INVARIANTS
  NoDuplicateRows
  ParentsAreRight
  GraphComplete
  LossesReported
PROPERTIES
  CopiesGraph
  SettledRerun
