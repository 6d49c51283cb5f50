CONSTANTS
  A = A  B = B  C = C  Global = Global
  Objects = {A, B, C}
  Configs <- MCConfigs
SPECIFICATION Spec
INVARIANTS
  ProductionConfirmed
  AddonsRunAsDeclared
  FilesAreFresh
  SuccessIsComplete
