SPECIFICATION Spec
CONSTANTS
  Null = Null
  Yes = Yes
  No = No
  Random = "Random"
  All <- MCAll
  RelationOf <- MCRelationOf
  ParentOf <- MCParentOf
  TargetFields <- MCTargetFields
  Counted <- MCCounted
  Cut <- MCCut
  Unknown <- MCUnknown
  Result <- MCResult
  Trimmed <- MCTrimmed
  Scripts <- MCScripts
  TargetIds <- MCTargetIds
  Joined <- MCJoined
  Parts <- MCParts
INVARIANTS
  OwnData
  PersonContactsOfOwnAccount
  MaskedThroughout
  ReferencesMeetRows
  FoundAgain
  InsertsReported
