CONSTANTS
  Jobs <- MCJobs
  Events = {"before", "after"}
  Folded <- MCFolded
SPECIFICATION Spec
INVARIANTS
  LinksAreRight
  UploadsAreRight
  PackageOwnContent
PROPERTY
  OnlyAskedChanges
CHECK_DEADLOCK FALSE
