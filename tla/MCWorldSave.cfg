CONSTANTS
  NumForms = 2
  NumIdx = 2
  MaxVer = 2
  NoChange = NoChange
  NoForm = NoForm
  Callback <- MCCallback
SPECIFICATION FairSpec
INVARIANTS
  Inv
  NothingLost
  SnapshotOnAck
PROPERTIES
  FilesGrow
  EventuallySaved
