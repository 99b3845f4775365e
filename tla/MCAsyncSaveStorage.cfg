CONSTANTS
  NumForms = 2
  NumIdx = 2
  MaxUpserts = 2
  MaxIterates = 1
  NoChange = NoChange
  Callback <- MCCallback
SPECIFICATION FairSpec
CHECK_DEADLOCK FALSE
INVARIANTS
  Inv
  IterateSeesAcked
PROPERTIES
  EveryRequestSettles
  ImplementsQueue
