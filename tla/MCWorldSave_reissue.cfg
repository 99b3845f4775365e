CONSTANTS
  NumForms = 2
  NumIdx = 2
  MaxVer = 3
  NoChange = NoChange
  NoForm = NoForm
  Callback <- MCCallback
SPECIFICATION Spec
INVARIANTS
  CreatedFormsAreSaved
