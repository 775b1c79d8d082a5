\* One capability of a module against two of its functions.
CONSTANTS
  m1 = m1
  m2 = m2
  Modules <- MCModules
  Texts <- MCTexts
  Words <- MCWords
  Values <- MCValues
  NoDefault = NoDefault
  Inputs <- TwoDisputes
SPECIFICATION Spec
INVARIANTS RecordTellsResolution
CHECK_DEADLOCK FALSE
