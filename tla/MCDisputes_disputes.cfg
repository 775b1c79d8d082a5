\* Contradictions about modules, about values, and scores at their caps.
CONSTANTS
  m1 = m1
  m2 = m2
  Modules <- MCModules
  Texts <- MCTexts
  Words <- MCWords
  Values <- MCValues
  NoDefault = NoDefault
  Inputs <- MCInputs
SPECIFICATION Spec
INVARIANTS ContradictionsFound EveryClaimLabelled ValueDisputesStayOpen SignalsStayAdvisory LoneDisputesRecorded
CHECK_DEADLOCK FALSE
