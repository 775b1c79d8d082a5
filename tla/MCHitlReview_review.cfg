\* Clusters, a term, a control, the gap and the diagram, names that may coincide; a client or the policy resolves.
CONSTANTS
  a = a
  b = b
  Names = {a, b}
  Room <- RoomReview
  MaxRequests = 2
  HitlSettings = {TRUE, FALSE}
SPECIFICATION Spec
INVARIANTS EachItemOnItsOwn OnlyRejectionsShorten UnsharedKeysUntouched GapAnsweredByClient
SYMMETRY Symmetry
CHECK_DEADLOCK FALSE
