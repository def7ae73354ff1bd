SPECIFICATION Spec
CONSTANTS
  Contact <- MCContact
  FullVolume <- MCFullVolume
  RevisedVolume <- MCRevisedVolume
  Candidate <- MCCandidate
  MaxCandidates = 3
  Evc <- MCEvc
  Critical <- MCBoolean
  MaxBooked = 5
INVARIANTS SelectionSound BestChosen BookingAccounted PriorityOrder
CHECK_DEADLOCK FALSE
