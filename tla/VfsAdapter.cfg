SPECIFICATION Spec
CONSTANTS
  Cases <- MCCases
  Applicants <- MCApplicants
  Party <- MCParty
  Room <- MCRoom
  MaxTabs = 2
  MaxEvents = 1
INVARIANTS
  TypeOK
  
  DayMovedOnlyIfGone
PROPERTIES
  OwnDraftKept
CHECK_DEADLOCK FALSE
