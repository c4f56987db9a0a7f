SPECIFICATION FairSpec
CONSTANTS
  debit = debit
  credit = credit
  prepaid = prepaid
  Missing = Missing
  Cards <- MCCards
  Terminals <- MCTerminals
  Requests <- MCRequests
  Hosts <- MCHosts
  MaxTries = 2
  MaxGlitches = 1
INVARIANTS SavedIsCurrent ApprovalIsEarned CvmVerdict PinNotBeyondTries ArcIsFromHost
PROPERTY ProcessReturns
