SPECIFICATION FairSpec
CONSTANTS
  IdOf <- MCIdOf
  OtherNames <- MCOtherNames
  Uids <- MCUids
  Master <- MCMaster
  MaxRequests = 2
  MaxUpdates = 2
CHECK_DEADLOCK FALSE
INVARIANTS
  AnswerReachesItsAsker
PROPERTIES
  AskersAreAnswered
