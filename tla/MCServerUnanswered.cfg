SPECIFICATION FairSpec
CONSTANTS
  Banks <- TwoBanks
  Browsers = {}
  AutoReauth = TRUE
  Challenges <- ThreeChallenges
CHECK_DEADLOCK FALSE
PROPERTIES EveryBankServed
