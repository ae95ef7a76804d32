SPECIFICATION AnsweredSpec
CONSTANTS
  Banks <- OneBank
  Browsers <- TwoBrowsers
  AutoReauth = TRUE
  Challenges <- FourChallenges
CHECK_DEADLOCK FALSE
INVARIANTS TypeOK WaitingIsReachable NoStaleChallenge
PROPERTIES AnswerNotDiverted KeepsDesk EveryBankServed LoopsStop
