SPECIFICATION FairSpec
CONSTANTS
  c1 = c1
  c2 = c2
  Conn = {c1}
  Last = 1
  Rule <- WaitStrict
  Poll <- Polls
  Start <- Zeros
  Retry <- Ones
  Giveup <- Ones
  MaxTries <- Twos
  Land <- StayPut
  Recurring = TRUE
  Gap = 2
  Staffed = {}
  MaxAge = 2
  TopTries = 3
  MaxLife = 1
  MaxRuns = 2
  MaxMsgs = 2
  MaxFails = 1
PROPERTY EveryRunEnds
PROPERTY EveryQuestionAsked
