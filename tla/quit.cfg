SPECIFICATION Spec
CONSTANTS
  c1 = c1
  c2 = c2
  Conn = {c1}
  Last = 1
  Rule <- ResendResend
  Poll <- Polls
  Start <- Ones
  Retry <- Ones
  Giveup <- Ones
  MaxTries <- Twos
  Land <- StayPut
  Recurring = TRUE
  Gap = 2
  Staffed = {}
  MaxAge = 2
  TopTries = 3
  MaxLife = 1
  MaxRuns = 2
  MaxMsgs = 1
  MaxFails = 0
INVARIANT QuitLeavesNoProgress
