SPECIFICATION Spec
CONSTANTS
  c1 = c1
  c2 = c2
  Conn = {c1}
  Last = 1
  Rule <- StrictWait
  Poll <- Polls
  Start <- Zeros
  Retry <- Ones
  Giveup <- OneZero
  MaxTries <- Twos
  Land <- StayPut
  Recurring = FALSE
  Gap = 2
  Staffed = {c1}
  MaxAge = 2
  TopTries = 3
  MaxLife = 1
  MaxRuns = 3
  MaxMsgs = 2
  MaxFails = 1
INVARIANT MovedOncePerPass
PROPERTY TextsReachLiveRuns
