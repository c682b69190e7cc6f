SPECIFICATION Spec
CONSTANTS
  c1 = c1
  c2 = c2
  Conn = {c1, c2}
  Last = 1
  Rule <- WaitWait
  Poll <- Polls
  Start <- Zeros
  Retry <- Ones
  Giveup <- OneTwo
  MaxTries <- Twos
  Land <- StayPut
  Recurring = TRUE
  Gap = 1
  Staffed = {}
  MaxAge = 2
  TopTries = 3
  MaxLife = 1
  MaxRuns = 2
  MaxMsgs = 1
  MaxFails = 1
INVARIANT GiveUpClosesSession
