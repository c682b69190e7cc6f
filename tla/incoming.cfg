SPECIFICATION Spec
CONSTANTS
  c1 = c1
  c2 = c2
  Connections = {c1, c2}
  MaxOpen = 2
  LastDay = 3
  AUTOREG = "autoreg"
  SPECIAL = "special"
  WATER = {"smc"}
  PollIds = {"p1", "p2"}
  Words = {"yes", "no"}
  Numbers = {"12", "9000"}
  Large = {"9000"}
  Forms = {"att"}
  Tables <- MCTables
  Scripts <- MCScripts
  POLL_DATES <- MCDates
  GROUPS <- MCGroups
  Answers <- MCAnswers
  Fields <- MCFields
  Near <- MCNear
  Allowed <- MCAllowed
  Texts <- MCTexts
  Workloads <- MCWorkloads
INVARIANT TypeOK
INVARIANT OneRowPerScript
INVARIANT QuitOffRoster
INVARIANT SubscribedAreScheduled
INVARIANT OneResponsePerContact
INVARIANT ClassifiedByRules
INVARIANT OneDefault
INVARIANT AnswersFollowQuestions
INVARIANT AskedOnce
INVARIANT CompleteSubmission
INVARIANT UniqueConfirmation
PROPERTY KeepsOverrides
PROPERTY KeepsGoodAnswer
PROPERTY NothingAfterQuit
CHECK_DEADLOCK FALSE
