SPECIFICATION Spec
CONSTANTS
  FirstOf <- MCFirstOf
  TERMS <- MCTERMS
  TERM_ENDS <- MCTERM_ENDS
  Workloads <- MCWorkloads
INVARIANTS
  TypeOK
  EachAnswerOnce
  CommentKeepsItsMonth
  OffersTermWeeks
  TermWeeksHaveGoals
PROPERTIES
  WeeksAgree
  GoalsGrow
