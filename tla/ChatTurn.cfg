SPECIFICATION FairSpec
CONSTANTS
  Turns = {t1, t2}
  Conversations = {c1}
  Nobody = Nobody
  CommitsFirst = FALSE
  Faults = {"exception", "caught", "database", "disconnect"}
INVARIANTS
  DoneIsDurable
  TurnsAreWhole
  QueriesAreTraced
  MessagesHaveConversation
  StampsAreEarned
  AnswersAreGrounded
  IInv
PROPERTIES
  ImplementsLedger
  TurnsEnd
CHECK_DEADLOCK FALSE
