CONSTANTS
  MaxClients  = 2
  MaxMessages = 2
SPECIFICATION FairSpec
CHECK_DEADLOCK FALSE
INVARIANTS TypeOK AnswersInOrder EchoIsFaithful CleanEndIsComplete UndefinedNeedsSplit
PROPERTY SessionsEnd
