SPECIFICATION FairSpec
CONSTANTS
  Argvs <- MCArgvs
  PortTexts <- MCPortTexts
  Assigned <- MCAssigned
  Conns = {c1, c2}
  KeepAlive = {c1, c2}
  Backlog = 0
  MaxAsked = 2
  Split = {c2}
INVARIANTS TypeOK AnswersMatch KeptAlive 
PROPERTIES BacklogServed
CHECK_DEADLOCK FALSE
