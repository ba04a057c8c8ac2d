SPECIFICATION FairSpec
CONSTANTS
  BufferSize = 10
  Answers <- MCAnswers
INVARIANTS TypeOK LoopInv AnswerWholeOrClosed FittingAnswerReturned
PROPERTIES Terminates
