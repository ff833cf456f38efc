SPECIFICATION FairSpec
CONSTANTS
  Queries <- MCQueries
  MaxSentences = 3
INVARIANTS AnswerInv ShownIsAnswered
PROPERTY StreamEnds
\* A response that ended takes no step.
CHECK_DEADLOCK FALSE
