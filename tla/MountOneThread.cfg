SPECIFICATION FairSpec
CONSTANTS
  t1 = t1
  t2 = t2
  Threads <- OneThread
  Archives <- MCArchives
  Requests <- MCRequests
  Garbage <- SomeGarbage
INVARIANTS
  TypeOK
  AnswersCorrect
  ReadsInRange
PROPERTIES
  ImplementsService
  EveryRequestAnswered
