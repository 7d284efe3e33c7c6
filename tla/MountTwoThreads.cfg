SPECIFICATION Spec
CONSTANTS
  t1 = t1
  t2 = t2
  Threads <- TwoThreads
  Archives <- MCArchives
  Requests <- FewRequests
  Garbage <- SomeGarbage
INVARIANTS
  AnswersCorrect
