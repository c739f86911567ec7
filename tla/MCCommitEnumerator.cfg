SPECIFICATION FairEnumeratorSpec
CONSTANTS
  N = 4
  MaxStarts = 2
  Nil = Nil
  Commit <- MCCommit
  Histories <- MCHistories
  Stores <- MCStores
INVARIANTS
  AnswersHistory
  AnsweredOnce
  GenerationsInOrder
PROPERTIES
  DescendsFirst
  
