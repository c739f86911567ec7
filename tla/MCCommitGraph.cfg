SPECIFICATION FairSpec
CONSTANTS
  N = 4
  MaxDate = 2
  NoCommit = NoCommit
  Commit <- MCCommit
  Histories <- MCMerges
  Calendars <- MCCalendars
  Stores <- MCStores
INVARIANTS
  TypeOK
  HistoryComplete
  EdgesMirrored
  EachNodeOnce
  FollowsAChild
  ChildrenFirst
PROPERTIES
  CallsReturn
  TakesYoungest
