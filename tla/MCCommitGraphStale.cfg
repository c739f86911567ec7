SPECIFICATION Spec
CONSTANTS
  N = 4
  MaxDate = 2
  NoCommit = NoCommit
  Commit <- MCCommit
  Histories <- MCMerges
  Calendars <- MCCalendars
  Stores <- MCStores
INVARIANTS
  FollowsAChildAlways
