SPECIFICATION FairSpec
CONSTANTS
  master = master
  alias = alias
  HEAD = HEAD
  Lock = lock
  s1 = s1
  s2 = s2
  None = None
  Empty = Empty
  Branch <- MCBranch
  Sha <- MCSha
  Links <- MCLinks
  Repositories <- MCRepositories
  MaxChanges = 2
INVARIANTS
  TypeOK
  
PROPERTIES
  CachedWasTrue
  
  CacheIsFilled
