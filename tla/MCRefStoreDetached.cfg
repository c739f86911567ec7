SPECIFICATION Spec
CONSTANTS
  master = master
  alias = alias
  HEAD = HEAD
  Lock = lock
  s1 = s1
  s2 = s2
  None = None
  Empty = Empty
  Branch <- MCBranch
  Sha <- MCSha
  Links <- MCLinks
  Repositories <- MCDetached
  MaxChanges = 0
INVARIANTS
  LinkedRefHasValidSha1
