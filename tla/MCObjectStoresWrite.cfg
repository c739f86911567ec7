SPECIFICATION Spec
CONSTANTS
  a = a
  b = b
  ra = ra
  p1 = p1
  p2 = p2
  p3 = p3
  Nil = Nil
  Sha <- MCSha
  Object <- MCObject
  Raw <- MCRaw
  Pack <- MCPack
  Repositories <- MCRepositories
  MaxChanges = 1
INVARIANT
  WrittenIsFound
