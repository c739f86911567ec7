CONSTANTS
  Sha <- MCSha
  MaxByte = 2
  FirstByte <- MCFirstByte
  Extended = 16
  Indexes <- MCIndexes
  Packs <- MCPacks
  Original <- MCOriginal
  FullCopy = 2
  Garbage <- MCGarbage
  MaxObjects = 3
  Nil = Nil
SPECIFICATION FairSpec
INVARIANTS TypeOK FoundIfIndexed  
PROPERTY Ends
CHECK_DEADLOCK FALSE
