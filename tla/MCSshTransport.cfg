SPECIFICATION FairWireSpec
CONSTANTS
  Count = 4
  Size <- MCSize
  KeysAt = 2
  Header = 2
  BlockSize = 3
  MacLen = 2
  BufSize = 5
  Messages = 2
  OutSize = 3
INVARIANTS
  PacketsWhole
  
PROPERTIES
  ImplementsPipe
