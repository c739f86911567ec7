SPECIFICATION FairSpec
CONSTANTS
  Modulus = 1000
  MinAdjust = 3
  WindowDefault = 4
  PacketDefault = 2
  StreamIdLen = 2
  ServerWindow = 2
  MaxTries = 3
  ReadBuffer = 2
  Prefs <- MCPrefs
  Offers <- MCOffers
  Scenarios <- MCReading
PROPERTIES
  ReadEnds
CHECK_DEADLOCK FALSE
